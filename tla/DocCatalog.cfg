SPECIFICATION Spec
CONSTANTS
    Threads = {t1}
    MaxAge = 2
    MaxLookups = 2
    MaxTime = 4
    MaxVersion = 1
    NoThread = NoThread
    NoSnapshot = NoSnapshot
INVARIANTS
    UnreadableCatalogSaysSo
