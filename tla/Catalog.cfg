SPECIFICATION FairSpec
CONSTANTS
    Threads = {t1, t2}
    MaxAge = 2
    MaxLookups = 2
    MaxTime = 3
    MaxVersion = 2
    NoThread = NoThread
    NoSnapshot = NoSnapshot
INVARIANTS
    TypeOK
    OneReadAtATime
    ChangesShowUpInTime
    RefreshForgets
PROPERTIES
    LookupsNeverGoBack
    LockIsReleased
