SPECIFICATION Spec
CONSTANTS
    Threads = {t1, t2}
    Ids = {i1, i2}
    Contents = {good, bad}
    Unstorable = {bad}
    NoThread = NoThread
    NoRow = NoRow
    NoEvent = NoEvent
    MaxFaults = 2
SYMMETRY Symmetry
INVARIANTS
    TypeOK
    OneStatementAtATime
    AcknowledgedIsStored
PROPERTIES
    EarlierFaultsAreHidden
    ImplementsAuditLog
