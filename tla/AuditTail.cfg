SPECIFICATION FairSpec
CONSTANTS
    Events = {e1, e2, e3}
    Wanted = {e1, e2}
    Limit = 1
    Lookback = 2
    Skew = 1
    MaxTime = 3
INVARIANTS
    TypeOK
    NeverTwice
    LateEventsAreCaught
PROPERTIES
    RecordedIsPrintedSometime
CHECK_DEADLOCK FALSE
