SPECIFICATION Spec
CONSTANTS
    Events = {e1, e2}
    Wanted = {e1, e2}
    Limit = 1
    Lookback = 1
    Skew = 0
    MaxTime = 2
INVARIANTS
    RecordedEventsArePrinted
CHECK_DEADLOCK FALSE
