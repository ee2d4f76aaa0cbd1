SPECIFICATION Spec
CONSTANTS
    Requests = {r1}
    Checks <- MCChecks
    NoThread = NoThread
    NoRow = NoRow
    NoEvent = NoEvent
    MaxFaults = 2
INVARIANTS
    AuditIdMissingOnlyIfUnwritten
