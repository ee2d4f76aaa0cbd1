SPECIFICATION MCSpec
CONSTANTS
    Requests = {r1, r2}
    Checks <- OneCheck
    NoThread = NoThread
    NoRow = NoRow
    NoEvent = NoEvent
    MaxFaults = 2
INVARIANTS
    TypeOK
    ReturnedIsRecorded
    RecordsAreTrue
    NotRunIsNotRun
    UnrecordedIsWithheld
    ExceptionsLeaveARecord
    InterfacesAgree
PROPERTIES
    ImplementsGate
    EveryRequestIsAnswered
