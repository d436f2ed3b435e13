CONSTANTS
    r1 = r1
    r2 = r2
    r3 = r3
    NoRequest = NoRequest
    Requests <- ThreeRequests
    MaxCommands = 2
    Capacity = 1
SPECIFICATION FairSpec
INVARIANTS
    TypeOK
    WaitingIsQueued
PROPERTIES
    ImplementsService
    EveryRequestEnds
    WorkerEnds
CHECK_DEADLOCK FALSE
