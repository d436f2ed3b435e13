CONSTANTS
    r1 = r1
    r2 = r2
    r3 = r3
    NoRequest = NoRequest
    Requests <- TwoRequests
    MaxCommands = 1
    Capacity = 1
SPECIFICATION Spec
INVARIANTS
    SavedOnShutdown
CHECK_DEADLOCK FALSE
