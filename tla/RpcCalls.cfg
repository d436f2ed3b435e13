CONSTANTS
    k1 = k1
    k2 = k2
    k3 = k3
    Absent = Absent
    NoLedger = NoLedger
    Keys <- ThreeKeys
    MaxKeys = 2
    Retries = {0, 3, 7}
    MaxAttempts = 7
    Base = 2
    MaxDelay = 8
    MaxLedger = 3
    Retention = 2
SPECIFICATION FairSpec
INVARIANTS
    TypeOK
    FetchIsComplete
    CloseTimeOfLatest
    GivesUpAfterAllAttempts
PROPERTIES
    BackoffGrows
    CallEnds
CHECK_DEADLOCK FALSE
