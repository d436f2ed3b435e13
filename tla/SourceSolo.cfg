CONSTANTS
    k1 = k1
    k2 = k2
    t1 = t1
    t2 = t2
    NoTtl = NoTtl
    Absent = Absent
    Unasked = Unasked
    NoKey = NoKey
    Keys <- TwoKeys
    Accounts <- Account
    Threads <- OneThread
    Mode = "Strict"
    SeqMin = 0
    SeqMax = 1
    Lives <- OneLife
SPECIFICATION FairSpec
INVARIANTS
    TypeOK
    Frozen
    AbsenceIsReal
PROPERTIES
    ImplementsService
    GetsEnd
CHECK_DEADLOCK FALSE
