CONSTANTS
    k1 = k1
    k2 = k2
    t1 = t1
    t2 = t2
    NoTtl = NoTtl
    Absent = Absent
    Unasked = Unasked
    NoKey = NoKey
    Keys <- TwoKeys
    Accounts <- Account
    Threads <- TwoThreads
    Mode = "Lenient"
    SeqMin = 0
    SeqMax = 0
    Lives <- OneLife
SPECIFICATION Spec
SYMMETRY ThreadSymmetry
INVARIANTS
    CoherentUnlessRaced
    OneFetchPerThread
