CONSTANTS
    MaxCalls = 4
    MaxNoise = 2
SPECIFICATION Spec
INVARIANTS
    TypeOK
    EachCallOnce
    TreeIsCallTree
    FailuresNoticed
