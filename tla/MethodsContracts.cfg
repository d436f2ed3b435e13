CONSTANTS
    c1 = c1
    c2 = c2
    a1 = a1
    zero = zero
    w1 = w1
    w2 = w2
    v0 = v0
    v1 = v1
    NoTtl = NoTtl
    Absent = Absent
    Foreign = Foreign
    NoReceipt = NoReceipt
    NoRequest = NoRequest
    NoReply = NoReply
    Failed = Failed
    Clients <- TwoClients
    Accounts <- OneAccount
    Assets <- Nothing
    Wasms <- TwoWasms
    Values <- TwoValues
    Empty = v0
    Lives <- NoLives
    Transactions <- OnlyPut
    MaxBalance = 0
    MaxLedger = 3
    MaxTime = 4
    SeqMin <- Int2Min
    SeqMax = 1
    SeqUnit = 2
    TestAccounts <- Nothing
    RawRests = {0}
    RawInstances <- OnlyForeign
    Closes = {2}
    Delays = {3}
    LedgerInterval = 2
    ZeroAccount = zero
    Methods = {"etch", "setCode", "setInstance", "sendTransaction", "getTransaction", "closeLedgers"}
SPECIFICATION Spec
INVARIANTS
    InstanceRunnable
    AnswersCurrent
    ReceiptsNotFromFuture
PROPERTIES
    ClockNeverBack
    ImplementsApi
