CONSTANTS
    c1 = c1
    c2 = c2
    a1 = a1
    zero = zero
    w1 = w1
    w2 = w2
    v0 = v0
    v1 = v1
    NoTtl = NoTtl
    Absent = Absent
    Foreign = Foreign
    NoReceipt = NoReceipt
    NoRequest = NoRequest
    NoReply = NoReply
    Failed = Failed
    Clients <- TwoClients
    Accounts <- OneAccount
    Assets <- OnlyNative
    Wasms <- Nothing
    Values <- OneValue
    Empty = v0
    Lives <- NoLives
    Transactions <- OnlyMint
    MaxBalance = 1
    MaxLedger = 1
    MaxTime = 0
    SeqMin <- Int2Min
    SeqMax = 1
    SeqUnit = 2
    TestAccounts <- Nothing
    RawRests = {0}
    RawInstances <- Nothing
    Closes = {}
    Delays = {}
    LedgerInterval = 2
    ZeroAccount = zero
    Methods = {"setBalance", "setTokenBalance", "setHeld", "setToken", "sendTransaction", "getLedgerEntries", "getLedgers"}
SPECIFICATION Spec
INVARIANTS
    TypeOK
    NumbersCount
PROPERTIES
    ImplementsApi
