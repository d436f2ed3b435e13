CONSTANTS
    s1 = s1
    s2 = s2
    Keys = {s1, s2}
    Settings <- TwoSettings
    Configs <- SomeConfigs
    Interval = 2
    Buffer = 1
    HostMax = 0
    MaxLedger = 1
    MaxTime = 2
    NetLedgers = 0
    NetTime = 0
    NetProtocol = 0
    Pace = 0
    Ledgers = {}
    Seconds = {}
    Written <- AnyEntry
    Unpinned = Unpinned
    Absent = Absent
    Local = Local
    Unasked = Unasked
    Missing = Missing
    NotBuilt = NotBuilt
    NotRead = NotRead
    Default = Default
SPECIFICATION Spec
INVARIANTS
    ScheduleWhole
