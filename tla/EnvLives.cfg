CONSTANTS
    s1 = s1
    s2 = s2
    Keys = {s1, s2}
    Settings <- TwoSettings
    Configs <- SomeConfigs
    Interval = 2
    Buffer = 1
    HostMax = 0
    MaxLedger = 1
    MaxTime = 5
    NetLedgers = 1
    NetTime = 2
    NetProtocol = 1
    Pace = 2
    Ledgers = {1}
    Seconds = {1, 2, 4}
    Written <- FirstSetting
    Unpinned = Unpinned
    Absent = Absent
    Local = Local
    Unasked = Unasked
    Missing = Missing
    NotBuilt = NotBuilt
    NotRead = NotRead
    Default = Default
SPECIFICATION Spec
INVARIANTS
    TypeOK
    EntriesNotFromFuture
    ScheduleFromCache
    ClockPaced
PROPERTIES
    ImplementsService
    LabelCoversEntries
