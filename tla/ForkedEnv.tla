------------------------------ MODULE ForkedEnv ------------------------------
(***************************************************************************)
(* ForkedEnv and its builder (src/lib.rs) through successive lives of one  *)
(* fork: where the point it forks from and the clock its contracts see     *)
(* come from, how the clock moves, which age the entries have that it      *)
(* fetches while the network goes on, the fee schedule that it reads once  *)
(* (src/fees.rs), and what the cache file is labelled with.                *)
(*                                                                         *)
(* A save is one step here, and succeeds or leaves the file alone:         *)
(* CacheFile has its steps, and the minting of the test accounts.  The     *)
(* environment is used by one thread, so only the network moves between    *)
(* the fetches of one operation.                                           *)
(***************************************************************************)
EXTENDS Integers, Sequences

CONSTANTS
    Keys,        \* ledger keys
    Settings,    \* the settings of the fee schedule, in the order of reading
    Configs,     \* what users ask the builder for
    Interval,    \* LEDGER_INTERVAL_SECONDS: 5
    Buffer,      \* DEFAULT_FORK_TIME_BUFFER_SECONDS: 3600
    HostMax,     \* the newest protocol the linked host implements
    MaxLedger,   \* u32::MAX
    MaxTime,     \* u64::MAX
    NetLedgers,  \* bounds of what the network reaches
    NetTime,
    NetProtocol,
    Pace,        \* greatest number of seconds between two of its ledgers
    Ledgers,     \* ledgers and seconds that users advance the clock by
    Seconds,
    Written,     \* the entries that they write
    Unpinned,    \* the user leaves the choice to the fork
    Absent,      \* no ledger entry under the key
    Local,       \* an entry written in the fork that is none of the settings
    Unasked,     \* the cache does not know the key
    Missing,     \* no file
    NotBuilt,    \* there is no ForkedEnv
    NotRead,     \* the fee schedule has not been read
    Default      \* a fee of a schedule that nothing has been applied to

\* Each setting is named after the key that the network keeps it under.
SettingKeys == {Settings[i] : i \in DOMAIN Settings}

\* An entry of the network is as old as its last change there.  An entry that is
\* written in the fork may be any setting, whatever the key: nothing is checked.
NetworkEntry == [changed : 0 .. MaxTime]
LocalEntry   == [setting : SettingKeys] \cup {Local}
Entry        == NetworkEntry \cup LocalEntry

\* Under key k lies a value v that is setting s.
IsSetting(k, v, s) ==
    \/ v \in NetworkEntry /\ s = k
    \/ v \in LocalEntry \ {Local} /\ s = v.setting

\* FeeConfiguration: the entry each fee was taken from.
Schedule == [SettingKeys -> Entry \cup {Default}]

Point == [ledger : 0 .. MaxLedger, time : 0 .. MaxTime, protocol : 0 .. HostMax]
File   == [entries : UNION {[S -> Entry] : S \in SUBSET Keys}, point : Point]
Config == [ledger : (0 .. MaxLedger) \cup {Unpinned},
           time : (0 .. MaxTime) \cup {Unpinned}, protocol : Nat \cup {Unpinned},
           mode : {"Strict", "Lenient"}]

ASSUME SettingsAssumption == Settings \in Seq(Keys)
ASSUME ConfigsAssumption == Configs \subseteq Config
ASSUME AmountsAssumption ==
    /\ Interval \in Nat \ {0} /\ Buffer \in Nat /\ HostMax \in Nat
    /\ MaxLedger \in Nat /\ MaxTime \in Nat /\ MaxLedger * Interval <= MaxTime
    /\ NetLedgers \in 0 .. MaxLedger /\ NetTime \in 0 .. MaxTime
    /\ NetProtocol \in Nat /\ Pace \in Nat
    /\ Ledgers \subseteq 0 .. MaxLedger /\ Seconds \subseteq 0 .. MaxTime
ASSUME WrittenAssumption == Written \subseteq LocalEntry
ASSUME MarkerAssumption ==
    /\ {Absent, Unasked} \cap Entry = {} /\ Absent # Unasked
    /\ Local \notin NetworkEntry \cup [setting : SettingKeys]
    /\ NetworkEntry \cap [setting : SettingKeys] = {}
    /\ Default \notin Entry
    /\ Unpinned \notin Nat
    /\ NotBuilt \notin Config
    /\ Missing \notin File
    /\ NotRead \notin Schedule

VARIABLES
    net,       \* the network's latest ledger
    upstream,  \* its entries
    file,      \* the cache file: entries and the point they are labelled with
    config,    \* what the ForkedEnv was built with, while there is one
    point,     \* its fields ledger_sequence, timestamp and protocol_version
    clock,     \* the ledger and time that the Env reports
    cache,     \* its snapshot source
    fees,      \* the fee_configuration cell
    reading,   \* fetch_fee_configuration is running
    applied,   \* how many settings it has applied
    schedule,  \* the schedule it is making
    \* History variables, read by no action of the code:
    forkedAt,  \* close time of the ledger it forked from
    late,      \* keys it fetched more than Buffer seconds after that
    stale,     \* a setting was written since the schedule was read
    paced      \* the clock was moved by warp_time and warp_ledger only

world   == <<net, upstream>>
built   == <<config, point, forkedAt>>
pricing == <<fees, reading, applied, schedule>>
vars    == <<world, file, built, clock, cache, pricing, late, stale, paced>>

Origin == [ledger |-> 0, time |-> 0, protocol |-> 0]
Fresh  == [k \in Keys |-> Unasked]
Stamp(time) == [changed |-> time]
Defaults == [s \in SettingKeys |-> Default]

Init ==
    /\ net = Origin
    /\ upstream \in [Keys -> {Absent, Stamp(0)}]
    /\ file = Missing
    /\ config = NotBuilt
    /\ point = Origin
    /\ clock = [ledger |-> 0, time |-> 0]
    /\ cache = Fresh
    /\ fees = NotRead /\ reading = FALSE /\ applied = 0 /\ schedule = Defaults
    /\ forkedAt = 0 /\ late = {} /\ stale = FALSE /\ paced = TRUE

-------------------------------------------------------------------------------
(* The network closes a ledger that changes some entries, and may upgrade. *)

NetworkCloses ==
    /\ net.ledger < NetLedgers
    /\ \E d \in 1 .. Pace, upgrade \in {0, 1}, S \in SUBSET Keys :
         /\ net.time + d <= NetTime
         /\ net.protocol + upgrade <= NetProtocol
         /\ net' = [ledger |-> net.ledger + 1, time |-> net.time + d,
                    protocol |-> net.protocol + upgrade]
         /\ upstream' = [k \in Keys |-> IF k \in S THEN Stamp(net.time + d)
                                                  ELSE upstream[k]]
    /\ UNCHANGED <<file, built, clock, cache, pricing, late, stale, paced>>

-------------------------------------------------------------------------------
(* build.                                                                  *)

Least(m, n) == IF m <= n THEN m ELSE n
SaturatingAdd(n, d, max) == IF n + d > max THEN max ELSE n + d

\* Fault: what the user asks for is not clamped itself.
CapProtocol_Requested(latest, requested) ==
    Least(latest, IF requested = Unpinned THEN HostMax ELSE requested)

\* cap_protocol_version.
CapProtocol(latest, requested) ==
    Least(latest, IF requested = Unpinned THEN HostMax ELSE Least(requested, HostMax))

Pinned(pin, default) == IF pin = Unpinned THEN default ELSE pin

\* Fault: the clock starts at the close time of the fork point.
ForkPoint_NoBuffer(c) ==
    [ledger |-> Pinned(c.ledger, net.ledger), time |-> Pinned(c.time, net.time),
     protocol |-> CapProtocol(net.protocol, c.protocol)]

\* The point a run forks from, ahead of the close time of the latest ledger.
ForkPoint(c) ==
    [ledger   |-> Pinned(c.ledger, net.ledger),
     time     |-> Pinned(c.time, SaturatingAdd(net.time, Buffer, MaxTime)),
     protocol |-> CapProtocol(net.protocol, c.protocol)]

\* The entries of the file, or none when it cannot be read: that is survived.
Loadable == {[k \in {} |-> Local]} \cup (IF file = Missing THEN {} ELSE {file.entries})

Build ==
    /\ config = NotBuilt
    /\ config' \in Configs
    /\ point' = ForkPoint(config')
    /\ clock' = [ledger |-> point'.ledger, time |-> point'.time]
    /\ \E s \in Loadable :
         cache' = [k \in Keys |-> IF k \in DOMAIN s THEN s[k] ELSE Unasked]
    /\ fees' = NotRead /\ reading' = FALSE /\ applied' = 0 /\ schedule' = Defaults
    /\ forkedAt' = net.time /\ late' = {} /\ stale' = FALSE /\ paced' = TRUE
    /\ UNCHANGED <<world, file>>

\* The one thread that uses the environment is free.
Idle == config # NotBuilt /\ ~reading

-------------------------------------------------------------------------------
(* save_cache and Drop.                                                    *)

Present == {k \in Keys : cache[k] \in Entry}

\* Fault: the file is labelled with the clock, however far it was moved.
Labelled_Clock == [ledger |-> clock.ledger, time |-> clock.time, protocol |-> point.protocol]

\* The file is labelled with the fork point, wherever the clock is now.
Labelled == point

\* Fault: an empty cache is saved like any other.
SaveCache_EvenEmpty ==
    \/ UNCHANGED file
    \/ file' = [entries |-> [k \in Present |-> cache[k]], point |-> Labelled]

\* do_save_cache: an empty cache is not saved; a failing save changes nothing.
SaveCache ==
    \/ UNCHANGED file
    \/ /\ Present # {}
       /\ file' = [entries |-> [k \in Present |-> cache[k]], point |-> Labelled]

Save ==
    /\ Idle
    /\ SaveCache
    /\ UNCHANGED <<world, built, clock, cache, pricing, late, stale, paced>>

\* The end of a run, a panic that unwinds included.  A crash does not save.
Drop ==
    /\ config' = NotBuilt
    /\ SaveCache
    /\ cache' = Fresh
    /\ fees' = NotRead /\ reading' = FALSE /\ applied' = 0 /\ schedule' = Defaults
    /\ late' = {} /\ stale' = FALSE /\ paced' = TRUE
    /\ point' = Origin /\ forkedAt' = 0
    /\ clock' = [ledger |-> 0, time |-> 0]
    /\ UNCHANGED world

End == config # NotBuilt /\ Drop

-------------------------------------------------------------------------------
(* Reading and writing entries.                                            *)

\* What fetch_from_rpc brings into the cache; a failure that is not fatal
\* counts as absence.
Fetched(k) == {upstream[k]} \cup (IF config.mode = "Lenient" THEN {Absent} ELSE {})

\* A get ends with v in the cache.
Get(k, v) ==
    IF cache[k] # Unasked
    THEN v = cache[k] /\ UNCHANGED <<cache, late>>
    ELSE /\ v \in Fetched(k)
         /\ cache' = [cache EXCEPT ![k] = v]
         /\ late' = IF net.time > forkedAt + Buffer THEN late \cup {k} ELSE late

\* In Strict mode a fetch that fails panics.
FetchFails(k) == config.mode = "Strict" /\ cache[k] = Unasked

Read(k) ==
    /\ Idle
    /\ \/ /\ \E v \in {cache[k], upstream[k], Absent} : Get(k, v)
          /\ UNCHANGED <<world, file, built, clock, pricing, stale, paced>>
       \/ FetchFails(k) /\ Drop

\* set_entry, apply_changes: a new entry, or none.
Write(k) ==
    /\ Idle
    /\ \E v \in Written \cup {Absent} :
         cache' = [cache EXCEPT ![k] = v]
    /\ late' = late \ {k}
    /\ stale' = (stale \/ k \in SettingKeys)
    /\ UNCHANGED <<world, file, built, clock, pricing, paced>>

-------------------------------------------------------------------------------
(* The fee schedule: one get per setting, and the first that fails ends it. *)

ReadFees ==
    /\ Idle
    /\ fees = NotRead
    /\ reading' = TRUE
    /\ applied' = 0 /\ schedule' = Defaults
    /\ UNCHANGED <<world, file, built, clock, cache, fees, late, stale, paced>>

Setting == Settings[applied + 1]

Applies(v, s) ==
    /\ schedule' = [schedule EXCEPT ![s] = v]
    /\ applied' = applied + 1
    /\ UNCHANGED reading

Breaks == applied' = 0 /\ schedule' = Defaults /\ reading' = FALSE

\* Fault: a setting that cannot be had is left at its default.
ApplySetting_Skips ==
    /\ reading
    /\ applied < Len(Settings)
    /\ \E v \in {cache[Setting], upstream[Setting], Absent} :
         /\ Get(Setting, v)
         /\ \/ \E s \in SettingKeys : IsSetting(Setting, v, s) /\ Applies(v, s)
            \/ /\ \A s \in SettingKeys : ~IsSetting(Setting, v, s)
               /\ applied' = applied + 1
               /\ UNCHANGED <<schedule, reading>>
    /\ UNCHANGED <<world, file, built, clock, fees, stale, paced>>

\* apply_setting: what lies under the key is applied as the setting that it is,
\* which need not be the one asked for; an entry that is none, or no entry, ends
\* the reading.  What was fetched before stays cached.
ApplySetting ==
    /\ reading
    /\ applied < Len(Settings)
    /\ \/ /\ \E v \in {cache[Setting], upstream[Setting], Absent} :
               /\ Get(Setting, v)
               /\ \/ \E s \in SettingKeys : IsSetting(Setting, v, s) /\ Applies(v, s)
                  \/ (\A s \in SettingKeys : ~IsSetting(Setting, v, s)) /\ Breaks
          /\ UNCHANGED <<world, file, built, clock, fees, stale, paced>>
       \/ FetchFails(Setting) /\ Drop

\* The cell is set once, when every setting is there.
FeesKnown ==
    /\ reading
    /\ applied = Len(Settings)
    /\ fees' = schedule
    /\ applied' = 0 /\ schedule' = Defaults /\ reading' = FALSE
    /\ stale' = FALSE
    /\ UNCHANGED <<world, file, built, clock, cache, late, paced>>

-------------------------------------------------------------------------------
(* The clock.                                                              *)

\* warp.
Advance(ledgers, seconds) ==
    /\ Idle
    /\ clock' = [ledger |-> SaturatingAdd(clock.ledger, ledgers, MaxLedger),
                 time   |-> SaturatingAdd(clock.time, seconds, MaxTime)]
    /\ UNCHANGED <<world, file, built, cache, pricing, late, stale>>

Warp(ledgers, seconds) == Advance(ledgers, seconds) /\ paced' = FALSE

\* Fault: a part of a ledger counts as one.
WarpTime_RoundsUp(seconds) ==
    /\ Advance(((seconds + Interval - 1) \div Interval) % (MaxLedger + 1), seconds)
    /\ UNCHANGED paced

\* The number of ledgers is cut to its width.
WarpTime(seconds) ==
    /\ Advance((seconds \div Interval) % (MaxLedger + 1), seconds)
    /\ UNCHANGED paced

WarpLedger(ledgers) ==
    /\ Advance(ledgers, ledgers * Interval)
    /\ UNCHANGED paced

-------------------------------------------------------------------------------

Next ==
    \/ NetworkCloses
    \/ Build \/ Save \/ End
    \/ \E k \in Keys : Read(k) \/ Write(k)
    \/ ReadFees \/ ApplySetting \/ FeesKnown
    \/ \E n \in Ledgers, s \in Seconds : Warp(n, s)
    \/ \E s \in Seconds : WarpTime(s)
    \/ \E n \in Ledgers : WarpLedger(n)

Spec == Init /\ [][Next]_vars

-------------------------------------------------------------------------------
(***************************************************************************)
(* Properties.                                                             *)
(***************************************************************************)

\* In particular, the Env never reports a protocol that the host does not
\* implement, whatever the network runs and the user asks for.
TypeOK ==
    /\ net \in [ledger : 0 .. NetLedgers, time : 0 .. NetTime, protocol : 0 .. NetProtocol]
    /\ upstream \in [Keys -> NetworkEntry \cup {Absent}]
    /\ file \in File \cup {Missing}
    /\ config \in Config \cup {NotBuilt}
    /\ point \in Point
    /\ clock \in [ledger : 0 .. MaxLedger, time : 0 .. MaxTime]
    /\ cache \in [Keys -> Entry \cup {Absent, Unasked}]
    /\ fees \in Schedule \cup {NotRead}
    /\ reading \in BOOLEAN
    /\ applied \in 0 .. Len(Settings)
    /\ schedule \in Schedule
    /\ forkedAt \in 0 .. NetTime
    /\ late \subseteq Keys
    /\ stale \in BOOLEAN
    /\ paced \in BOOLEAN

\* No entry of the network is younger than what the contracts take for now,
\* although it was fetched after the fork point, in this run or in an earlier
\* one that saved it: unless the user pinned the time, or this run fetched it
\* later than the buffer allows for.
EntriesNotFromFuture ==
    config # NotBuilt /\ config.time = Unpinned =>
        \A k \in Keys \ late : cache[k] \in NetworkEntry => cache[k].changed <= clock.time

\* As long as no setting has been written since a schedule was read, it agrees
\* with what transactions see: something was found under the key of every setting,
\* and the fee of a setting that lies under its own key and no other is taken from
\* there.  A setting that lies under another's key can displace two fees.
ScheduleFromCache ==
    fees # NotRead /\ ~stale =>
        \A k \in SettingKeys :
            /\ \E s \in SettingKeys : IsSetting(k, cache[k], s)
            /\ (\A j \in SettingKeys : IsSetting(j, cache[j], k) <=> j = k)
                 => fees[k] = cache[k]

\* A schedule has all of its fees from the ledger.
ScheduleWhole == fees # NotRead => \A k \in SettingKeys : fees[k] # Default

\* As long as only warp_time and warp_ledger move the clock, no ledger takes
\* less than its interval, saturated and truncated advances included.
ClockPaced ==
    config # NotBuilt /\ paced /\ clock.time < MaxTime =>
        (clock.ledger - point.ledger) * Interval <= clock.time - point.time

\* A saved file never claims a ledger the network has not reached, nor entries
\* of the network that are younger than the claimed time, unless the run had
\* pinned them, or fetched them later than the buffer allows for.
LabelCoversEntries ==
    [][file' # file =>
         /\ config.ledger = Unpinned => file'.point.ledger <= net.ledger
         /\ config.time = Unpinned =>
              \A k \in DOMAIN file'.entries \ late :
                  file'.entries[k] \in NetworkEntry =>
                      file'.entries[k].changed <= file'.point.time]_vars

\* The fork and its file behave as CacheFile's do, whose gets and saves take
\* several steps: here they take one.
Service == INSTANCE CacheService WITH
    Forks     <- {"fork"},
    Entries   <- Entry,
    Fetchable <- NetworkEntry \cup {Absent},
    Writable  <- LocalEntry \cup {Absent},
    stored    <- IF file = Missing THEN {} ELSE {file.entries},
    up        <- [f \in {"fork"} |-> config # NotBuilt],
    cache     <- [f \in {"fork"} |-> cache]

ImplementsService == Service!Spec

===============================================================================
