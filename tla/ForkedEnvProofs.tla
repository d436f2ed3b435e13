---------------------------- MODULE ForkedEnvProofs ----------------------------
(***************************************************************************)
(* Theorems about ForkedEnv, for any network, any keys and any requests of *)
(* the user.                                                               *)
(*                                                                         *)
(* An entry in the cache was changed at most Buffer seconds after the      *)
(* close time the run forked from, or is marked late: the network's clock  *)
(* bounds the age of all that is ever fetched, so that whatever an earlier *)
(* run saved was changed before this one forked (AgeInv).                  *)
(***************************************************************************)
EXTENDS ForkedEnv, TLAPS

\* Nothing is younger than the network's latest ledger.
UpstreamPast == \A k \in Keys : upstream[k] \in NetworkEntry => upstream[k].changed <= net.time

CachePast == \A k \in Keys : cache[k] \in NetworkEntry => cache[k].changed <= net.time

FilePast ==
    file # Missing =>
        \A k \in DOMAIN file.entries :
            file.entries[k] \in NetworkEntry => file.entries[k].changed <= net.time

\* An entry that is not late was changed before the buffer was used up.
CacheNotLate ==
    \A k \in Keys \ late : cache[k] \in NetworkEntry => cache[k].changed <= forkedAt + Buffer

\* Where a run forked, and that its clock has not gone back.
ForkedFromNet ==
    config # NotBuilt =>
        /\ forkedAt <= net.time
        /\ config.time = Unpinned => point.time = SaturatingAdd(forkedAt, Buffer, MaxTime)
        /\ config.ledger = Unpinned => point.ledger <= net.ledger
        /\ point.time <= clock.time

AgeInv == TypeOK /\ UpstreamPast /\ CachePast /\ FilePast /\ CacheNotLate /\ ForkedFromNet

\* As far as the settings under K go, the fees agree with what is held there.
Agrees(fee, held, K) ==
    \A k \in K :
        /\ \E s \in SettingKeys : IsSetting(k, held[k], s)
        /\ (\A j \in K : IsSetting(j, held[j], k) <=> j = k) => fee[k] = held[k]

AppliedKeys == {Settings[i] : i \in 1 .. applied}

\* While the schedule is read, it agrees with the cache as far as it goes.
ScheduleSoFar == reading => Agrees(schedule, cache, AppliedKeys)

FeesInv == TypeOK /\ ScheduleSoFar /\ ScheduleFromCache

-------------------------------------------------------------------------------
(* Facts about the operators.                                              *)

LEMMA SaturatingAddBounds ==
    ASSUME NEW max \in Nat, NEW n \in 0 .. max, NEW d \in Nat
    PROVE  /\ SaturatingAdd(n, d, max) \in 0 .. max
           /\ n <= SaturatingAdd(n, d, max)
           /\ SaturatingAdd(n, d, max) <= n + d
           /\ SaturatingAdd(n, d, max) < max => SaturatingAdd(n, d, max) = n + d
BY DEF SaturatingAdd

LEMMA ForkPointTyped ==
    ASSUME TypeOK, NEW c \in Config
    PROVE  ForkPoint(c) \in Point
<1>1. Pinned(c.ledger, net.ledger) \in 0 .. MaxLedger
  BY AmountsAssumption DEF TypeOK, Config, Pinned
<1>2. SaturatingAdd(net.time, Buffer, MaxTime) \in 0 .. MaxTime
  <2>1. net.time \in 0 .. MaxTime /\ Buffer \in Nat /\ MaxTime \in Nat
    BY AmountsAssumption DEF TypeOK
  <2> QED BY <2>1, SaturatingAddBounds
<1>3. Pinned(c.time, SaturatingAdd(net.time, Buffer, MaxTime)) \in 0 .. MaxTime
  BY <1>2 DEF Config, Pinned
<1>4. net.protocol \in Nat /\ (c.protocol = Unpinned \/ c.protocol \in Nat)
  BY AmountsAssumption DEF TypeOK, Config
<1>5. CapProtocol(net.protocol, c.protocol) \in 0 .. HostMax
  BY <1>4, AmountsAssumption DEF CapProtocol, Least
<1> QED BY <1>1, <1>3, <1>5 DEF ForkPoint, Point

\* What a file is, without the UNION.
LEMMA FileParts ==
    ASSUME NEW f \in File
    PROVE  /\ DOMAIN f.entries \subseteq Keys
           /\ \A k \in DOMAIN f.entries : f.entries[k] \in Entry
           /\ f.point \in Point
BY DEF File

\* A get answers from the cache, or brings one new entry into it.
LEMMA GetSteps ==
    ASSUME NEW k \in Keys, NEW v, Get(k, v)
    PROVE  \/ cache' = cache /\ late' = late /\ v = cache[k]
           \/ /\ cache[k] = Unasked
              /\ v = upstream[k] \/ v = Absent
              /\ cache' = [cache EXCEPT ![k] = v]
              /\ late' = IF net.time > forkedAt + Buffer THEN late \cup {k} ELSE late
BY DEF Get, Fetched

LEMMA GetTyped ==
    ASSUME TypeOK, NEW k \in Keys, NEW v, Get(k, v)
    PROVE  /\ cache' \in [Keys -> Entry \cup {Absent, Unasked}]
           /\ late' \subseteq Keys
BY GetSteps DEF TypeOK, Entry

LEMMA SettingIsKey ==
    ASSUME TypeOK, applied < Len(Settings)
    PROVE  Setting \in Keys /\ Setting \in SettingKeys
<1>1. applied \in Nat /\ applied + 1 \in 1 .. Len(Settings)
  BY SettingsAssumption DEF TypeOK
<1>2. applied + 1 \in DOMAIN Settings
  BY <1>1, SettingsAssumption
<1> QED BY <1>2, SettingsAssumption DEF Setting, SettingKeys

LEMMA SettingKeysAreKeys == SettingKeys \subseteq Keys
BY SettingsAssumption DEF SettingKeys

\* A written entry is none of the network's.
LEMMA WrittenTyped ==
    ASSUME NEW v \in Written \cup {Absent}
    PROVE  /\ v \in LocalEntry \cup {Absent}
           /\ v \in Entry \cup {Absent}
           /\ v \notin NetworkEntry
BY WrittenAssumption, MarkerAssumption DEF Entry, LocalEntry

\* What is a setting is an entry, and one setting only.
LEMMA SettingIsEntry ==
    ASSUME NEW k, NEW v, NEW s, IsSetting(k, v, s)
    PROVE  v \in Entry
BY DEF IsSetting, Entry

LEMMA SettingIsOne ==
    ASSUME NEW k, NEW v, NEW s, NEW r, IsSetting(k, v, s), IsSetting(k, v, r)
    PROVE  s = r
BY MarkerAssumption DEF IsSetting, LocalEntry

LEMMA DefaultsTyped == Defaults \in Schedule
BY DEF Defaults, Schedule

\* A save writes what is present, labelled with the fork point.
LEMMA SaveTyped ==
    ASSUME TypeOK, SaveCache
    PROVE  file' \in File \cup {Missing}
<1>1. CASE file' = file
  BY <1>1 DEF TypeOK
<1>2. CASE file' = [entries |-> [k \in Present |-> cache[k]], point |-> Labelled]
  <2>1. Present \in SUBSET Keys /\ [k \in Present |-> cache[k]] \in [Present -> Entry]
    BY DEF Present
  <2> QED BY <1>2, <2>1 DEF File, TypeOK, Labelled
<1> QED BY <1>1, <1>2 DEF SaveCache

-------------------------------------------------------------------------------
(* Type correctness.                                                       *)

LEMMA InitTypeOK == Init => TypeOK
<1> SUFFICES ASSUME Init PROVE TypeOK
  OBVIOUS
<1>1. upstream \in [Keys -> NetworkEntry \cup {Absent}]
  BY AmountsAssumption DEF Init, Stamp, NetworkEntry
<1>2. net \in [ledger : 0 .. NetLedgers, time : 0 .. NetTime, protocol : 0 .. NetProtocol]
  BY AmountsAssumption DEF Init, Origin
<1>3. point \in Point /\ clock \in [ledger : 0 .. MaxLedger, time : 0 .. MaxTime]
  BY AmountsAssumption DEF Init, Origin, Point
<1>4. cache \in [Keys -> Entry \cup {Absent, Unasked}] /\ forkedAt \in 0 .. NetTime
  BY AmountsAssumption DEF Init, Fresh
<1>5. reading \in BOOLEAN /\ paced \in BOOLEAN /\ stale \in BOOLEAN
  BY Zenon DEF Init
<1>6. schedule \in Schedule /\ applied \in 0 .. Len(Settings)
  BY DefaultsTyped, SettingsAssumption DEF Init
<1> QED BY <1>1, <1>2, <1>3, <1>4, <1>5, <1>6 DEF Init, TypeOK

LEMMA DropTypeOK ==
    ASSUME TypeOK, Drop
    PROVE  TypeOK'
<1>1. file' \in File \cup {Missing}
  BY SaveTyped DEF Drop
<1>2. point' \in Point /\ clock' \in [ledger : 0 .. MaxLedger, time : 0 .. MaxTime]
  BY AmountsAssumption DEF Drop, Origin, Point
<1>3. cache' \in [Keys -> Entry \cup {Absent, Unasked}] /\ forkedAt' \in 0 .. NetTime
  BY AmountsAssumption DEF Drop, Fresh
<1>4. reading' \in BOOLEAN /\ paced' \in BOOLEAN /\ stale' \in BOOLEAN
  BY Zenon DEF Drop
<1>5. schedule' \in Schedule /\ applied' \in 0 .. Len(Settings)
  BY DefaultsTyped, SettingsAssumption DEF Drop
<1> QED BY <1>1, <1>2, <1>3, <1>4, <1>5 DEF Drop, TypeOK, world

LEMMA BuildTypeOK ==
    ASSUME TypeOK, Build
    PROVE  TypeOK'
<1>1. config' \in Config
  BY ConfigsAssumption DEF Build
<1>2. point' \in Point
  BY <1>1, ForkPointTyped DEF Build
<1>3. PICK s \in Loadable : cache' = [k \in Keys |-> IF k \in DOMAIN s THEN s[k] ELSE Unasked]
  BY DEF Build
<1>4. \A k \in DOMAIN s : s[k] \in Entry
  BY FileParts DEF Loadable, TypeOK
<1>5. cache' \in [Keys -> Entry \cup {Absent, Unasked}]
  BY <1>3, <1>4
<1>6. clock' \in [ledger : 0 .. MaxLedger, time : 0 .. MaxTime]
  BY <1>2 DEF Build, Point
<1>7. forkedAt' \in 0 .. NetTime
  BY DEF Build, TypeOK
<1>8. reading' \in BOOLEAN /\ paced' \in BOOLEAN /\ stale' \in BOOLEAN
  BY Zenon DEF Build
<1>9. schedule' \in Schedule /\ applied' \in 0 .. Len(Settings)
  BY DefaultsTyped, SettingsAssumption DEF Build
<1> QED BY <1>1, <1>2, <1>5, <1>6, <1>7, <1>8, <1>9 DEF Build, TypeOK, world

\* The clock and the network.
LEMMA MoveTypeOK ==
    ASSUME TypeOK,
           \/ NetworkCloses
           \/ \E n \in Ledgers, s \in Seconds : Warp(n, s)
           \/ \E s \in Seconds : WarpTime(s)
           \/ \E n \in Ledgers : WarpLedger(n)
    PROVE  TypeOK'
<1>1. CASE NetworkCloses
  <2>1. PICK d \in 1 .. Pace, upgrade \in {0, 1}, S \in SUBSET Keys :
          /\ net.time + d <= NetTime
          /\ net.protocol + upgrade <= NetProtocol
          /\ net' = [ledger |-> net.ledger + 1, time |-> net.time + d,
                     protocol |-> net.protocol + upgrade]
          /\ upstream' = [k \in Keys |-> IF k \in S THEN Stamp(net.time + d) ELSE upstream[k]]
    BY <1>1 DEF NetworkCloses
  <2>2. net' \in [ledger : 0 .. NetLedgers, time : 0 .. NetTime, protocol : 0 .. NetProtocol]
    <3>1. net.ledger \in Nat /\ net.ledger + 1 <= NetLedgers
      BY <1>1, AmountsAssumption DEF NetworkCloses, TypeOK
    <3>4. net.time \in Nat /\ d \in Nat /\ NetTime \in Nat /\ NetLedgers \in Nat
      BY AmountsAssumption DEF TypeOK
    <3>2. net.time + d \in 0 .. NetTime /\ net.ledger + 1 \in 0 .. NetLedgers
      BY <2>1, <3>1, <3>4
    <3>3. net.protocol + upgrade \in 0 .. NetProtocol
      BY <2>1, AmountsAssumption DEF TypeOK
    <3> QED BY <2>1, <3>2, <3>3
  <2>3. Stamp(net.time + d) \in NetworkEntry
    <3>1. NetTime \in 0 .. MaxTime /\ MaxTime \in Nat /\ Pace \in Nat
      BY AmountsAssumption, Zenon
    <3>2. net.time \in Nat /\ d \in Nat
      BY <3>1 DEF TypeOK
    <3>3. net.time + d \in 0 .. MaxTime
      BY <2>1, <3>1, <3>2
    <3> QED BY <3>3 DEF Stamp, NetworkEntry
  <2>4. upstream' \in [Keys -> NetworkEntry \cup {Absent}]
    BY <2>1, <2>3 DEF TypeOK
  <2> QED BY <1>1, <2>2, <2>4 DEF NetworkCloses, TypeOK, built, pricing
<1>2. ASSUME NEW n \in Nat, NEW s \in Nat, Advance(n, s), paced' \in BOOLEAN PROVE TypeOK'
  <2>1. clock' \in [ledger : 0 .. MaxLedger, time : 0 .. MaxTime]
    BY <1>2, AmountsAssumption, SaturatingAddBounds DEF Advance, TypeOK
  <2> QED BY <1>2, <2>1 DEF Advance, TypeOK, world, built, pricing
<1>3. ASSUME NEW n \in Ledgers, NEW s \in Seconds, Warp(n, s) PROVE TypeOK'
  <2>1. n \in Nat /\ s \in Nat
    BY AmountsAssumption
  <2>2. Advance(n, s) /\ paced' \in BOOLEAN
    BY <1>3, Zenon DEF Warp
  <2> QED BY <2>1, <2>2, <1>2
<1>4. ASSUME NEW s \in Seconds, WarpTime(s) PROVE TypeOK'
  <2>1. s \in Nat /\ (s \div Interval) % (MaxLedger + 1) \in Nat
    BY AmountsAssumption
  <2>2. Advance((s \div Interval) % (MaxLedger + 1), s) /\ paced' \in BOOLEAN
    BY <1>4 DEF WarpTime, TypeOK
  <2> QED BY <2>1, <2>2, <1>2
<1>5. ASSUME NEW n \in Ledgers, WarpLedger(n) PROVE TypeOK'
  <2>1. n \in Nat /\ n * Interval \in Nat
    BY AmountsAssumption
  <2>2. Advance(n, n * Interval) /\ paced' \in BOOLEAN
    BY <1>5 DEF WarpLedger, TypeOK
  <2> QED BY <2>1, <2>2, <1>2
<1> QED BY <1>1, <1>3, <1>4, <1>5

\* Reading, writing, saving, dropping.
LEMMA RunTypeOK ==
    ASSUME TypeOK,
           \/ Save \/ End
           \/ \E k \in Keys : Read(k) \/ Write(k)
           \/ ReadFees \/ ApplySetting \/ FeesKnown
    PROVE  TypeOK'
<1>1. CASE Save
  <2>1. file' \in File \cup {Missing}
    BY <1>1, SaveTyped DEF Save
  <2> QED BY <1>1, <2>1 DEF Save, TypeOK, world, built, pricing
<1>2. CASE End
  BY <1>2, DropTypeOK DEF End
<1>3. ASSUME NEW k \in Keys, Read(k) PROVE TypeOK'
  <2>1. CASE Drop
    BY <2>1, DropTypeOK
  <2>2. CASE ~Drop
    <3>1. PICK v : Get(k, v)
      BY <1>3, <2>2 DEF Read
    <3>2. cache' \in [Keys -> Entry \cup {Absent, Unasked}] /\ late' \subseteq Keys
      BY <3>1, GetTyped
    <3> QED BY <1>3, <2>2, <3>2 DEF Read, TypeOK, world, built, pricing
  <2> QED BY <2>1, <2>2
<1>4. ASSUME NEW k \in Keys, Write(k) PROVE TypeOK'
  <2>1. cache' \in [Keys -> Entry \cup {Absent, Unasked}]
    BY <1>4, WrittenTyped DEF Write, TypeOK
  <2>2. stale' \in BOOLEAN
    BY <1>4, Zenon DEF Write
  <2> QED BY <1>4, <2>1, <2>2 DEF Write, TypeOK, world, built, pricing
<1>5. CASE ReadFees
  <2>1. reading' \in BOOLEAN
    BY <1>5, Zenon DEF ReadFees
  <2>2. schedule' \in Schedule /\ applied' \in 0 .. Len(Settings)
    BY <1>5, DefaultsTyped, SettingsAssumption DEF ReadFees
  <2> QED BY <1>5, <2>1, <2>2 DEF ReadFees, TypeOK, world, built
<1>6. CASE ApplySetting
  <2>1. CASE Drop
    BY <2>1, DropTypeOK
  <2>2. CASE ~Drop
    <3>1. PICK v : /\ Get(Setting, v)
                   /\ (\E s \in SettingKeys : IsSetting(Setting, v, s) /\ Applies(v, s)) \/ Breaks
      BY <1>6, <2>2 DEF ApplySetting
    <3>2. Setting \in Keys /\ applied < Len(Settings)
      BY <1>6, SettingIsKey DEF ApplySetting
    <3>3. cache' \in [Keys -> Entry \cup {Absent, Unasked}] /\ late' \subseteq Keys
      BY <3>1, <3>2, GetTyped
    <3>4. schedule' \in Schedule /\ applied' \in 0 .. Len(Settings)
      <4>1. CASE Breaks
        BY <4>1, DefaultsTyped, SettingsAssumption DEF Breaks
      <4>2. ASSUME NEW s \in SettingKeys, IsSetting(Setting, v, s), Applies(v, s)
            PROVE  schedule' \in Schedule /\ applied' \in 0 .. Len(Settings)
        <5>1. v \in Entry
          BY <4>2, SettingIsEntry
        <5>2. schedule' \in Schedule
          BY <4>2, <5>1 DEF Applies, TypeOK, Schedule
        <5>3. applied' \in 0 .. Len(Settings)
          BY <3>2, <4>2, SettingsAssumption DEF Applies, TypeOK
        <5> QED BY <5>2, <5>3
      <4> QED BY <3>1, <4>1, <4>2
    <3>5. reading' \in BOOLEAN
      BY <3>1, Zenon DEF TypeOK, Applies, Breaks
    <3> QED BY <1>6, <2>2, <3>3, <3>4, <3>5 DEF ApplySetting, TypeOK, world, built
  <2> QED BY <2>1, <2>2
<1>7. CASE FeesKnown
  <2>1. reading' \in BOOLEAN /\ stale' \in BOOLEAN
    BY <1>7, Zenon DEF FeesKnown
  <2>2. schedule' \in Schedule /\ applied' \in 0 .. Len(Settings)
    BY <1>7, DefaultsTyped, SettingsAssumption DEF FeesKnown
  <2> QED BY <1>7, <2>1, <2>2 DEF FeesKnown, TypeOK, world, built
<1> QED BY <1>1, <1>2, <1>3, <1>4, <1>5, <1>6, <1>7

LEMMA StepTypeOK == TypeOK /\ [Next]_vars => TypeOK'
<1> SUFFICES ASSUME TypeOK, [Next]_vars PROVE TypeOK'
  OBVIOUS
<1>1. CASE UNCHANGED vars
  BY <1>1 DEF vars, TypeOK, world, built, pricing
<1>2. CASE Next
  BY <1>2, BuildTypeOK, MoveTypeOK, RunTypeOK DEF Next
<1> QED BY <1>1, <1>2

\* Every variable keeps its type; in particular the Env reports no protocol that
\* its host lacks.
THEOREM SpecTypeOK == Spec => []TypeOK
<1> QED BY InitTypeOK, StepTypeOK, PTL DEF Spec

-------------------------------------------------------------------------------
(* The age of entries.                                                     *)

LEMMA InitAge == Init => AgeInv
<1> SUFFICES ASSUME Init PROVE AgeInv
  OBVIOUS
<1>1. UpstreamPast
  BY MarkerAssumption DEF Init, UpstreamPast, Stamp, Origin, Entry
<1>2. CachePast /\ CacheNotLate
  BY MarkerAssumption DEF Init, CachePast, CacheNotLate, Fresh, Entry
<1> QED BY <1>1, <1>2, InitTypeOK DEF Init, AgeInv, FilePast, ForkedFromNet

LEMMA NetworkAge ==
    ASSUME AgeInv, TypeOK', NetworkCloses
    PROVE  AgeInv'
<1>1. PICK d \in 1 .. Pace, S \in SUBSET Keys :
        /\ net'.time = net.time + d /\ net'.ledger = net.ledger + 1
        /\ upstream' = [k \in Keys |-> IF k \in S THEN Stamp(net.time + d) ELSE upstream[k]]
  BY DEF NetworkCloses
<1>2. /\ net.time \in Nat /\ net.ledger \in Nat /\ d \in Nat
      /\ net'.time \in Nat /\ net'.ledger \in Nat
  BY <1>1, AmountsAssumption DEF AgeInv, TypeOK
<1>3. net.time <= net'.time /\ net.ledger <= net'.ledger
  BY <1>1, <1>2
<1>4. UNCHANGED <<file, config, point, forkedAt, clock, cache, late>>
  BY DEF NetworkCloses, built
<1>5. UpstreamPast'
  <2> SUFFICES ASSUME NEW k \in Keys, upstream'[k] \in NetworkEntry
               PROVE  upstream'[k].changed <= net'.time
    BY DEF UpstreamPast
  <2>1. CASE upstream'[k] = Stamp(net.time + d)
    BY <1>1, <1>2, <2>1 DEF Stamp
  <2>2. CASE upstream'[k] = upstream[k]
    <3>1. upstream[k].changed <= net.time /\ upstream[k].changed \in Nat
      BY <2>2, AmountsAssumption DEF AgeInv, UpstreamPast, NetworkEntry
    <3> QED BY <2>2, <3>1, <1>2, <1>3
  <2> QED BY <1>1, <2>1, <2>2
<1>6. CachePast'
  <2> SUFFICES ASSUME NEW k \in Keys, cache[k] \in NetworkEntry
               PROVE  cache[k].changed <= net'.time
    BY <1>4 DEF CachePast
  <2>1. cache[k].changed <= net.time /\ cache[k].changed \in Nat
    BY AmountsAssumption DEF AgeInv, CachePast, NetworkEntry
  <2> QED BY <2>1, <1>2, <1>3
<1>7. FilePast'
  <2> SUFFICES ASSUME file # Missing, NEW k \in DOMAIN file.entries,
                      file.entries[k] \in NetworkEntry
               PROVE  file.entries[k].changed <= net'.time
    BY <1>4 DEF FilePast
  <2>1. file.entries[k].changed <= net.time /\ file.entries[k].changed \in Nat
    BY AmountsAssumption DEF AgeInv, FilePast, NetworkEntry
  <2> QED BY <2>1, <1>2, <1>3
<1>8. CacheNotLate'
  BY <1>4 DEF AgeInv, CacheNotLate
<1>9. ForkedFromNet'
  <2> SUFFICES ASSUME config # NotBuilt
               PROVE  /\ forkedAt <= net'.time
                      /\ config.ledger = Unpinned => point.ledger <= net'.ledger
    BY <1>4 DEF ForkedFromNet, AgeInv
  <2>1. forkedAt \in Nat /\ point.ledger \in Nat
    BY AmountsAssumption DEF AgeInv, TypeOK, Point
  <2> QED BY <2>1, <1>2, <1>3 DEF AgeInv, ForkedFromNet
<1> QED BY <1>5, <1>6, <1>7, <1>8, <1>9 DEF AgeInv

LEMMA BuildAge ==
    ASSUME AgeInv, TypeOK', Build
    PROVE  AgeInv'
<1>1. PICK s \in Loadable : cache' = [k \in Keys |-> IF k \in DOMAIN s THEN s[k] ELSE Unasked]
  BY DEF Build
<1>2. \A k \in DOMAIN s : s[k] \in NetworkEntry => s[k].changed <= net.time
  BY DEF Loadable, AgeInv, FilePast
<1>3. net' = net /\ upstream' = upstream /\ file' = file /\ forkedAt' = net.time
  BY DEF Build, world
<1>4. CachePast'
  BY <1>1, <1>2, <1>3, MarkerAssumption DEF CachePast, Entry
<1>5. CacheNotLate'
  <2> SUFFICES ASSUME NEW k \in Keys, cache'[k] \in NetworkEntry
               PROVE  cache'[k].changed <= net.time + Buffer
    BY <1>3 DEF CacheNotLate
  <2>1. cache'[k].changed <= net.time /\ cache'[k].changed \in Nat
    BY <1>3, <1>4, AmountsAssumption DEF CachePast, NetworkEntry
  <2>2. net.time \in Nat /\ Buffer \in Nat
    BY AmountsAssumption DEF AgeInv, TypeOK
  <2> QED BY <2>1, <2>2
<1>6. ForkedFromNet'
  <2>1. config'.time = Unpinned => point'.time = SaturatingAdd(net.time, Buffer, MaxTime)
    BY DEF Build, ForkPoint, Pinned
  <2>2. config'.ledger = Unpinned => point'.ledger = net.ledger
    BY DEF Build, ForkPoint, Pinned
  <2>3. point'.time = clock'.time
    BY DEF Build
  <2>4. net.time \in Nat /\ net.ledger \in Nat /\ point'.time \in Nat
    BY AmountsAssumption DEF AgeInv, TypeOK, Point
  <2> QED BY <1>3, <2>1, <2>2, <2>3, <2>4 DEF ForkedFromNet
<1> QED BY <1>3, <1>4, <1>5, <1>6 DEF AgeInv, UpstreamPast, FilePast

\* What a save writes was in the cache.
LEMMA SaveAge ==
    ASSUME AgeInv, SaveCache, net' = net
    PROVE  FilePast'
<1>1. CASE file' = file
  BY <1>1 DEF AgeInv, FilePast
<1>2. CASE file' = [entries |-> [k \in Present |-> cache[k]], point |-> Labelled]
  BY <1>2 DEF AgeInv, CachePast, FilePast, Present
<1> QED BY <1>1, <1>2 DEF SaveCache

LEMMA DropAge ==
    ASSUME AgeInv, TypeOK', Drop
    PROVE  AgeInv'
<1>1. net' = net /\ upstream' = upstream /\ FilePast'
  BY SaveAge DEF Drop, world
<1>2. CachePast' /\ CacheNotLate'
  BY MarkerAssumption DEF Drop, CachePast, CacheNotLate, Fresh, Entry
<1> QED BY <1>1, <1>2 DEF Drop, AgeInv, UpstreamPast, ForkedFromNet

LEMMA GetAge ==
    ASSUME AgeInv, NEW k \in Keys, NEW v, Get(k, v), net' = net, forkedAt' = forkedAt
    PROVE  CachePast' /\ CacheNotLate'
<1>1. CASE cache' = cache /\ late' = late
  BY <1>1 DEF AgeInv, CachePast, CacheNotLate
<1>2. CASE /\ v = upstream[k] \/ v = Absent
           /\ cache' = [cache EXCEPT ![k] = v]
           /\ late' = IF net.time > forkedAt + Buffer THEN late \cup {k} ELSE late
  <2>1. v \in NetworkEntry => v.changed <= net.time
    BY <1>2, MarkerAssumption DEF AgeInv, UpstreamPast, Entry
  <2>2. \A x \in Keys : cache'[x] = IF x = k THEN v ELSE cache[x]
    BY <1>2 DEF AgeInv, TypeOK
  <2>3. CachePast'
    BY <2>1, <2>2 DEF AgeInv, CachePast
  <2>4. CacheNotLate'
    <3> SUFFICES ASSUME NEW x \in Keys \ late', cache'[x] \in NetworkEntry
                 PROVE  cache'[x].changed <= forkedAt + Buffer
      BY DEF CacheNotLate
    <3>1. CASE x # k
      BY <1>2, <2>2, <3>1 DEF AgeInv, CacheNotLate
    <3>2. CASE x = k
      <4>1. ~(net.time > forkedAt + Buffer)
        BY <1>2, <3>2
      <4>2. cache'[x].changed <= net.time /\ cache'[x].changed \in Nat
        BY <2>1, <2>2, <3>2, AmountsAssumption DEF NetworkEntry
      <4>3. net.time \in Nat /\ forkedAt \in Nat /\ Buffer \in Nat
        BY AmountsAssumption DEF AgeInv, TypeOK
      <4> QED BY <4>1, <4>2, <4>3
    <3> QED BY <3>1, <3>2
  <2> QED BY <2>3, <2>4
<1> QED BY <1>1, <1>2, GetSteps

LEMMA RunAge ==
    ASSUME AgeInv, TypeOK',
           \/ Save \/ End
           \/ \E k \in Keys : Read(k) \/ Write(k)
           \/ ReadFees \/ ApplySetting \/ FeesKnown
    PROVE  AgeInv'
<1>1. CASE Save
  <2>1. FilePast'
    BY <1>1, SaveAge DEF Save, world
  <2> QED BY <1>1, <2>1 DEF Save, AgeInv, world, built, UpstreamPast, CachePast,
                            CacheNotLate, ForkedFromNet
<1>2. CASE End
  BY <1>2, DropAge DEF End
<1>3. ASSUME NEW k \in Keys, NEW v, Get(k, v), UNCHANGED <<world, file, built, clock>>
      PROVE  AgeInv'
  <2>1. CachePast' /\ CacheNotLate'
    BY <1>3, GetAge DEF world, built
  <2> QED BY <1>3, <2>1 DEF AgeInv, world, built, UpstreamPast, FilePast, ForkedFromNet
<1>4. ASSUME NEW k \in Keys, Read(k) PROVE AgeInv'
  BY <1>3, <1>4, DropAge DEF Read
<1>5. ASSUME NEW k \in Keys, Write(k) PROVE AgeInv'
  <2>1. PICK v \in Written \cup {Absent} : cache' = [cache EXCEPT ![k] = v]
    BY <1>5 DEF Write
  <2>2. \A x \in Keys : cache'[x] = IF x = k THEN v ELSE cache[x]
    BY <2>1 DEF AgeInv, TypeOK
  <2>3. v \notin NetworkEntry
    BY WrittenTyped
  <2>4. CachePast' /\ CacheNotLate'
    BY <1>5, <2>2, <2>3 DEF Write, AgeInv, CachePast, CacheNotLate, world, built
  <2> QED BY <1>5, <2>4 DEF Write, AgeInv, world, built, UpstreamPast, FilePast,
                            ForkedFromNet
<1>6. CASE ReadFees
  BY <1>6 DEF ReadFees, AgeInv, world, built, UpstreamPast, CachePast, FilePast,
              CacheNotLate, ForkedFromNet
<1>7. CASE ApplySetting
  <2>1. Setting \in Keys
    BY <1>7, SettingIsKey DEF ApplySetting, AgeInv
  <2> QED BY <1>3, <1>7, <2>1, DropAge DEF ApplySetting
<1>8. CASE FeesKnown
  BY <1>8 DEF FeesKnown, AgeInv, world, built, UpstreamPast, CachePast, FilePast,
              CacheNotLate, ForkedFromNet
<1> QED BY <1>1, <1>2, <1>4, <1>5, <1>6, <1>7, <1>8

LEMMA WarpAge ==
    ASSUME AgeInv, TypeOK', NEW n \in Nat, NEW s \in Nat, Advance(n, s)
    PROVE  AgeInv'
<1>1. clock.time <= clock'.time
  <2>1. clock.time \in 0 .. MaxTime /\ MaxTime \in Nat
    BY AmountsAssumption DEF AgeInv, TypeOK
  <2> QED BY <2>1, SaturatingAddBounds DEF Advance
<1>2. point.time \in Nat /\ clock.time \in Nat /\ clock'.time \in Nat
  BY AmountsAssumption DEF AgeInv, TypeOK, Point
<1>3. ForkedFromNet'
  BY <1>1, <1>2 DEF Advance, AgeInv, ForkedFromNet, world, built
<1> QED BY <1>3 DEF Advance, AgeInv, world, built, UpstreamPast, CachePast, FilePast,
                    CacheNotLate

\* The numbers that the three ways to move the clock hand to Advance.
LEMMA Warps ==
    ASSUME \/ \E n \in Ledgers, s \in Seconds : Warp(n, s)
           \/ \E s \in Seconds : WarpTime(s)
           \/ \E n \in Ledgers : WarpLedger(n)
    PROVE  \E n \in Nat, s \in Nat : Advance(n, s)
<1>1. ASSUME NEW n \in Ledgers, NEW s \in Seconds, Warp(n, s)
      PROVE  n \in Nat /\ s \in Nat /\ Advance(n, s)
  BY <1>1, AmountsAssumption DEF Warp
<1>2. ASSUME NEW s \in Seconds, WarpTime(s)
      PROVE  /\ (s \div Interval) % (MaxLedger + 1) \in Nat /\ s \in Nat
             /\ Advance((s \div Interval) % (MaxLedger + 1), s)
  BY <1>2, AmountsAssumption DEF WarpTime
<1>3. ASSUME NEW n \in Ledgers, WarpLedger(n)
      PROVE  n \in Nat /\ n * Interval \in Nat /\ Advance(n, n * Interval)
  BY <1>3, AmountsAssumption DEF WarpLedger
<1> QED BY <1>1, <1>2, <1>3

LEMMA StepAge == AgeInv /\ [Next]_vars => AgeInv'
<1> SUFFICES ASSUME AgeInv, [Next]_vars PROVE AgeInv'
  OBVIOUS
<1>1. TypeOK'
  BY StepTypeOK DEF AgeInv
<1>2. CASE UNCHANGED vars
  BY <1>2 DEF vars, AgeInv, TypeOK, world, built, pricing, UpstreamPast, CachePast, FilePast,
              CacheNotLate, ForkedFromNet
<1>3. CASE Next
  BY <1>1, <1>3, NetworkAge, BuildAge, RunAge, WarpAge, Warps DEF Next
<1> QED BY <1>2, <1>3

LEMMA AgeInvHolds == Spec => []AgeInv
<1> QED BY InitAge, StepAge, PTL DEF Spec

\* The clock buffer works: no entry of the network is from the contracts' future,
\* unless the time is pinned or the entry was fetched late.
THEOREM SpecEntriesNotFromFuture == Spec => []EntriesNotFromFuture
<1>1. AgeInv => EntriesNotFromFuture
  <2> SUFFICES ASSUME AgeInv, config # NotBuilt, config.time = Unpinned,
                      NEW k \in Keys \ late, cache[k] \in NetworkEntry
               PROVE  cache[k].changed <= clock.time
    BY DEF EntriesNotFromFuture
  <2>1. /\ cache[k].changed <= forkedAt + Buffer
        /\ point.time = SaturatingAdd(forkedAt, Buffer, MaxTime)
        /\ point.time <= clock.time
    BY DEF AgeInv, CacheNotLate, ForkedFromNet
  <2>2. cache[k].changed \in 0 .. MaxTime
    BY DEF NetworkEntry
  <2>3. /\ forkedAt \in Nat /\ Buffer \in Nat /\ MaxTime \in Nat
        /\ point.time \in Nat /\ clock.time \in Nat
    BY AmountsAssumption DEF AgeInv, TypeOK, Point
  <2> QED BY <2>1, <2>2, <2>3 DEF SaturatingAdd
<1> QED BY <1>1, AgeInvHolds, PTL

\* The schedule is read by a ForkedEnv.
ReadingBuilt == reading => config # NotBuilt

LEMMA ReadingBuiltHolds == Spec => []ReadingBuilt
<1>1. Init => ReadingBuilt
  BY DEF Init, ReadingBuilt
<1>2. ReadingBuilt /\ [Next]_vars => ReadingBuilt'
  <2> SUFFICES ASSUME ReadingBuilt, [Next]_vars PROVE ReadingBuilt'
    OBVIOUS
  <2>1. CASE UNCHANGED <<config, reading>> \/ reading' = FALSE
    BY <2>1, Zenon DEF ReadingBuilt
  <2>2. CASE ~(UNCHANGED <<config, reading>> \/ reading' = FALSE)
    <3>1. ReadFees
      BY <2>2 DEF Next, vars, NetworkCloses, Build, Save, End, Read, Write, ApplySetting,
                  FeesKnown, Applies, Breaks, Warp, WarpTime, WarpLedger, Advance, Drop,
                  built, pricing
    <3> QED BY <3>1 DEF ReadFees, Idle, ReadingBuilt, built
  <2> QED BY <2>1, <2>2
<1> QED BY <1>1, <1>2, PTL DEF Spec

\* A saved file claims a ledger that existed, and a time that covers its entries.
THEOREM SpecLabelCoversEntries == Spec => LabelCoversEntries
<1> DEFINE Covered ==
      file' # file =>
         /\ config.ledger = Unpinned => file'.point.ledger <= net.ledger
         /\ config.time = Unpinned =>
              \A k \in DOMAIN file'.entries \ late :
                  file'.entries[k] \in NetworkEntry =>
                      file'.entries[k].changed <= file'.point.time
<1>1. ASSUME AgeInv, config # NotBuilt, SaveCache PROVE Covered
  <2> SUFFICES ASSUME file' = [entries |-> [k \in Present |-> cache[k]], point |-> point]
               PROVE  Covered
    BY <1>1 DEF SaveCache, Labelled
  <2>1. config.ledger = Unpinned => file'.point.ledger <= net.ledger
    BY <1>1 DEF AgeInv, ForkedFromNet
  <2>2. ASSUME config.time = Unpinned, NEW k \in Keys \ late, cache[k] \in NetworkEntry
        PROVE  cache[k].changed <= point.time
    <3>1. /\ cache[k].changed <= forkedAt + Buffer
          /\ point.time = SaturatingAdd(forkedAt, Buffer, MaxTime)
      BY <1>1, <2>2 DEF AgeInv, CacheNotLate, ForkedFromNet
    <3>2. cache[k].changed \in 0 .. MaxTime
      BY <2>2 DEF NetworkEntry
    <3>3. forkedAt \in Nat /\ Buffer \in Nat /\ MaxTime \in Nat
      BY <1>1, AmountsAssumption DEF AgeInv, TypeOK
    <3> QED BY <3>1, <3>2, <3>3 DEF SaturatingAdd
  <2> QED BY <2>1, <2>2 DEF Present
<1>2. ASSUME AgeInv, ReadingBuilt, [Next]_vars PROVE [Covered]_vars
  <2>1. CASE file' = file
    BY <2>1
  <2>2. CASE file' # file
    <3>1. config # NotBuilt /\ SaveCache
      BY <1>2, <2>2 DEF Next, vars, NetworkCloses, Build, Save, End, Read, Write, ReadFees,
                        ApplySetting, FeesKnown, Warp, WarpTime, WarpLedger, Advance, Drop, Idle,
                        ReadingBuilt
    <3> QED BY <1>1, <1>2, <3>1
  <2> QED BY <2>1, <2>2
<1> QED BY <1>2, AgeInvHolds, ReadingBuiltHolds, PTL DEF Spec, LabelCoversEntries

-------------------------------------------------------------------------------
(* The fee schedule.                                                       *)

\* A get never changes an entry that is there, and puts its answer there.
LEMMA GetKeeps ==
    ASSUME TypeOK, NEW k \in Keys, NEW v, Get(k, v)
    PROVE  /\ \A x \in Keys : cache[x] \in Entry => cache'[x] = cache[x]
           /\ cache'[k] = v
BY GetSteps, MarkerAssumption DEF TypeOK

\* Agreement outlives whatever leaves the entries alone.
LEMMA AgreesKept ==
    ASSUME NEW K, NEW fee, NEW held, NEW kept, Agrees(fee, held, K),
           \A k \in K : held[k] \in Entry => kept[k] = held[k]
    PROVE  Agrees(fee, kept, K)
<1>1. \A k \in K : kept[k] = held[k]
  BY SettingIsEntry DEF Agrees
<1> QED BY <1>1 DEF Agrees

\* One more setting, taken from under key S, displaces no fee that was taken from
\* the only entry of its setting.
LEMMA AgreesExtended ==
    ASSUME NEW K \in SUBSET SettingKeys, NEW fee \in Schedule, NEW held,
           NEW S, NEW s \in SettingKeys,
           Agrees(fee, held, K), IsSetting(S, held[S], s)
    PROVE  Agrees([fee EXCEPT ![s] = held[S]], held, K \cup {S})
<1> DEFINE new == [fee EXCEPT ![s] = held[S]]
<1>1. new[s] = held[S] /\ \A k \in SettingKeys : k # s => new[k] = fee[k]
  BY DEF Schedule
<1>2. ASSUME NEW k \in K \cup {S} PROVE \E r \in SettingKeys : IsSetting(k, held[k], r)
  BY <1>2 DEF Agrees
<1>3. ASSUME NEW k \in K \cup {S},
             \A j \in K \cup {S} : IsSetting(j, held[j], k) <=> j = k
      PROVE  new[k] = held[k]
  <2>1. CASE k = s
    <3>1. S = k
      BY <1>3, <2>1
    <3> QED BY <1>1, <2>1, <3>1
  <2>2. CASE k # s
    <3>1. ~IsSetting(S, held[S], k)
      BY <2>2, SettingIsOne
    <3>2. S # k
      BY <1>3, <3>1
    <3>3. k \in K /\ k \in SettingKeys
      BY <3>2
    <3>4. fee[k] = held[k]
      BY <1>3, <3>3 DEF Agrees
    <3> QED BY <1>1, <2>2, <3>3, <3>4
  <2> QED BY <2>1, <2>2
<1> QED BY <1>2, <1>3, Zenon DEF Agrees

LEMMA FromCache ==
    ScheduleFromCache <=> (fees # NotRead /\ ~stale => Agrees(fees, cache, SettingKeys))
BY Zenon DEF ScheduleFromCache, Agrees

\* A get leaves the schedule that is kept in step.
LEMMA KeepsFees ==
    ASSUME FeesInv, \A x \in Keys : cache[x] \in Entry => cache'[x] = cache[x],
           UNCHANGED <<fees, stale>>
    PROVE  ScheduleFromCache'
<1> SUFFICES ASSUME fees' # NotRead, ~stale' PROVE Agrees(fees', cache', SettingKeys)
  BY Zenon DEF ScheduleFromCache, Agrees
<1>1. fees' = fees /\ Agrees(fees, cache, SettingKeys)
  BY FromCache, Zenon DEF FeesInv
<1>2. \A k \in SettingKeys : cache[k] \in Entry => cache'[k] = cache[k]
  BY SettingKeysAreKeys
<1> QED BY <1>1, <1>2, AgreesKept

LEMMA ApplySettingFees ==
    ASSUME FeesInv, TypeOK', ApplySetting, ~Drop
    PROVE  FeesInv'
<1>1. PICK v : /\ Get(Setting, v)
               /\ (\E s \in SettingKeys : IsSetting(Setting, v, s) /\ Applies(v, s)) \/ Breaks
  BY DEF ApplySetting
<1>2. Setting \in Keys /\ TypeOK /\ UNCHANGED <<fees, stale>>
  BY SettingIsKey DEF ApplySetting, FeesInv
<1>3. /\ \A x \in Keys : cache[x] \in Entry => cache'[x] = cache[x]
      /\ cache'[Setting] = v
  BY <1>1, <1>2, GetKeeps
<1>4. ScheduleFromCache'
  BY <1>2, <1>3, KeepsFees
<1>5. ScheduleSoFar'
  <2>1. CASE Breaks
    BY <2>1, Zenon DEF Breaks, ScheduleSoFar
  <2>2. ASSUME NEW s \in SettingKeys, IsSetting(Setting, v, s), Applies(v, s)
        PROVE  ScheduleSoFar'
    <3>1. /\ applied \in Nat /\ applied' = applied + 1 /\ applied < Len(Settings)
          /\ schedule \in Schedule /\ schedule' = [schedule EXCEPT ![s] = v]
      BY <2>2, SettingsAssumption DEF Applies, ApplySetting, FeesInv, TypeOK
    <3>2. AppliedKeys' = AppliedKeys \cup {Setting}
      <4>1. 1 .. applied' = (1 .. applied) \cup {applied + 1}
        BY <3>1
      <4> QED BY <4>1 DEF AppliedKeys, Setting
    <3>3. AppliedKeys \subseteq SettingKeys
      <4>1. 1 .. applied \subseteq DOMAIN Settings
        BY <3>1, SettingsAssumption
      <4> QED BY <4>1 DEF AppliedKeys, SettingKeys
    <3>4. Agrees(schedule, cache, AppliedKeys)
      BY Zenon DEF ApplySetting, FeesInv, ScheduleSoFar
    <3>5. Agrees(schedule, cache', AppliedKeys)
      BY <1>3, <3>3, <3>4, SettingKeysAreKeys, AgreesKept
    <3>6. Agrees([schedule EXCEPT ![s] = cache'[Setting]], cache', AppliedKeys \cup {Setting})
      BY <1>3, <2>2, <3>1, <3>3, <3>5, AgreesExtended
    <3>7. Agrees(schedule', cache', AppliedKeys')
      BY <1>3, <3>1, <3>2, <3>6
    <3> QED BY <3>7 DEF ScheduleSoFar
  <2> QED BY <1>1, <2>1, <2>2
<1> QED BY <1>4, <1>5 DEF FeesInv

LEMMA StepFees == FeesInv /\ [Next]_vars => FeesInv'
<1> SUFFICES ASSUME FeesInv, [Next]_vars PROVE FeesInv'
  OBVIOUS
<1>1. TypeOK /\ TypeOK'
  BY StepTypeOK DEF FeesInv
<1>2. CASE UNCHANGED <<cache, pricing, stale>>
  BY <1>1, <1>2 DEF FeesInv, ScheduleSoFar, ScheduleFromCache, AppliedKeys, Agrees, pricing
<1>3. CASE Build
  BY <1>1, <1>3 DEF Build, FeesInv, ScheduleSoFar, ScheduleFromCache
<1>4. CASE Drop
  BY <1>1, <1>4 DEF Drop, FeesInv, ScheduleSoFar, ScheduleFromCache
<1>5. ASSUME NEW k \in Keys, Read(k), ~Drop PROVE FeesInv'
  <2>1. PICK v : Get(k, v)
    BY <1>5 DEF Read
  <2>2. \A x \in Keys : cache[x] \in Entry => cache'[x] = cache[x]
    BY <1>1, <2>1, GetKeeps
  <2>3. ~reading /\ UNCHANGED <<pricing, stale>>
    BY <1>5 DEF Read, Idle
  <2>4. ScheduleFromCache'
    BY <2>2, <2>3, KeepsFees DEF pricing
  <2> QED BY <1>1, <2>3, <2>4 DEF FeesInv, ScheduleSoFar, pricing
<1>6. ASSUME NEW k \in Keys, Write(k) PROVE FeesInv'
  <2>1. PICK v \in Written \cup {Absent} : cache' = [cache EXCEPT ![k] = v]
    BY <1>6 DEF Write
  <2>2. ~reading /\ UNCHANGED pricing
    BY <1>6 DEF Write, Idle
  <2>3. \A x \in Keys : x # k => cache'[x] = cache[x]
    BY <1>1, <2>1 DEF TypeOK
  <2>4. ScheduleSoFar'
    BY <2>2 DEF ScheduleSoFar, pricing
  <2>5. ScheduleFromCache'
    <3>1. CASE k \in SettingKeys
      <4>1. stale'
        BY <1>6, <3>1, Zenon DEF Write
      <4> QED BY <4>1, Zenon DEF ScheduleFromCache
    <3>2. CASE k \notin SettingKeys
      <4> SUFFICES ASSUME fees' # NotRead, ~stale' PROVE Agrees(fees', cache', SettingKeys)
        BY Zenon DEF ScheduleFromCache, Agrees
      <4>1. fees' = fees /\ ~stale
        BY <1>6, <2>2, Zenon DEF Write, pricing
      <4>2. Agrees(fees, cache, SettingKeys)
        BY <4>1, FromCache, Zenon DEF FeesInv
      <4> QED BY <2>3, <3>2, <4>1, <4>2, SettingKeysAreKeys, AgreesKept
    <3> QED BY <3>1, <3>2
  <2> QED BY <1>1, <2>4, <2>5 DEF FeesInv
<1>7. CASE ReadFees
  <2>1. applied' = 0 /\ cache' = cache /\ fees' = NotRead
    BY <1>7 DEF ReadFees
  <2>2. AppliedKeys' = {}
    BY <2>1 DEF AppliedKeys
  <2> QED BY <1>1, <2>1, <2>2 DEF FeesInv, ScheduleSoFar, ScheduleFromCache, Agrees
<1>8. CASE ApplySetting /\ ~Drop
  BY <1>1, <1>8, ApplySettingFees
<1>9. CASE FeesKnown
  <2>1. ~reading' /\ fees' = schedule /\ cache' = cache /\ applied = Len(Settings)
    BY <1>9 DEF FeesKnown
  <2>2. AppliedKeys = SettingKeys
    <3>1. 1 .. applied = DOMAIN Settings
      BY <2>1, SettingsAssumption
    <3> QED BY <3>1 DEF AppliedKeys, SettingKeys
  <2>3. Agrees(schedule, cache, AppliedKeys)
    BY <1>9, Zenon DEF FeesKnown, FeesInv, ScheduleSoFar
  <2>4. Agrees(fees', cache', SettingKeys)
    BY <2>1, <2>2, <2>3
  <2>5. ScheduleFromCache'
    BY <2>4, Zenon DEF ScheduleFromCache, Agrees
  <2>6. ScheduleSoFar'
    BY <2>1, Zenon DEF ScheduleSoFar
  <2> QED BY <1>1, <2>5, <2>6 DEF FeesInv
<1> QED BY <1>2, <1>3, <1>4, <1>5, <1>6, <1>7, <1>8, <1>9
        DEF Next, NetworkCloses, Save, End, Warp, WarpTime, WarpLedger, Advance, vars

\* Whatever entries the user writes, a kept schedule that no setting was written
\* since has every setting found, and charges each one that lies under its own key
\* and no other from the entry that transactions see there.
THEOREM SpecScheduleFromCache == Spec => []ScheduleFromCache
<1>1. Init => FeesInv
  BY InitTypeOK DEF Init, FeesInv, ScheduleSoFar, ScheduleFromCache
<1>2. FeesInv => ScheduleFromCache
  BY DEF FeesInv
<1> QED BY <1>1, <1>2, StepFees, PTL DEF Spec

-------------------------------------------------------------------------------
(* The pace of the clock.                                                  *)

LEMMA Spread ==
    ASSUME NEW a \in Int, NEW b \in Int, NEW c \in Nat
    PROVE  (a + b) * c = a * c + b * c
OBVIOUS

LEMMA Scale ==
    ASSUME NEW a \in Int, NEW b \in Int, NEW c \in Nat, a <= b
    PROVE  a * c <= b * c
OBVIOUS

\* Whole intervals fit into the seconds they were counted from, cut or not.
LEMMA TruncatedFits ==
    ASSUME NEW s \in Nat
    PROVE  ((s \div Interval) % (MaxLedger + 1)) * Interval <= s
<1>1. Interval \in Nat \ {0} /\ MaxLedger + 1 \in Nat \ {0}
  BY AmountsAssumption
<1>2. s \div Interval \in Nat /\ (s \div Interval) * Interval <= s
  BY <1>1
<1>3. /\ (s \div Interval) % (MaxLedger + 1) \in Nat
      /\ (s \div Interval) % (MaxLedger + 1) <= s \div Interval
  BY <1>1, <1>2
<1>4. ((s \div Interval) % (MaxLedger + 1)) * Interval <= (s \div Interval) * Interval
  BY <1>1, <1>2, <1>3, Scale
<1>5. ((s \div Interval) % (MaxLedger + 1)) * Interval \in Nat
      /\ (s \div Interval) * Interval \in Nat
  BY <1>1, <1>2, <1>3
<1> QED BY <1>2, <1>4, <1>5

\* An advance by n ledgers and at least as many intervals keeps the pace.
LEMMA AdvanceKeepsPace ==
    ASSUME TypeOK, TypeOK', ClockPaced, NEW n \in Nat, NEW s \in Nat,
           Advance(n, s), n * Interval <= s, paced' = paced
    PROVE  ClockPaced'
<1> SUFFICES ASSUME paced, clock'.time < MaxTime
             PROVE  (clock'.ledger - point.ledger) * Interval <= clock'.time - point.time
  BY DEF ClockPaced, Advance, built
<1>1. /\ clock.ledger \in 0 .. MaxLedger /\ clock'.ledger \in Nat /\ point.ledger \in Nat
      /\ clock.time \in 0 .. MaxTime /\ clock'.time \in Nat /\ point.time \in Nat
      /\ MaxLedger \in Nat /\ MaxTime \in Nat /\ Interval \in Nat
  BY AmountsAssumption DEF TypeOK, Point
<1>2. clock'.time = clock.time + s
  BY <1>1, SaturatingAddBounds DEF Advance
<1>3. clock'.ledger <= clock.ledger + n
  BY <1>1, SaturatingAddBounds DEF Advance
<1>4. (clock.ledger - point.ledger) * Interval <= clock.time - point.time
  <2>1. clock.time < MaxTime
    BY <1>1, <1>2
  <2> QED BY <2>1 DEF ClockPaced, Advance, Idle
<1>5. (clock'.ledger - point.ledger) * Interval <=
        ((clock.ledger - point.ledger) + n) * Interval
  <2>1. clock'.ledger - point.ledger <= (clock.ledger - point.ledger) + n
    BY <1>1, <1>3
  <2> QED BY <1>1, <2>1, Scale
<1>6. ((clock.ledger - point.ledger) + n) * Interval =
        (clock.ledger - point.ledger) * Interval + n * Interval
  BY <1>1, Spread
<1> DEFINE x == (clock.ledger - point.ledger) * Interval
           y == n * Interval
           z == (clock'.ledger - point.ledger) * Interval
<1>7. x \in Int /\ y \in Int /\ z \in Int
  BY <1>1
<1>8. z <= x + y /\ x <= clock.time - point.time /\ y <= s
  BY <1>4, <1>5, <1>6
<1>9. z <= clock'.time - point.time
  <2> HIDE DEF x, y, z
  <2> QED BY <1>1, <1>2, <1>7, <1>8
<1> QED BY <1>9

LEMMA StepPaced == TypeOK /\ ClockPaced /\ [Next]_vars => ClockPaced'
<1> SUFFICES ASSUME TypeOK, ClockPaced, [Next]_vars PROVE ClockPaced'
  OBVIOUS
<1>1. TypeOK'
  BY StepTypeOK
<1>2. CASE UNCHANGED <<config, point, clock, paced>>
  BY <1>2 DEF ClockPaced
<1>3. CASE Build
  <2>1. clock'.ledger = point'.ledger /\ clock'.time = point'.time
    BY <1>3 DEF Build
  <2>2. /\ point'.ledger \in Nat /\ point'.time \in Nat /\ Interval \in Nat
    BY <1>1, AmountsAssumption DEF TypeOK, Point
  <2> QED BY <2>1, <2>2 DEF ClockPaced
<1>4. CASE Drop
  BY <1>4 DEF Drop, ClockPaced
<1>5. ASSUME NEW n \in Ledgers, NEW s \in Seconds, Warp(n, s) PROVE ClockPaced'
  BY <1>5 DEF Warp, ClockPaced
<1>6. ASSUME NEW s \in Seconds, WarpTime(s) PROVE ClockPaced'
  <2>1. s \in Nat /\ (s \div Interval) % (MaxLedger + 1) \in Nat
    BY AmountsAssumption
  <2> QED BY <1>1, <1>6, <2>1, TruncatedFits, AdvanceKeepsPace DEF WarpTime
<1>7. ASSUME NEW n \in Ledgers, WarpLedger(n) PROVE ClockPaced'
  <2>1. n \in Nat /\ n * Interval \in Nat /\ n * Interval <= n * Interval
    BY AmountsAssumption
  <2> QED BY <1>1, <1>7, <2>1, AdvanceKeepsPace DEF WarpLedger
<1> QED BY <1>2, <1>3, <1>4, <1>5, <1>6, <1>7
        DEF Next, NetworkCloses, Save, End, Read, Write, ReadFees, ApplySetting, FeesKnown, vars,
            built

\* However the clock is advanced by time or by ledgers, no ledger takes less than
\* its interval.
THEOREM SpecClockPaced == Spec => []ClockPaced
<1>1. Init => ClockPaced
  BY DEF Init, ClockPaced
<1> QED BY <1>1, InitTypeOK, StepTypeOK, StepPaced, PTL DEF Spec

-------------------------------------------------------------------------------
(* The fork and its file, one step at a time.                              *)

\* Nothing is known or read before there is an environment.
FreshUnbuilt == config = NotBuilt => cache = Fresh

ServiceInv == TypeOK /\ ReadingBuilt /\ FreshUnbuilt

LEMMA StepFreshUnbuilt == ServiceInv /\ [Next]_vars => FreshUnbuilt'
<1> SUFFICES ASSUME ServiceInv, [Next]_vars PROVE FreshUnbuilt'
  OBVIOUS
<1>1. CASE UNCHANGED <<config, cache>>
  BY <1>1 DEF ServiceInv, FreshUnbuilt, Fresh
<1>2. CASE Drop
  BY <1>2 DEF Drop, FreshUnbuilt, Fresh
<1>3. CASE config' = config /\ config # NotBuilt
  BY <1>3 DEF FreshUnbuilt
<1>4. CASE Build
  BY <1>4, ConfigsAssumption, MarkerAssumption DEF Build, FreshUnbuilt
<1> QED BY <1>1, <1>2, <1>3, <1>4
        DEF Next, vars, NetworkCloses, Save, End, Read, Write, ReadFees, ApplySetting, FeesKnown,
            Warp, WarpTime, WarpLedger, Advance, Idle, ServiceInv, ReadingBuilt, built

\* What the file and the environment are to the service.
Stored == IF file = Missing THEN {} ELSE {file.entries}
Up     == [f \in {"fork"} |-> config # NotBuilt]
Known  == [f \in {"fork"} |-> cache]

LEMMA ServiceInit == Init => Service!Init
<1> SUFFICES ASSUME Init PROVE Service!Init
  OBVIOUS
<1>1. Stored = {} /\ Up = [f \in {"fork"} |-> FALSE]
  BY DEF Init, Stored, Up
<1>2. Known = [f \in {"fork"} |-> Service!Nothing]
  BY DEF Init, Known, Fresh, Service!Nothing
<1> QED BY <1>1, <1>2 DEF Service!Init, Stored, Up, Known

\* A step that leaves the file, the cache and the life alone is none to the service.
LEMMA QuietStep ==
    ASSUME file' = file, cache' = cache, config' = config
    PROVE  UNCHANGED Service!vars
<1>1. Stored' = Stored /\ Up' = Up /\ Known' = Known
  BY DEF Stored, Up, Known
<1> QED BY <1>1 DEF Service!vars, Stored, Up, Known

LEMMA BuildStep ==
    ASSUME ServiceInv, Build
    PROVE  Service!Next
<1>1. config = NotBuilt /\ config' # NotBuilt /\ file' = file
  BY ConfigsAssumption, MarkerAssumption DEF Build
<1>2. Stored' = Stored /\ Up' = [Up EXCEPT !["fork"] = TRUE] /\ ~Up["fork"]
  BY <1>1 DEF Stored, Up
<1>3. PICK s \in Loadable :
        cache' = [k \in Keys |-> IF k \in DOMAIN s THEN s[k] ELSE Unasked]
  BY DEF Build
<1> DEFINE loaded == [k \in Keys |-> IF k \in DOMAIN s THEN s[k] ELSE Unasked]
<1>4. Known' = [Known EXCEPT !["fork"] = loaded]
  BY <1>3 DEF Known
<1>5. \/ Known' = Known
      \/ \E r \in Stored :
           Known' = [Known EXCEPT !["fork"] =
                       [k \in Keys |-> IF k \in DOMAIN r THEN r[k] ELSE Unasked]]
  <2>1. CASE s = [k \in {} |-> Local]
    <3>1. loaded = Fresh
      BY <2>1 DEF Fresh
    <3>2. cache = Fresh
      BY <1>1 DEF ServiceInv, FreshUnbuilt
    <3> QED BY <1>4, <3>1, <3>2 DEF Known
  <2>2. CASE s \in Stored
    BY <1>4, <2>2
  <2> QED BY <1>3, <2>1, <2>2 DEF Loadable, Stored
<1>6. Service!Start("fork")
  BY <1>2, <1>5 DEF Service!Start, Stored, Up, Known
<1> QED BY <1>6 DEF Service!Next

LEMMA LeaveStep ==
    ASSUME TypeOK, config # NotBuilt, config' = NotBuilt, cache' = Fresh
    PROVE  Up["fork"] /\ Service!Leave("fork")
<1>1. Up' = [Up EXCEPT !["fork"] = FALSE] /\ Up["fork"]
  BY DEF Up
<1>2. Known' = [Known EXCEPT !["fork"] = Service!Nothing]
  BY DEF Known, Fresh, Service!Nothing
<1> QED BY <1>1, <1>2 DEF Service!Leave, Up, Known

\* What is saved is all that the fork holds, and the file is left alone if that
\* is nothing.
LEMMA SaveCacheStep ==
    ASSUME TypeOK, SaveCache
    PROVE  \/ Stored' = Stored
           \/ /\ Service!Held("fork") # {}
              /\ Stored' = {[k \in Service!Held("fork") |-> Known["fork"][k]]}
<1>1. CASE file' = file
  BY <1>1 DEF Stored
<1>2. CASE /\ Present # {}
           /\ file' = [entries |-> [k \in Present |-> cache[k]], point |-> Labelled]
  <2>1. Known["fork"] = cache
    BY DEF Known
  <2>2. Service!Held("fork") = Present
    BY <2>1 DEF Service!Held, Present, Known
  <2>3. Present \in SUBSET Keys /\ [k \in Present |-> cache[k]] \in [Present -> Entry]
    BY DEF Present
  <2>4. file' \in File
    BY <1>2, <2>3 DEF File, TypeOK, Labelled
  <2>5. Stored' = {[k \in Present |-> cache[k]]}
    BY <1>2, <2>4, MarkerAssumption DEF Stored
  <2> QED BY <1>2, <2>1, <2>2, <2>5
<1> QED BY <1>1, <1>2 DEF SaveCache

LEMMA DropStep ==
    ASSUME TypeOK, config # NotBuilt, Drop
    PROVE  Service!Next
<1>1. Up["fork"] /\ Service!Leave("fork")
  BY LeaveStep DEF Drop
<1>2. SaveCache
  BY DEF Drop
<1>3. CASE Stored' = Stored
  <2>1. Service!End("fork")
    BY <1>1, <1>3 DEF Service!End, Up, Stored
  <2> QED BY <2>1 DEF Service!Next
<1>4. CASE /\ Service!Held("fork") # {}
           /\ Stored' = {[k \in Service!Held("fork") |-> Known["fork"][k]]}
  <2>1. Service!Save("fork")
    BY <1>1, <1>4 DEF Service!Save, Up, Stored, Known
  <2> QED BY <2>1 DEF Service!Next
<1> QED BY <1>2, <1>3, <1>4, SaveCacheStep

LEMMA SaveStep ==
    ASSUME TypeOK, Save
    PROVE  Service!Next \/ UNCHANGED Service!vars
<1>1. SaveCache /\ cache' = cache /\ config' = config /\ config # NotBuilt
  BY DEF Save, Idle, built
<1>2. Up["fork"] /\ Up' = Up /\ Known' = Known
  BY <1>1 DEF Up, Known
<1>3. CASE Stored' = Stored
  BY <1>2, <1>3 DEF Service!vars, Stored, Up, Known
<1>4. CASE /\ Service!Held("fork") # {}
           /\ Stored' = {[k \in Service!Held("fork") |-> Known["fork"][k]]}
  <2>1. Service!Stay
    BY <1>2 DEF Service!Stay, Up, Known
  <2>2. Service!Save("fork")
    BY <1>2, <1>4, <2>1 DEF Service!Save, Up, Stored, Known
  <2> QED BY <2>2 DEF Service!Next
<1> QED BY <1>1, <1>3, <1>4, SaveCacheStep

\* A get is a step of the service exactly when it fetches.
LEMMA GetStep ==
    ASSUME TypeOK, config # NotBuilt, config' = config, file' = file,
           NEW k \in Keys, NEW v, Get(k, v)
    PROVE  Service!Next \/ UNCHANGED Service!vars
<1>1. CASE cache' = cache
  BY <1>1, QuietStep
<1>2. CASE /\ cache[k] = Unasked
           /\ v = upstream[k] \/ v = Absent
           /\ cache' = [cache EXCEPT ![k] = v]
  <2>1. v \in NetworkEntry \cup {Absent}
    BY <1>2 DEF TypeOK
  <2>2. Up' = Up /\ Up["fork"] /\ Stored' = Stored
    BY DEF Up, Stored
  <2>3. Known["fork"][k] = Unasked /\ Known' = [Known EXCEPT !["fork"][k] = v]
    BY <1>2 DEF Known
  <2>4. Service!Learn("fork", k)
    BY <2>1, <2>2, <2>3 DEF Service!Learn, Up, Stored, Known
  <2> QED BY <2>4 DEF Service!Next
<1> QED BY <1>1, <1>2, GetSteps

LEMMA WriteStep ==
    ASSUME TypeOK, NEW k \in Keys, Write(k)
    PROVE  Service!Next
<1>1. PICK v \in Written \cup {Absent} : cache' = [cache EXCEPT ![k] = v]
  BY DEF Write
<1>2. file' = file /\ config' = config /\ config # NotBuilt
  BY DEF Write, Idle, built
<1>3. Up' = Up /\ Up["fork"] /\ Stored' = Stored
  BY <1>2 DEF Up, Stored
<1>4. cache' = [x \in Keys |-> IF x \in {k} THEN v ELSE cache[x]]
  BY <1>1 DEF TypeOK
<1>5. Known' = [Known EXCEPT !["fork"] = [x \in Keys |-> IF x \in {k} THEN v ELSE @[x]]]
  BY <1>4 DEF Known
<1>6. Service!Put("fork", {k}, v)
  BY <1>3, <1>5 DEF Service!Put, Up, Stored, Known
<1>7. v \in LocalEntry \cup {Absent}
  BY WrittenTyped
<1> QED BY <1>6, <1>7 DEF Service!Next

LEMMA NextRefines ==
    ASSUME ServiceInv, [Next]_vars
    PROVE  [Service!Next]_(Service!vars)
<1>0. TypeOK
  BY DEF ServiceInv
<1>1. CASE UNCHANGED <<file, cache, config>>
  BY <1>1, QuietStep
<1>2. CASE Build
  BY <1>2, BuildStep
<1>3. CASE config # NotBuilt /\ Drop
  BY <1>0, <1>3, DropStep
<1>4. CASE Save
  BY <1>0, <1>4, SaveStep
<1>5. ASSUME NEW k \in Keys, Read(k), ~Drop PROVE Service!Next \/ UNCHANGED Service!vars
  <2>1. PICK v : Get(k, v)
    BY <1>5 DEF Read
  <2>2. config # NotBuilt /\ config' = config /\ file' = file
    BY <1>5 DEF Read, Idle, built
  <2> QED BY <1>0, <2>1, <2>2, GetStep
<1>6. CASE ApplySetting /\ ~Drop
  <2>1. PICK v : Get(Setting, v)
    BY <1>6 DEF ApplySetting
  <2>2. config # NotBuilt /\ config' = config /\ file' = file /\ Setting \in Keys
    BY <1>0, <1>6, SettingIsKey DEF ApplySetting, ServiceInv, ReadingBuilt, built
  <2> QED BY <1>0, <2>1, <2>2, GetStep
<1>7. ASSUME NEW k \in Keys, Write(k) PROVE Service!Next
  BY <1>0, <1>7, WriteStep
<1>8. ASSUME Next PROVE \/ UNCHANGED <<file, cache, config>>
                        \/ Build \/ (config # NotBuilt /\ Drop) \/ Save
                        \/ \E k \in Keys : (Read(k) /\ ~Drop) \/ Write(k)
                        \/ ApplySetting /\ ~Drop
  BY <1>8 DEF Next, NetworkCloses, End, Read, ReadFees, ApplySetting, FeesKnown, Warp, WarpTime,
              WarpLedger, Advance, Idle, ServiceInv, ReadingBuilt, built
<1>9. CASE UNCHANGED vars
  BY <1>1, <1>9 DEF vars, built
<1> QED BY <1>1, <1>2, <1>3, <1>4, <1>5, <1>6, <1>7, <1>8, <1>9

\* The environment and its file are an instance of what CacheFile's forks promise,
\* whatever the network does and the user asks for.
THEOREM SpecImplementsService == Spec => ImplementsService
<1>1. Init => FreshUnbuilt
  BY DEF Init, FreshUnbuilt
<1>2. TypeOK /\ ReadingBuilt /\ FreshUnbuilt /\ [Next]_vars => FreshUnbuilt'
  BY StepFreshUnbuilt DEF ServiceInv
<1>3. TypeOK /\ ReadingBuilt /\ FreshUnbuilt /\ [Next]_vars => [Service!Next]_(Service!vars)
  BY NextRefines DEF ServiceInv
<1> QED BY <1>1, <1>2, <1>3, SpecTypeOK, ReadingBuiltHolds, ServiceInit, PTL
        DEF Spec, ImplementsService, Service!Spec

===============================================================================
