------------------------- MODULE SnapshotSourceProofs -------------------------
(***************************************************************************)
(* Theorems about SnapshotSource, for any keys, threads and fetch mode.    *)
(*                                                                         *)
(* The argument for coherence is the invariant Settled: on a key that was  *)
(* never raced, at most one get is in flight, and none once the key is     *)
(* known.  The insert at the end of a get is unconditional, so it is only  *)
(* this that keeps it from replacing a value somebody already relies on.   *)
(***************************************************************************)
EXTENDS SnapshotSource, TLAPS

\* On a key that was never raced at most one get is in flight, and none once
\* the key is known: what Memoize needs and its code does not check.
Settled ==
    \A k \in Keys : ~raced[k] =>
        /\ \A t, u \in Threads : InFlight(t, k) /\ InFlight(u, k) => t = u
        /\ Known(k) => \A t \in Threads : ~InFlight(t, k)

\* A promise exists exactly for the keys the cache knows.
PromisedIffKnown == \A k \in Keys : promised[k] = Unasked <=> ~Known(k)

CoherenceInv == TypeOK /\ Settled /\ PromisedIffKnown /\ CoherentUnlessRaced

\* A thread that has fetched a key still does, or has made it known, or died.
FetchedOnce ==
    \A t \in Threads, k \in Keys :
        /\ fetches[t][k] <= 1
        /\ fetches[t][k] = 1 => \/ Known(k)
                                \/ pc[t] = "panicked"
                                \/ pc[t] \in {"waiting", "answered"} /\ want[t] = k
        /\ pc[t] = "missed" /\ want[t] = k => fetches[t][k] = 0

\* In Strict mode an absence that is about to be memoized is vouched for too.
AbsenceInv ==
    Mode = "Strict" =>
        /\ \A k \in Keys : cache[k] = Absent => vouched[k]
        /\ \A t \in Threads :
             pc[t] = "answered" /\ got[t] = Absent => vouched[want[t]]

-------------------------------------------------------------------------------
(* Facts about the data.                                                   *)

\* The markers are no entries, so a cache value is in exactly one of the three
\* cases of the code's Option<Option<CachedBytes>>.
LEMMA Markers == Absent \in Value /\ Unasked \notin Value /\ Absent # Unasked
BY MarkerAssumption DEF Value

\* The sequence number after wrapping_add(1) is again an i64.
LEMMA NextSeqInRange == ASSUME NEW s \in Payloads PROVE NextSeq(s) \in Payloads
BY SeqAssumption DEF Payloads, NextSeq

\* Whatever kind of entry a key holds is a value.
LEMMA EntriesAreValues == ASSUME NEW k PROVE EntryOf(k) \subseteq Value
BY DEF EntryOf, Value, Entry

\* A bumped account entry is an account entry.
LEMMA BumpIsEntry ==
    ASSUME NEW e \in AccountEntry
    PROVE  [e EXCEPT !.payload = NextSeq(@)] \in Entry
<1>1. NextSeq(e.payload) \in Payloads
  BY NextSeqInRange DEF AccountEntry
<1>2. [e EXCEPT !.payload = NextSeq(@)] \in AccountEntry
  BY <1>1 DEF AccountEntry
<1> QED BY <1>2 DEF Entry

\* A local write of any kind maps some keys to values.
LEMMA WriteStepWrites ==
    ASSUME TypeOK, NEW t \in Threads, WriteStep(t)
    PROVE  \E new : /\ DOMAIN new \subseteq Keys
                    /\ \A k \in DOMAIN new : new[k] \in Value
                    /\ Write(t, new)
<1>1. CASE \E k \in Keys, e \in Entry : SetEntry(t, k, e)
  <2>1. PICK k \in Keys, e \in Entry : SetEntry(t, k, e)
    BY <1>1
  <2> QED BY <2>1 DEF SetEntry, Value
<1>2. CASE \E entries \in Batches(EntryOf) : Preload(t, entries)
  <2>1. PICK entries \in Batches(EntryOf) : Preload(t, entries)
    BY <1>2
  <2>2. DOMAIN entries \subseteq Keys /\ \A k \in DOMAIN entries : entries[k] \in EntryOf(k)
    BY DEF Batches
  <2> QED BY <2>1, <2>2, EntriesAreValues DEF Preload
<1>3. CASE \E k \in Accounts : BumpAccountSeq(t, k)
  <2>1. PICK k \in Accounts : BumpAccountSeq(t, k)
    BY <1>3
  <2> QED BY <2>1, AccountsAssumption, BumpIsEntry DEF BumpAccountSeq, Value
<1>4. CASE \E changes \in Batches(ChangeOf) : ApplyChanges(t, changes)
  <2>1. PICK changes \in Batches(ChangeOf) : ApplyChanges(t, changes)
    BY <1>4
  <2> DEFINE written == {k \in DOMAIN changes : ~changes[k].readOnly}
  <2>2. DOMAIN changes \subseteq Keys /\ \A k \in DOMAIN changes : changes[k] \in ChangeOf(k)
    BY DEF Batches
  <2>3. \A k \in written : changes[k].new \in Value
    BY <2>2, EntriesAreValues, Markers DEF ChangeOf
  <2> QED BY <2>1, <2>2, <2>3 DEF ApplyChanges
<1> QED BY <1>1, <1>2, <1>3, <1>4 DEF WriteStep

-------------------------------------------------------------------------------
(* Type correctness.                                                       *)

LEMMA InitTypeOK == Init => TypeOK
BY MarkerAssumption DEF Init, TypeOK, CacheValue, Fetching

LEMMA WriteTypeOK ==
    ASSUME TypeOK, NEW t \in Threads, WriteStep(t)
    PROVE  TypeOK'
<1>1. PICK new : /\ DOMAIN new \subseteq Keys
                 /\ \A k \in DOMAIN new : new[k] \in Value
                 /\ Write(t, new)
  BY WriteStepWrites
<1>2. vouched' \in [Keys -> BOOLEAN]
  BY DEF WriteStep, SetEntry, Preload, BumpAccountSeq, ApplyChanges, TypeOK
<1>3. cache' \in [Keys -> CacheValue] /\ promised' \in [Keys -> CacheValue]
  BY <1>1 DEF Write, TypeOK, CacheValue
<1>4. raced' \in [Keys -> BOOLEAN]
  BY <1>1 DEF Write, TypeOK, InFlight
<1> QED BY <1>1, <1>2, <1>3, <1>4 DEF Write, TypeOK, threads

LEMMA GetTypeOK ==
    ASSUME TypeOK, NEW t \in Threads, GetStep(t)
    PROVE  TypeOK'
<1> USE DEF TypeOK, Fetching
<1>1. ASSUME NEW k \in Keys, Hit(t, k) PROVE TypeOK'
  BY <1>1 DEF Hit, code, history
<1>2. ASSUME NEW k \in Keys, Miss(t, k) PROVE TypeOK'
  BY <1>2 DEF Miss, code, InFlight, CacheValue
<1>3. CASE CountFetch(t)
  BY <1>3 DEF CountFetch
<1>4. ASSUME NEW v \in Value, Answer(t, v) PROVE TypeOK'
  BY <1>4 DEF Answer, code, CacheValue
<1>5. CASE FailStrict(t)
  BY <1>5 DEF FailStrict, code, history
<1>6. CASE FailLenient(t)
  BY <1>6, Markers DEF FailLenient, code, history, CacheValue
<1>7. CASE Memoize(t)
  BY <1>7 DEF Memoize, CacheValue
<1> QED BY <1>1, <1>2, <1>3, <1>4, <1>5, <1>6, <1>7 DEF GetStep

LEMMA StepTypeOK == TypeOK /\ [Next]_vars => TypeOK'
<1> SUFFICES ASSUME TypeOK, [Next]_vars PROVE TypeOK'
  OBVIOUS
<1>1. CASE UNCHANGED vars
  BY <1>1 DEF vars, code, threads, history, TypeOK
<1>2. CASE Next
  BY <1>2, GetTypeOK, WriteTypeOK DEF Next
<1> QED BY <1>1, <1>2

\* Every variable keeps its type, and a thread inside get always holds a key.
THEOREM SpecTypeOK == Spec => []TypeOK
BY InitTypeOK, StepTypeOK, PTL DEF Spec

-------------------------------------------------------------------------------
(* Coherence.                                                              *)

LEMMA InitCoherenceInv == Init => CoherenceInv
<1> SUFFICES ASSUME Init PROVE CoherenceInv
  OBVIOUS
<1>1. TypeOK
  BY InitTypeOK
<1>2. Settled
  BY DEF Init, Settled, InFlight, Fetching
<1>3. PromisedIffKnown /\ CoherentUnlessRaced
  BY DEF Init, PromisedIffKnown, CoherentUnlessRaced, Known
<1> QED BY <1>1, <1>2, <1>3 DEF CoherenceInv

\* A write leaves a key unraced only if no get of it is in flight.
LEMMA WriteCoherence ==
    ASSUME CoherenceInv, NEW t \in Threads, WriteStep(t)
    PROVE  CoherenceInv'
<1>1. PICK new : /\ DOMAIN new \subseteq Keys
                 /\ \A k \in DOMAIN new : new[k] \in Value
                 /\ Write(t, new)
  BY WriteStepWrites DEF CoherenceInv
<1>2. \A u \in Threads, k \in Keys : InFlight(u, k)' <=> InFlight(u, k)
  BY <1>1 DEF Write, threads, InFlight
<1>3. TypeOK'
  BY WriteTypeOK DEF CoherenceInv
<1>4. Settled'
  <2> SUFFICES ASSUME NEW k \in Keys, ~raced'[k]
               PROVE  /\ \A u, v \in Threads : InFlight(u, k)' /\ InFlight(v, k)' => u = v
                      /\ Known(k)' => \A u \in Threads : ~InFlight(u, k)'
    BY DEF Settled
  <2>1. CASE k \in DOMAIN new
    BY <1>1, <1>2, <2>1 DEF Write
  <2>2. CASE k \notin DOMAIN new
    <3>1. ~raced[k] /\ cache'[k] = cache[k]
      BY <1>1, <2>2 DEF Write
    <3> QED BY <1>2, <3>1 DEF CoherenceInv, Settled, Known
  <2> QED BY <2>1, <2>2
<1>5. PromisedIffKnown' /\ CoherentUnlessRaced'
  <2> SUFFICES ASSUME NEW k \in Keys
               PROVE  /\ promised'[k] = Unasked <=> ~Known(k)'
                      /\ promised'[k] # Unasked /\ ~raced'[k] => cache'[k] = promised'[k]
    BY DEF PromisedIffKnown, CoherentUnlessRaced
  <2>1. CASE k \in DOMAIN new
    BY <1>1, <2>1, Markers DEF Write, Known
  <2>2. CASE k \notin DOMAIN new
    <3>1. cache'[k] = cache[k] /\ promised'[k] = promised[k] /\ raced'[k] = raced[k]
      BY <1>1, <2>2 DEF Write
    <3> QED BY <3>1 DEF CoherenceInv, PromisedIffKnown, CoherentUnlessRaced, Known
  <2> QED BY <2>1, <2>2
<1> QED BY <1>3, <1>4, <1>5 DEF CoherenceInv

\* A get that misses joins another one only on a key marked raced.
LEMMA MissCoherence ==
    ASSUME CoherenceInv, NEW t \in Threads, NEW k \in Keys, Miss(t, k)
    PROVE  Settled' /\ PromisedIffKnown' /\ CoherentUnlessRaced'
<1>1. \A u \in Threads, x \in Keys : u # t => (InFlight(u, x)' <=> InFlight(u, x))
  BY DEF Miss, CoherenceInv, TypeOK, InFlight
<1>2. \A x \in Keys : InFlight(t, x)' => x = k
  BY DEF Miss, CoherenceInv, TypeOK, InFlight
<1>3. \A x \in Keys : ~raced'[x] => /\ ~raced[x]
                                    /\ x = k => \A u \in Threads : ~InFlight(u, k)
  BY DEF Miss, CoherenceInv, TypeOK
<1>4. cache' = cache /\ promised' = promised /\ ~Known(k)
  BY DEF Miss, code
<1>5. Settled'
  BY <1>1, <1>2, <1>3, <1>4 DEF CoherenceInv, Settled, Known
<1>6. PromisedIffKnown' /\ CoherentUnlessRaced'
  BY <1>3, <1>4 DEF CoherenceInv, PromisedIffKnown, CoherentUnlessRaced, Known
<1> QED BY <1>5, <1>6

\* On an unraced key the insert is the only one, so it keeps the promise it makes.
LEMMA MemoizeCoherence ==
    ASSUME CoherenceInv, NEW t \in Threads, Memoize(t)
    PROVE  Settled' /\ PromisedIffKnown' /\ CoherentUnlessRaced'
<1> DEFINE key == want[t]
<1>1. key \in Keys /\ got[t] \in Value /\ InFlight(t, key)
  BY DEF Memoize, CoherenceInv, TypeOK, InFlight, Fetching
<1>2. /\ cache' = [cache EXCEPT ![key] = got[t]]
      /\ promised' = [promised EXCEPT ![key] = IF @ = Unasked THEN got[t] ELSE @]
      /\ raced' = raced
  BY DEF Memoize
<1>3. \A u \in Threads, x \in Keys : InFlight(u, x)' => InFlight(u, x) /\ u # t
  BY DEF Memoize, CoherenceInv, TypeOK, InFlight, Fetching
<1>4. ~raced[key] => ~Known(key) /\ promised[key] = Unasked
  BY <1>1 DEF CoherenceInv, Settled, PromisedIffKnown
<1>5. Settled'
  <2> SUFFICES ASSUME NEW x \in Keys, ~raced'[x]
               PROVE  /\ \A u, v \in Threads : InFlight(u, x)' /\ InFlight(v, x)' => u = v
                      /\ Known(x)' => \A u \in Threads : ~InFlight(u, x)'
    BY DEF Settled
  <2>1. CASE x = key
    BY <1>1, <1>2, <1>3, <2>1 DEF CoherenceInv, Settled
  <2>2. CASE x # key
    <3>1. cache'[x] = cache[x]
      BY <1>2, <2>2 DEF CoherenceInv, TypeOK
    <3> QED BY <1>2, <1>3, <3>1 DEF CoherenceInv, Settled, Known
  <2> QED BY <2>1, <2>2
<1>6. PromisedIffKnown' /\ CoherentUnlessRaced'
  <2> SUFFICES ASSUME NEW x \in Keys
               PROVE  /\ promised'[x] = Unasked <=> ~Known(x)'
                      /\ promised'[x] # Unasked /\ ~raced'[x] => cache'[x] = promised'[x]
    BY DEF PromisedIffKnown, CoherentUnlessRaced
  <2>1. CASE x = key
    BY <1>1, <1>2, <1>4, <2>1, Markers DEF CoherenceInv, TypeOK, Known
  <2>2. CASE x # key
    <3>1. cache'[x] = cache[x] /\ promised'[x] = promised[x] /\ raced'[x] = raced[x]
      BY <1>2, <2>2 DEF CoherenceInv, TypeOK
    <3> QED BY <3>1 DEF CoherenceInv, PromisedIffKnown, CoherentUnlessRaced, Known
  <2> QED BY <2>1, <2>2
<1> QED BY <1>5, <1>6

\* The remaining steps of get touch neither the cache nor the promises, and
\* leave every get in flight where it is or take it out of flight.
LEMMA QuietCoherence ==
    ASSUME CoherenceInv,
           cache' = cache, promised' = promised, raced' = raced,
           \A u \in Threads, x \in Keys : InFlight(u, x)' => InFlight(u, x)
    PROVE  Settled' /\ PromisedIffKnown' /\ CoherentUnlessRaced'
BY DEF CoherenceInv, Settled, PromisedIffKnown, CoherentUnlessRaced, Known

LEMMA GetCoherence ==
    ASSUME CoherenceInv, NEW t \in Threads, GetStep(t)
    PROVE  CoherenceInv'
<1>1. TypeOK'
  BY GetTypeOK DEF CoherenceInv
<1>2. ASSUME NEW k \in Keys, Miss(t, k)
      PROVE  Settled' /\ PromisedIffKnown' /\ CoherentUnlessRaced'
  BY <1>2, MissCoherence
<1>3. ASSUME Memoize(t)
      PROVE  Settled' /\ PromisedIffKnown' /\ CoherentUnlessRaced'
  BY <1>3, MemoizeCoherence
<1>4. ASSUME \/ \E k \in Keys : Hit(t, k)
             \/ CountFetch(t)
             \/ \E v \in Value : Answer(t, v)
             \/ FailStrict(t)
             \/ FailLenient(t)
      PROVE  Settled' /\ PromisedIffKnown' /\ CoherentUnlessRaced'
  <2>1. cache' = cache /\ promised' = promised /\ raced' = raced
    BY <1>4 DEF Hit, CountFetch, Answer, FailStrict, FailLenient, code, history
  <2>2. \A u \in Threads, x \in Keys : InFlight(u, x)' => InFlight(u, x)
    BY <1>4 DEF Hit, CountFetch, Answer, FailStrict, FailLenient, history,
                CoherenceInv, TypeOK, InFlight, Fetching
  <2> QED BY <2>1, <2>2, QuietCoherence
<1> QED BY <1>1, <1>2, <1>3, <1>4 DEF GetStep, CoherenceInv

LEMMA StepCoherenceInv == CoherenceInv /\ [Next]_vars => CoherenceInv'
<1> SUFFICES ASSUME CoherenceInv, [Next]_vars PROVE CoherenceInv'
  OBVIOUS
<1>1. CASE UNCHANGED vars
  BY <1>1, StepTypeOK DEF vars, code, threads, history, CoherenceInv, Settled,
     PromisedIffKnown, CoherentUnlessRaced, Known, InFlight
<1>2. CASE Next
  BY <1>2, GetCoherence, WriteCoherence DEF Next
<1> QED BY <1>1, <1>2

\* However many threads share the source, a key whose fetches overlapped no
\* write and no other fetch answers every get with what is promised of it.
THEOREM SpecCoherent == Spec => []CoherentUnlessRaced
<1>1. CoherenceInv => CoherentUnlessRaced
  BY DEF CoherenceInv
<1> QED BY <1>1, InitCoherenceInv, StepCoherenceInv, PTL DEF Spec

-------------------------------------------------------------------------------
(* One owner.                                                              *)

\* With a single thread nothing is ever in flight when it acts.
NeverRaced == \A k \in Keys : ~raced[k]

LEMMA SoloStepNeverRaced ==
    ASSUME NEW me, Threads = {me}
    PROVE  TypeOK /\ NeverRaced /\ [Next]_vars => NeverRaced'
<1> SUFFICES ASSUME TypeOK, NeverRaced, [Next]_vars PROVE NeverRaced'
  OBVIOUS
<1>1. CASE UNCHANGED vars
  BY <1>1 DEF vars, history, NeverRaced
<1>2. ASSUME NEW t \in Threads, WriteStep(t) PROVE NeverRaced'
  <2>1. PICK new : Write(t, new)
    BY <1>2, WriteStepWrites
  <2>2. \A u \in Threads, k \in Keys : ~InFlight(u, k)
    BY <2>1 DEF Write, InFlight, Fetching
  <2> QED BY <2>1, <2>2 DEF Write, NeverRaced
<1>3. ASSUME NEW t \in Threads, NEW k \in Keys, Miss(t, k) PROVE NeverRaced'
  <2>1. \A u \in Threads : ~InFlight(u, k)
    BY <1>3 DEF Miss, InFlight, Fetching
  <2> QED BY <1>3, <2>1 DEF Miss, NeverRaced, TypeOK
<1>4. ASSUME NEW t \in Threads,
             \/ \E k \in Keys : Hit(t, k)
             \/ CountFetch(t)
             \/ \E v \in Value : Answer(t, v)
             \/ FailStrict(t)
             \/ FailLenient(t)
             \/ Memoize(t)
      PROVE  NeverRaced'
  BY <1>4 DEF Hit, CountFetch, Answer, FailStrict, FailLenient, Memoize, history, NeverRaced
<1>5. CASE Next
  BY <1>2, <1>3, <1>4, <1>5 DEF Next, GetStep
<1> QED BY <1>1, <1>5

\* A source with one owner, such as the worker thread of the server, is frozen:
\* what the first get of a key returned, or the last local write of it stored,
\* is what every later get returns.
THEOREM SoloFrozen == ASSUME NEW me, Threads = {me} PROVE Spec => []Frozen
<1>1. Init => NeverRaced
  BY DEF Init, NeverRaced
<1>2. TypeOK /\ NeverRaced /\ [Next]_vars => NeverRaced'
  BY SoloStepNeverRaced
<1>3. CoherentUnlessRaced /\ NeverRaced => Frozen
  BY DEF CoherentUnlessRaced, NeverRaced, Frozen
<1> QED BY <1>1, <1>2, <1>3, SpecTypeOK, SpecCoherent, PTL DEF Spec

-------------------------------------------------------------------------------
(* A get in one step.                                                      *)

\* A get in progress has no answer but one that fits its key; a get that is over
\* has one.
AnswersFit ==
    \A t \in Threads :
        /\ pc[t] = "answered" => got[t] \in {Absent} \cup EntryOf(want[t])
        /\ pc[t] = "idle" /\ want[t] # NoKey => got[t] \in Value

SoloInv == CoherenceInv /\ NeverRaced /\ AnswersFit

LEMMA StepAnswersFit == TypeOK /\ AnswersFit /\ [Next]_vars => AnswersFit'
<1> SUFFICES ASSUME TypeOK, AnswersFit, [Next]_vars PROVE AnswersFit'
  OBVIOUS
<1>1. CASE UNCHANGED vars
  BY <1>1 DEF vars, threads, AnswersFit
<1>2. ASSUME NEW t \in Threads, WriteStep(t) PROVE AnswersFit'
  BY <1>2, WriteStepWrites DEF Write, threads, AnswersFit
<1>3. ASSUME NEW t \in Threads, NEW k \in Keys, Hit(t, k) PROVE AnswersFit'
  <2>1. cache[k] \in Value
    BY <1>3 DEF Hit, Known, TypeOK, CacheValue
  <2> QED BY <1>3, <2>1 DEF Hit, AnswersFit, TypeOK
<1>4. ASSUME NEW t \in Threads, NEW k \in Keys, Miss(t, k) PROVE AnswersFit'
  BY <1>4 DEF Miss, AnswersFit, TypeOK
<1>5. ASSUME NEW t \in Threads, CountFetch(t) \/ FailStrict(t) PROVE AnswersFit'
  BY <1>5 DEF CountFetch, FailStrict, AnswersFit, TypeOK
<1>6. ASSUME NEW t \in Threads, (\E v \in Value : Answer(t, v)) \/ FailLenient(t)
      PROVE  AnswersFit'
  BY <1>6 DEF Answer, FailLenient, AnswersFit, TypeOK
<1>7. ASSUME NEW t \in Threads, Memoize(t) PROVE AnswersFit'
  <2>1. got[t] \in Value
    BY <1>7 DEF Memoize, TypeOK
  <2> QED BY <1>7, <2>1 DEF Memoize, AnswersFit, TypeOK
<1>8. CASE Next
  BY <1>2, <1>3, <1>4, <1>5, <1>6, <1>7, <1>8 DEF Next, GetStep
<1> QED BY <1>1, <1>8

\* What the owner's get is to the service.
Reply == IF pc[Sole] = "idle" THEN got[Sole] ELSE Unasked
Able  == pc[Sole] # "panicked"
Fits  == [k \in Keys |-> {Absent} \cup EntryOf(k)]

LEMMA SoleOwner == ASSUME NEW me, Threads = {me} PROVE Sole = me
BY DEF Sole

LEMMA ServiceInit == ASSUME NEW me, Threads = {me} PROVE Init => Service!Init
BY SoleOwner DEF Init, Service!Init

LEMMA SoloWriteStep ==
    ASSUME NEW me, Threads = {me}, SoloInv, WriteStep(me)
    PROVE  Service!Next
<1>1. PICK new : /\ DOMAIN new \subseteq Keys
                 /\ \A k \in DOMAIN new : new[k] \in Value
                 /\ Write(me, new)
  BY WriteStepWrites DEF SoloInv, CoherenceInv
<1>2. pc[Sole] = "idle" /\ UNCHANGED <<pc, want, got>>
  BY <1>1, SoleOwner DEF Write, threads
<1>3. Service!Idle
  BY <1>2, SoleOwner, Markers DEF Service!Idle, Service!Waiting, SoloInv, AnswersFit
<1> DEFINE put == [k \in DOMAIN new |-> new[k]]
<1>4. put \in [DOMAIN new -> Value] /\ DOMAIN new \in SUBSET Keys
  BY <1>1
<1>5. Service!Put(put)
  BY <1>1, <1>2, <1>3 DEF Service!Put, Write
<1> QED BY <1>4, <1>5 DEF Service!Next

LEMMA SoloGetStep ==
    ASSUME NEW me, Threads = {me}, SoloInv, GetStep(me)
    PROVE  Service!Next \/ UNCHANGED Service!vars
<1>0. Sole = me /\ TypeOK
  BY SoleOwner DEF SoloInv, CoherenceInv
<1>1. ASSUME NEW k \in Keys, Hit(me, k) \/ Miss(me, k) PROVE Service!Next
  <2>1. Service!Idle
    BY <1>0, <1>1, Markers DEF Hit, Miss, Service!Idle, Service!Waiting, SoloInv, AnswersFit
  <2>2. want'[Sole] = k /\ Reply' = cache[k] /\ UNCHANGED <<cache, Able>>
    BY <1>0, <1>1 DEF Hit, Miss, Known, Reply, Able, TypeOK, code
  <2>3. Service!Ask(k)
    BY <2>1, <2>2 DEF Service!Ask, Reply, Able
  <2> QED BY <2>3 DEF Service!Next
<1>2. ASSUME CountFetch(me) \/ (\E v \in Value : Answer(me, v)) \/ FailLenient(me)
      PROVE  UNCHANGED Service!vars
  <2>1. UNCHANGED <<cache, want, Reply, Able>>
    BY <1>0, <1>2 DEF CountFetch, Answer, FailLenient, Reply, Able, TypeOK, code
  <2> QED BY <2>1 DEF Service!vars, Reply, Able
<1>3. ASSUME FailStrict(me) PROVE Service!Next
  <2>1. Service!Waiting
    BY <1>0, <1>3, MarkerAssumption DEF FailStrict, Service!Waiting, TypeOK, Fetching
  <2>2. ~Able' /\ UNCHANGED <<cache, want, Reply>>
    BY <1>0, <1>3 DEF FailStrict, Able, Reply, TypeOK, code
  <2>3. Service!Panic
    BY <1>3, <2>1, <2>2 DEF FailStrict, Service!Panic, Reply, Able
  <2> QED BY <2>3 DEF Service!Next
<1>4. ASSUME Memoize(me) PROVE Service!Next
  <2>1. want[me] \in Keys /\ InFlight(me, want[me])
    BY <1>4 DEF Memoize, SoloInv, CoherenceInv, TypeOK, InFlight, Fetching
  <2>2. Service!Waiting
    BY <1>0, <1>4, <2>1, MarkerAssumption DEF Memoize, Service!Waiting
  <2>3. cache[want[me]] = Unasked
    BY <2>1 DEF SoloInv, NeverRaced, CoherenceInv, Settled, Known
  <2>4. got[me] \in Fits[want[me]]
    BY <1>4, <2>1 DEF Memoize, SoloInv, AnswersFit, Fits
  <2>5. /\ Reply' = got[me] /\ Able' = Able /\ want' = want
        /\ cache' = [cache EXCEPT ![want[me]] = got[me]]
    BY <1>0, <1>4 DEF Memoize, Reply, Able, TypeOK
  <2>6. Service!Learn
    BY <1>0, <2>2, <2>3, <2>4, <2>5 DEF Service!Learn, Reply, Able, Fits
  <2> QED BY <2>6 DEF Service!Next
<1> QED BY <1>1, <1>2, <1>3, <1>4 DEF GetStep

\* To a single owner a get is one step, which settles a key that is not known and
\* answers from what is known otherwise, although the code looks the key up,
\* fetches it and memoizes it with the lock released in between.
THEOREM SoloImplementsService ==
    ASSUME NEW me, Threads = {me} PROVE Spec => ImplementsService
<1>1. Init => SoloInv
  <2> SUFFICES ASSUME Init PROVE SoloInv
    OBVIOUS
  <2>1. NeverRaced /\ AnswersFit
    BY DEF Init, NeverRaced, AnswersFit
  <2> QED BY <2>1, InitCoherenceInv DEF SoloInv
<1>2. SoloInv /\ [Next]_vars => SoloInv'
  BY StepCoherenceInv, SoloStepNeverRaced, StepAnswersFit DEF SoloInv, CoherenceInv
<1>3. SoloInv /\ [Next]_vars => [Service!Next]_(Service!vars)
  <2> SUFFICES ASSUME SoloInv, [Next]_vars PROVE Service!Next \/ UNCHANGED Service!vars
    OBVIOUS
  <2>1. CASE UNCHANGED vars
    <3>1. UNCHANGED <<cache, want, Reply, Able>>
      BY <2>1 DEF vars, code, threads, Reply, Able
    <3> QED BY <3>1 DEF Service!vars, Reply, Able
  <2>2. CASE Next
    BY <2>2, SoloWriteStep, SoloGetStep DEF Next
  <2> QED BY <2>1, <2>2
<1> QED BY <1>1, <1>2, <1>3, ServiceInit, PTL DEF Spec, ImplementsService, Service!Spec

-------------------------------------------------------------------------------
(* The cost of a fork.                                                     *)

\* Whatever a write does, no key becomes unknown.
LEMMA WriteKeepsKnown ==
    ASSUME TypeOK, NEW t \in Threads, WriteStep(t)
    PROVE  /\ \A k \in Keys : Known(k) => Known(k)'
           /\ UNCHANGED <<pc, want, got, fetches>>
<1>1. PICK new : /\ \A k \in DOMAIN new : new[k] \in Value
                 /\ Write(t, new)
  BY WriteStepWrites
<1> QED BY <1>1, Markers DEF Write, Known, threads

LEMMA StepFetchedOnce == TypeOK /\ FetchedOnce /\ [Next]_vars => FetchedOnce'
<1> SUFFICES ASSUME TypeOK, FetchedOnce, [Next]_vars PROVE FetchedOnce'
  OBVIOUS
<1>1. CASE UNCHANGED vars
  BY <1>1 DEF vars, code, threads, history, FetchedOnce, Known
<1>2. ASSUME NEW t \in Threads, WriteStep(t) PROVE FetchedOnce'
  BY <1>2, WriteKeepsKnown DEF FetchedOnce
<1>3. ASSUME NEW t \in Threads, NEW k \in Keys, Hit(t, k) PROVE FetchedOnce'
  BY <1>3 DEF Hit, code, history, FetchedOnce, Known, TypeOK
<1>4. ASSUME NEW t \in Threads, NEW k \in Keys, Miss(t, k) PROVE FetchedOnce'
  <2>1. fetches[t][k] # 1
    BY <1>4 DEF Miss, FetchedOnce
  <2>2. fetches[t][k] \in Nat /\ fetches[t][k] <= 1
    BY DEF FetchedOnce, TypeOK
  <2>3. fetches[t][k] = 0
    BY <2>1, <2>2
  <2> QED BY <1>4, <2>3 DEF Miss, code, FetchedOnce, Known, TypeOK
<1>5. ASSUME NEW t \in Threads, CountFetch(t) PROVE FetchedOnce'
  BY <1>5 DEF CountFetch, FetchedOnce, Known, TypeOK, Fetching
<1>6. ASSUME NEW t \in Threads, NEW v \in Value, Answer(t, v) PROVE FetchedOnce'
  BY <1>6 DEF Answer, code, FetchedOnce, Known, TypeOK
<1>7. ASSUME NEW t \in Threads, FailStrict(t) \/ FailLenient(t) PROVE FetchedOnce'
  BY <1>7 DEF FailStrict, FailLenient, code, history, FetchedOnce, Known, TypeOK
<1>8. ASSUME NEW t \in Threads, Memoize(t) PROVE FetchedOnce'
  BY <1>8, Markers DEF Memoize, FetchedOnce, Known, TypeOK, Fetching
<1>9. CASE Next
  BY <1>2, <1>3, <1>4, <1>5, <1>6, <1>7, <1>8, <1>9 DEF Next, GetStep
<1> QED BY <1>1, <1>9

\* No thread fetches a key twice, in either mode and however many threads race
\* it: with n threads a key costs at most n calls, and with one owner one.
THEOREM SpecOneFetchPerThread == Spec => []OneFetchPerThread
<1>1. Init => FetchedOnce
  <2> SUFFICES ASSUME Init PROVE FetchedOnce
    OBVIOUS
  <2>1. \A t \in Threads, k \in Keys : fetches[t][k] = 0
    BY DEF Init
  <2> QED BY <2>1 DEF FetchedOnce
<1>2. FetchedOnce => OneFetchPerThread
  BY DEF FetchedOnce, OneFetchPerThread
<1> QED BY <1>1, <1>2, StepFetchedOnce, SpecTypeOK, PTL DEF Spec

-------------------------------------------------------------------------------
(* What a Strict source may report as absent.                              *)

LEMMA WriteAbsence ==
    ASSUME TypeOK, AbsenceInv, Mode = "Strict", NEW t \in Threads, WriteStep(t)
    PROVE  AbsenceInv'
<1>1. ASSUME NEW new, Write(t, new),
             \A k \in DOMAIN new : new[k] \in Entry,
             UNCHANGED vouched
      PROVE  AbsenceInv'
  BY <1>1, MarkerAssumption DEF Write, threads, AbsenceInv
<1>2. ASSUME NEW k \in Keys, NEW e \in Entry, SetEntry(t, k, e) PROVE AbsenceInv'
  BY <1>1, <1>2 DEF SetEntry
<1>3. ASSUME NEW entries \in Batches(EntryOf), Preload(t, entries) PROVE AbsenceInv'
  <2>1. \A k \in DOMAIN entries : entries[k] \in Entry
    BY DEF Batches, EntryOf, Entry
  <2> QED BY <1>1, <1>3, <2>1 DEF Preload
<1>4. ASSUME NEW k \in Accounts, BumpAccountSeq(t, k) PROVE AbsenceInv'
  BY <1>1, <1>4, BumpIsEntry DEF BumpAccountSeq
<1>5. ASSUME NEW changes \in Batches(ChangeOf), ApplyChanges(t, changes) PROVE AbsenceInv'
  BY <1>5 DEF ApplyChanges, Write, threads, AbsenceInv, TypeOK, Fetching
<1> QED BY <1>2, <1>3, <1>4, <1>5 DEF WriteStep

LEMMA StepAbsenceInv == TypeOK /\ AbsenceInv /\ [Next]_vars => AbsenceInv'
<1> SUFFICES ASSUME TypeOK, AbsenceInv, [Next]_vars, Mode = "Strict" PROVE AbsenceInv'
  BY DEF AbsenceInv
<1>1. CASE UNCHANGED vars
  BY <1>1 DEF vars, code, threads, history, AbsenceInv
<1>2. ASSUME NEW t \in Threads, WriteStep(t) PROVE AbsenceInv'
  BY <1>2, WriteAbsence
<1>3. ASSUME NEW t \in Threads, NEW k \in Keys, Hit(t, k) \/ Miss(t, k) PROVE AbsenceInv'
  BY <1>3, Markers DEF Hit, Miss, code, history, AbsenceInv, TypeOK
<1>4. ASSUME NEW t \in Threads, CountFetch(t) \/ FailStrict(t) PROVE AbsenceInv'
  BY <1>4 DEF CountFetch, FailStrict, code, history, AbsenceInv, TypeOK
<1>5. ASSUME NEW t \in Threads, NEW v \in Value, Answer(t, v) PROVE AbsenceInv'
  BY <1>5 DEF Answer, code, AbsenceInv, TypeOK, Fetching
<1>6. ASSUME NEW t \in Threads, Memoize(t) PROVE AbsenceInv'
  BY <1>6 DEF Memoize, AbsenceInv, TypeOK, Fetching
<1>7. CASE Next
  BY <1>2, <1>3, <1>4, <1>5, <1>6, <1>7 DEF Next, GetStep, FailLenient
<1> QED BY <1>1, <1>7

\* In Strict mode absence is never made up from a transport failure.
THEOREM SpecAbsenceIsReal == Spec => []AbsenceIsReal
<1>1. Init => AbsenceInv
  BY MarkerAssumption DEF Init, AbsenceInv, Value
<1>2. AbsenceInv => AbsenceIsReal
  BY DEF AbsenceInv, AbsenceIsReal
<1> QED BY <1>1, <1>2, StepAbsenceInv, SpecTypeOK, PTL DEF Spec

===============================================================================
