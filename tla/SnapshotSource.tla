---------------------------- MODULE SnapshotSource ----------------------------
(***************************************************************************)
(* RpcSnapshotSource (src/source.rs): the lazily filled ledger behind a    *)
(* forked environment.  A key that was never asked for is fetched from the *)
(* upstream RPC and memoized, absence included; a key that was asked for,  *)
(* or written locally, is answered from the cache.                         *)
(*                                                                         *)
(* The type is Send + Sync and its documentation offers it to several      *)
(* threads, so a get is modelled with the lock released where the code     *)
(* releases it: between the lookup and the fetch, and between the RPC's    *)
(* answer and the insert that memoizes it.  One thread is the case of the  *)
(* worker thread of the server, which owns the only environment.           *)
(***************************************************************************)
EXTENDS Integers

CONSTANTS
    Keys,      \* the ledger keys of the instance
    Accounts,  \* those of them that name an account
    Threads,   \* the threads sharing the source
    Mode,      \* the FetchMode: "Strict" or "Lenient"
    SeqMin,    \* least value of a payload (an i64 in the code)
    SeqMax,    \* greatest value of a payload, where wrapping_add wraps
    Lives,     \* the live-until ledgers of contract entries
    NoTtl,     \* the live_until of an entry that carries none
    Absent,    \* the negative-cache marker: asked, and not on the ledger
    Unasked,   \* the key has no entry in the cache map
    NoKey      \* a thread that has not called get yet

Payloads == SeqMin .. SeqMax

\* A ledger entry is an account, whose payload is its sequence number, or any
\* other entry; only contract entries have a live-until ledger.
AccountEntry  == [kind : {"account"}, payload : Payloads, live : {NoTtl}]
ContractEntry == [kind : {"contract"}, payload : Payloads,
                  live : Lives \cup {NoTtl}]
Entry == AccountEntry \cup ContractEntry

\* What a get returns, and what the cache map holds under a key.
Value      == {Absent} \cup Entry
CacheValue == {Unasked} \cup Value

\* The entries the network and the host keep under k.  (set_entry is the one
\* way to store an entry of the wrong kind: nobody compares its two arguments.)
EntryOf(k) == IF k \in Accounts THEN AccountEntry ELSE ContractEntry

\* The LedgerEntryChanges the host can hand over for k: a read-write change
\* carries the new entry with its new live-until, or nothing when the entry was
\* removed; a read-only one never carries an entry.
ChangeOf(k) == [readOnly : {FALSE}, new : {Absent} \cup EntryOf(k)] \cup
               [readOnly : {TRUE}, new : {Absent}]

\* The batches with one member of Of(k) for each k of a set of keys.
Batches(Of(_)) ==
    UNION {{b \in [S -> UNION {Of(k) : k \in S}] : \A k \in S : b[k] \in Of(k)} :
             S \in SUBSET Keys}

ASSUME ModeAssumption == Mode \in {"Strict", "Lenient"}
ASSUME SeqAssumption == SeqMin \in Int /\ SeqMax \in Int /\ SeqMin <= SeqMax
ASSUME AccountsAssumption == Accounts \subseteq Keys
ASSUME MarkerAssumption ==
    /\ Absent \notin Entry
    /\ Unasked \notin Value
    /\ NoKey \notin Keys

VARIABLES
    cache,       \* the map under the mutex
    fetchCount,  \* the atomic counter
    pc,          \* where each thread stands in get
    want,        \* the key of each thread's current (or last) get
    got,         \* the value that get was answered with
    \* History variables, read by no action of the code:
    promised,    \* what a reader is entitled to: the last local write, or the
                 \* first value any get returned since
    raced,       \* a get of k overlapped a write or another fetch of k
    vouched,     \* the ledger, or a local removal, said that k is absent
    fetches      \* how many fetches of k each thread has issued

code    == <<cache, fetchCount>>
threads == <<pc, want, got>>
history == <<promised, raced, vouched, fetches>>
vars    == <<code, threads, history>>

-------------------------------------------------------------------------------

Known(k) == cache[k] # Unasked

Fetching == {"missed", "waiting", "answered"}

\* Thread t is between the lookup that missed k and the insert that memoizes k.
InFlight(t, k) == pc[t] \in Fetching /\ want[t] = k

Init ==
    /\ cache = [k \in Keys |-> Unasked]
    /\ fetchCount = 0
    /\ pc = [t \in Threads |-> "idle"]
    /\ want = [t \in Threads |-> NoKey]
    /\ got = [t \in Threads |-> Unasked]
    /\ promised = [k \in Keys |-> Unasked]
    /\ raced = [k \in Keys |-> FALSE]
    /\ vouched = [k \in Keys |-> FALSE]
    /\ fetches = [t \in Threads |-> [k \in Keys |-> 0]]

-------------------------------------------------------------------------------
(***************************************************************************)
(* get: the lookup under the lock, then the fetch without it.              *)
(***************************************************************************)

Hit(t, k) ==
    /\ pc[t] = "idle"
    /\ Known(k)
    /\ want' = [want EXCEPT ![t] = k]
    /\ got' = [got EXCEPT ![t] = cache[k]]
    /\ UNCHANGED <<code, pc, history>>

\* Fault: a get that trusts only positive entries and asks again for a key
\* whose absence is memoized.
Miss_AsksAgainForAbsent(t, k) ==
    /\ pc[t] = "idle"
    /\ cache[k] \in {Unasked, Absent}
    /\ pc' = [pc EXCEPT ![t] = "missed"]
    /\ want' = [want EXCEPT ![t] = k]
    /\ got' = [got EXCEPT ![t] = Unasked]
    /\ raced' = [raced EXCEPT ![k] = raced[k] \/ \E u \in Threads : InFlight(u, k)]
    /\ UNCHANGED <<code, promised, vouched, fetches>>

Miss(t, k) ==
    /\ pc[t] = "idle"
    /\ ~Known(k)
    /\ pc' = [pc EXCEPT ![t] = "missed"]
    /\ want' = [want EXCEPT ![t] = k]
    /\ got' = [got EXCEPT ![t] = Unasked]
    /\ raced' = [raced EXCEPT ![k] = raced[k] \/ \E u \in Threads : InFlight(u, k)]
    /\ UNCHANGED <<code, promised, vouched, fetches>>

\* The counter moves before the network call, whatever its outcome.
CountFetch(t) ==
    /\ pc[t] = "missed"
    /\ pc' = [pc EXCEPT ![t] = "waiting"]
    /\ fetchCount' = fetchCount + 1
    /\ fetches' = [fetches EXCEPT ![t][want[t]] = @ + 1]
    /\ UNCHANGED <<cache, want, got, promised, raced, vouched>>

\* The RPC answers with whatever the live ledger holds at that moment.
Answer(t, v) ==
    /\ pc[t] = "waiting"
    /\ v \in {Absent} \cup EntryOf(want[t])
    /\ pc' = [pc EXCEPT ![t] = "answered"]
    /\ got' = [got EXCEPT ![t] = v]
    /\ vouched' = [vouched EXCEPT ![want[t]] = @ \/ v = Absent]
    /\ UNCHANGED <<code, want, promised, raced, fetches>>

\* Fault: a Strict source that treats a failed fetch as an absent entry.
FailStrict_AnswersAbsent(t) ==
    /\ Mode = "Strict"
    /\ pc[t] = "waiting"
    /\ pc' = [pc EXCEPT ![t] = "answered"]
    /\ got' = [got EXCEPT ![t] = Absent]
    /\ UNCHANGED <<code, want, history>>

\* The RPC failed for good (its retries are RpcClient's): Strict panics, and
\* the thread is lost with nothing memoized ...
FailStrict(t) ==
    /\ Mode = "Strict"
    /\ pc[t] = "waiting"
    /\ pc' = [pc EXCEPT ![t] = "panicked"]
    /\ UNCHANGED <<code, want, got, history>>

\* ... Lenient goes on as if the ledger had answered that there is no entry.
FailLenient(t) ==
    /\ Mode = "Lenient"
    /\ pc[t] = "waiting"
    /\ pc' = [pc EXCEPT ![t] = "answered"]
    /\ got' = [got EXCEPT ![t] = Absent]
    /\ UNCHANGED <<code, want, history>>

\* Fault: an absent entry is asked for until it turns up.
Memoize_InsistsOnEntry(t) ==
    /\ pc[t] = "answered"
    /\ pc' = [pc EXCEPT ![t] = IF got[t] = Absent THEN "waiting" ELSE "idle"]
    /\ cache' = IF got[t] = Absent THEN cache
                ELSE [cache EXCEPT ![want[t]] = got[t]]
    /\ UNCHANGED <<fetchCount, want, got, history>>

\* Fault: absence is returned but not memoized.
Memoize_OnlyPositive(t) ==
    /\ pc[t] = "answered"
    /\ pc' = [pc EXCEPT ![t] = "idle"]
    /\ cache' = IF got[t] = Absent THEN cache
                ELSE [cache EXCEPT ![want[t]] = got[t]]
    /\ promised' = [promised EXCEPT ![want[t]] = IF @ = Unasked THEN got[t] ELSE @]
    /\ UNCHANGED <<fetchCount, want, got, raced, vouched, fetches>>

\* The insert is unconditional: it does not look whether the key became known
\* while the lock was released.
Memoize(t) ==
    /\ pc[t] = "answered"
    /\ pc' = [pc EXCEPT ![t] = "idle"]
    /\ cache' = [cache EXCEPT ![want[t]] = got[t]]
    /\ promised' = [promised EXCEPT ![want[t]] = IF @ = Unasked THEN got[t] ELSE @]
    /\ UNCHANGED <<fetchCount, want, got, raced, vouched, fetches>>

-------------------------------------------------------------------------------
(***************************************************************************)
(* Local writes.  Each holds the lock for its whole batch, so it is one    *)
(* step; new maps the written keys to what is written.                     *)
(***************************************************************************)

\* Fault: a write that only fills keys the cache does not know yet.
Write_OnlyUnknown(t, new) ==
    /\ pc[t] = "idle"
    /\ cache' = [k \in Keys |->
                   IF k \in DOMAIN new /\ ~Known(k) THEN new[k] ELSE cache[k]]
    /\ promised' = [k \in Keys |-> IF k \in DOMAIN new THEN new[k] ELSE promised[k]]
    /\ raced' = [k \in Keys |-> IF k \in DOMAIN new
                                THEN \E u \in Threads : InFlight(u, k)
                                ELSE raced[k]]
    /\ UNCHANGED <<fetchCount, threads, fetches>>

Write(t, new) ==
    /\ pc[t] = "idle"
    /\ cache' = [k \in Keys |-> IF k \in DOMAIN new THEN new[k] ELSE cache[k]]
    /\ promised' = [k \in Keys |-> IF k \in DOMAIN new THEN new[k] ELSE promised[k]]
    /\ raced' = [k \in Keys |-> IF k \in DOMAIN new
                                THEN \E u \in Threads : InFlight(u, k)
                                ELSE raced[k]]
    /\ UNCHANGED <<fetchCount, threads, fetches>>

SetEntry(t, k, e) ==
    /\ Write(t, [x \in {k} |-> e])
    /\ UNCHANGED vouched

\* The entries of a cache file, or of the freshly minted test accounts.
Preload(t, entries) ==
    /\ Write(t, entries)
    /\ UNCHANGED vouched

\* Fault: a plain addition, which leaves the i64.
NextSeq_NoWrap(s) == s + 1

\* i64::wrapping_add(1)
NextSeq(s) == IF s = SeqMax THEN SeqMin ELSE s + 1

\* Returns None, and changes nothing, unless an account is cached under k.
BumpAccountSeq(t, k) ==
    /\ cache[k] \in AccountEntry
    /\ Write(t, [x \in {k} |-> [cache[k] EXCEPT !.payload = NextSeq(@)]])
    /\ UNCHANGED vouched

\* changes maps each key of the host's footprint to its change; read-only ones
\* are skipped, a removal leaves the negative marker.
ApplyChanges(t, changes) ==
    LET written == {k \in DOMAIN changes : ~changes[k].readOnly}
    IN  /\ Write(t, [k \in written |-> changes[k].new])
        /\ vouched' = [k \in Keys |->
                         \/ vouched[k]
                         \/ k \in written /\ changes[k].new = Absent]

\* What entries() hands to the cache file: the negative markers stay behind.
Exported == {k \in Keys : cache[k] \in Entry}

-------------------------------------------------------------------------------

GetStep(t) ==
    \/ \E k \in Keys : Hit(t, k) \/ Miss(t, k)
    \/ CountFetch(t)
    \/ \E v \in Value : Answer(t, v)
    \/ FailStrict(t)
    \/ FailLenient(t)
    \/ Memoize(t)

WriteStep(t) ==
    \/ \E k \in Keys, e \in Entry : SetEntry(t, k, e)
    \/ \E entries \in Batches(EntryOf) : Preload(t, entries)
    \/ \E k \in Accounts : BumpAccountSeq(t, k)
    \/ \E changes \in Batches(ChangeOf) : ApplyChanges(t, changes)

Next == \E t \in Threads : GetStep(t) \/ WriteStep(t)

Spec == Init /\ [][Next]_vars

\* A thread inside get keeps running: the operating system schedules it, and
\* the client's retries and request timeout bound every call.  Nothing obliges
\* a thread to call get.
FetchStep(t) ==
    \/ CountFetch(t)
    \/ \E v \in Value : Answer(t, v)
    \/ FailStrict(t)
    \/ FailLenient(t)
    \/ Memoize(t)

FairSpec == Spec /\ \A t \in Threads : WF_vars(FetchStep(t))

-------------------------------------------------------------------------------
(***************************************************************************)
(* Properties.                                                             *)
(***************************************************************************)

TypeOK ==
    /\ cache \in [Keys -> CacheValue]
    /\ fetchCount \in Nat
    /\ pc \in [Threads -> Fetching \cup {"idle", "panicked"}]
    /\ want \in [Threads -> Keys \cup {NoKey}]
    /\ got \in [Threads -> CacheValue]
    /\ promised \in [Keys -> CacheValue]
    /\ raced \in [Keys -> BOOLEAN]
    /\ vouched \in [Keys -> BOOLEAN]
    /\ fetches \in [Threads -> [Keys -> Nat]]
    /\ \A t \in Threads :
         /\ pc[t] \in Fetching => want[t] \in Keys
         /\ pc[t] = "answered" => got[t] \in Value

\* With any number of threads, a reader can be denied what it is entitled to
\* only on a key whose fetch overlapped a write or another fetch: every other
\* key answers with the last local write, or for ever with the value its first
\* get returned (the fork is frozen although the live ledger moves on).
CoherentUnlessRaced ==
    \A k \in Keys :
        promised[k] # Unasked /\ ~raced[k] => cache[k] = promised[k]

\* The same with no exception: what set_entry, apply_changes or the first get
\* established stays what every later get sees.
Frozen == \A k \in Keys : promised[k] # Unasked => cache[k] = promised[k]

\* No thread pays for the same key twice, whatever the others do and whether
\* or not the key exists upstream: absence is memoized like presence.
OneFetchPerThread == \A t \in Threads, k \in Keys : fetches[t][k] <= 1

\* A Strict source never turns a transport failure into an absent entry: a key
\* reads as absent only if the ledger said so or a local transaction removed it.
AbsenceIsReal ==
    Mode = "Strict" => \A k \in Keys : cache[k] = Absent => vouched[k]

\* To an owner that shares it with nobody, a get is a single step, however many
\* steps it takes to fetch the key, and none is ever unsettled by another.
Sole == CHOOSE t \in Threads : TRUE

Service == INSTANCE SourceService WITH
    Values    <- Value,
    Fetchable <- [k \in Keys |-> {Absent} \cup EntryOf(k)],
    Strict    <- Mode = "Strict",
    entries   <- cache,
    asked     <- want[Sole],
    reply     <- IF pc[Sole] = "idle" THEN got[Sole] ELSE Unasked,
    up        <- pc[Sole] # "panicked"

ImplementsService == Service!Spec

\* Every get that misses ends: with a value, or with the Strict panic.
GetsEnd ==
    \A t \in Threads :
        pc[t] \in Fetching ~> pc[t] \in {"idle", "panicked"}

===============================================================================
