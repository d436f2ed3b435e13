------------------------------ MODULE RpcClient ------------------------------
(***************************************************************************)
(* RpcClient (src/rpc.rs): the retrying JSON-RPC client under the snapshot *)
(* source.  A call is a chain of posts, one per chunk of keys or two for   *)
(* the latest ledger; a post is a series of attempts, with a sleep between *)
(* two of them.  Meanwhile the network goes on closing ledgers, so two     *)
(* posts of one call, or two attempts of one post, may see different ones. *)
(***************************************************************************)
EXTENDS Integers, Sequences, FiniteSets

CONSTANTS
    Keys,        \* ledger keys
    MaxKeys,     \* max_keys_per_request
    Retries,     \* the values of retries that clients are configured with
    MaxAttempts, \* u32::MAX, where the counters of the retry loop wrap
    Base,        \* base_retry_delay
    MaxDelay,    \* Duration::MAX, where the delay saturates
    MaxLedger,   \* bound on the ledgers the network closes meanwhile
    Retention,   \* how many of the last ledgers the RPC still describes
    Absent,      \* the network has no entry under a key
    NoLedger     \* the network has not answered yet

ASSUME ConfigAssumption ==
    /\ MaxKeys \in Nat \ {0}
    /\ MaxAttempts \in Nat /\ Retries \subseteq 0 .. MaxAttempts
    /\ Base \in Nat /\ MaxDelay \in Nat
    /\ MaxLedger \in Nat \ {0} /\ Retention \in Nat
ASSUME MarkerAssumption == Absent \notin Nat /\ NoLedger \notin Nat /\ Absent # NoLedger

\* Powers of two, which the provers take for an unknown function.
ASSUME PowersAssumption ==
    \A n \in 0 .. MaxAttempts : 2 ^ n \in Nat \ {0} /\ 2 ^ (n + 1) = 2 * 2 ^ n

VARIABLES
    retries,   \* how many transient failures a post survives
    ledger,    \* the network's latest ledger
    upstream,  \* the ledger in which each entry was last modified, or Absent
    call,      \* "none", "entries" or "latest"
    outcome,   \* "running", "ok", "rpc error", "fatal" or "transient"
    keys,      \* the keys asked for
    todo,      \* those whose chunk is not answered yet
    found,     \* the entries decoded so far
    latest,    \* the ledger the first post of get_latest_ledger answered
    closed,    \* the ledger whose close time the second one answered
    attempt,   \* attempts of the current post that failed
    asleep,    \* between two attempts
    delay,     \* the last sleep of the current post
    \* History variables, read by no action of the code:
    asked,     \* attempts of the current post that reached the network
    served     \* what the network had under each key when its chunk was answered

network == <<ledger, upstream>>
results == <<found, latest, closed>>
loop    == <<attempt, asleep, delay>>
vars    == <<retries, network, call, outcome, keys, todo, results, loop, asked, served>>

Min(a, b) == IF a < b THEN a ELSE b

\* A request is a list of different keys.
KeyLists == UNION {{s \in [1 .. n -> Keys] : \A i, j \in 1 .. n : s[i] = s[j] => i = j} :
                     n \in 1 .. Cardinality(Keys)}

Init ==
    /\ retries \in Retries
    /\ ledger = 1
    /\ upstream \in [Keys -> {Absent, 1}]
    /\ call = "none" /\ outcome = "ok"
    /\ keys = <<>> /\ todo = <<>> /\ found = {}
    /\ latest = NoLedger /\ closed = NoLedger
    /\ attempt = 0 /\ asleep = FALSE /\ delay = 0
    /\ asked = 0
    /\ served = [k \in Keys |-> NoLedger]

\* The network closes a ledger, which changes, creates or removes entries.
NetworkCloses ==
    /\ ledger < MaxLedger
    /\ ledger' = ledger + 1
    /\ \E touched \in SUBSET Keys :
         upstream' \in {[k \in Keys |-> IF k \in touched THEN v ELSE upstream[k]] :
                          v \in {Absent, ledger + 1}}
    /\ UNCHANGED <<retries, call, outcome, keys, todo, results, loop, asked, served>>

-------------------------------------------------------------------------------

FreshPost == attempt' = 0 /\ asleep' = FALSE /\ delay' = 0 /\ asked' = 0

\* One call per behaviour: a client keeps nothing from one call to the next.
FetchEntries(ks) ==
    /\ call = "none"
    /\ call' = "entries" /\ outcome' = "running"
    /\ keys' = ks /\ todo' = ks
    /\ UNCHANGED <<retries, network, results, loop, asked, served>>

GetLatestLedger ==
    /\ call = "none"
    /\ call' = "latest" /\ outcome' = "running"
    /\ UNCHANGED <<retries, network, keys, todo, results, loop, asked, served>>

Chunk == {todo[i] : i \in 1 .. Min(MaxKeys, Len(todo))}

\* Fault: each step drops one key more than the chunk holds.
AfterChunk_OffByOne == SubSeq(todo, Min(MaxKeys, Len(todo)) + 2, Len(todo))

AfterChunk == SubSeq(todo, Min(MaxKeys, Len(todo)) + 1, Len(todo))

\* The counters of the loop are u32: retries + 1 wraps in a release build.
TotalAttempts == (retries + 1) % (MaxAttempts + 1)

\* try_once is about to send.
Trying == outcome = "running" /\ ~asleep /\ attempt < TotalAttempts

\* No attempt is left before the first one: the loop does not run.
Exhausted ==
    /\ outcome = "running" /\ ~asleep
    /\ attempt >= TotalAttempts
    /\ outcome' = "transient"
    /\ UNCHANGED <<retries, network, call, keys, todo, results, loop, asked, served>>

\* What the network has under some keys; an absent one is not in the response.
Response(ks) == {[key |-> k, modified |-> upstream[k]] : k \in {k \in ks : upstream[k] # Absent}}

\* getLedgerEntries is answered, in an order that is the server's.
EntriesAnswered ==
    /\ Trying /\ call = "entries"
    /\ found' = found \cup Response(Chunk)
    /\ served' = [k \in Keys |-> IF k \in Chunk THEN upstream[k] ELSE served[k]]
    /\ todo' = AfterChunk
    /\ outcome' = IF AfterChunk = <<>> THEN "ok" ELSE "running"
    /\ FreshPost
    /\ UNCHANGED <<retries, network, call, keys, latest, closed>>

\* getLatestLedger, the first post of get_latest_ledger.
LatestAnswered ==
    /\ Trying /\ call = "latest" /\ latest = NoLedger
    /\ latest' = ledger
    /\ FreshPost
    /\ UNCHANGED <<retries, network, call, outcome, keys, todo, found, closed, served>>

\* The ledgers that the RPC still describes.
Described == {n \in 1 .. ledger : n > ledger - Retention}

\* What heads the page that getLedgers answers when asked for ledger n and those
\* after it.  An RPC that does not describe n any more refuses (RpcError), sends
\* an empty page, or starts with the oldest ledger it has.
HeadOfPage(n) ==
    IF n \in Described THEN {n}
    ELSE {NoLedger} \cup {first \in Described : \A m \in Described : first <= m}

\* Fault: the second post asks for the last ledger instead of the first's.
AskedFor_Last == ledger

\* The ledger of the first post is the one that the second asks for.
AskedFor == latest

\* getLedgers, the second: the head of the page is taken without a look at the
\* ledger it describes, and an empty page is an error.
CloseTimeAnswered ==
    /\ Trying /\ call = "latest" /\ latest # NoLedger
    /\ \E head \in HeadOfPage(AskedFor) :
         IF head = NoLedger
         THEN /\ outcome' = "rpc error"
              /\ asked' = asked + 1
              /\ UNCHANGED <<closed, loop>>
         ELSE /\ closed' = head
              /\ outcome' = "ok"
              /\ FreshPost
    /\ UNCHANGED <<retries, network, call, keys, todo, found, latest, served>>

\* HTTP 200 with a JSON-RPC error or no result, or with an entry that does not
\* decode: the call ends, nothing is retried.
RpcError ==
    /\ Trying
    /\ outcome' = "rpc error"
    /\ asked' = asked + 1
    /\ UNCHANGED <<retries, network, call, keys, todo, results, loop, served>>

\* Any other HTTP status that is neither a success nor retryable.
FatalStatus ==
    /\ Trying
    /\ outcome' = "fatal"
    /\ asked' = asked + 1
    /\ UNCHANGED <<retries, network, call, keys, todo, results, loop, served>>

\* The doubling is in u32, and stays at its largest value from there on.
Saturated(factor) == IF factor \in 0 .. MaxAttempts THEN factor ELSE MaxAttempts

\* Fault: the whole delay is drawn at random, not only the part on top.
BackoffDelays_AllRandom(n) == 0 .. Base * Saturated(2 ^ n)

\* backoff_delay: the base doubled with each attempt, plus less than the base;
\* the sum saturates as well.
BackoffDelays(n) ==
    {Min(Base * Saturated(2 ^ n) + jitter, MaxDelay) :
       jitter \in IF Base = 0 THEN {0} ELSE 0 .. Base - 1}

\* Fault: the last attempt is followed by a sleep and by one attempt more.
TransientFailure_OneMore ==
    /\ outcome = "running" /\ ~asleep /\ attempt < TotalAttempts + 1
    /\ asked' = asked + 1
    /\ IF attempt < TotalAttempts
       THEN /\ attempt' = attempt + 1
            /\ asleep' = TRUE
            /\ delay' \in BackoffDelays(attempt)
            /\ UNCHANGED outcome
       ELSE /\ outcome' = "transient"
            /\ UNCHANGED loop
    /\ UNCHANGED <<retries, network, call, keys, todo, results, served>>

\* Fault: a failure is tried again for as long as it is transient.
TransientFailure_Forever ==
    /\ Trying
    /\ asleep' = TRUE
    /\ delay' \in BackoffDelays(attempt)
    /\ UNCHANGED <<retries, network, call, outcome, keys, todo, results, attempt, asked, served>>

\* No connection, a timeout, HTTP 408, 425, 429 or 5xx, or a body that is not
\* the expected JSON: sleep and try again while attempts are left.
TransientFailure ==
    /\ Trying
    /\ asked' = asked + 1
    /\ IF attempt + 1 < TotalAttempts
       THEN /\ attempt' = attempt + 1
            /\ asleep' = TRUE
            /\ delay' \in BackoffDelays(attempt)
            /\ UNCHANGED outcome
       ELSE /\ outcome' = "transient"
            /\ UNCHANGED loop
    /\ UNCHANGED <<retries, network, call, keys, todo, results, served>>

Wake ==
    /\ asleep
    /\ asleep' = FALSE
    /\ UNCHANGED <<retries, network, call, outcome, keys, todo, results, attempt, delay, asked, served>>

-------------------------------------------------------------------------------

ClientStep ==
    \/ EntriesAnswered \/ LatestAnswered \/ CloseTimeAnswered
    \/ RpcError \/ FatalStatus \/ TransientFailure
    \/ Wake \/ Exhausted

Next ==
    \/ NetworkCloses
    \/ \E ks \in KeyLists : FetchEntries(ks)
    \/ GetLatestLedger
    \/ ClientStep

Spec == Init /\ [][Next]_vars

\* The thread runs, and every attempt ends: reqwest's timeout sees to that.
FairSpec == Spec /\ WF_vars(ClientStep)

-------------------------------------------------------------------------------
(***************************************************************************)
(* Properties.                                                             *)
(***************************************************************************)

TypeOK ==
    /\ retries \in Retries
    /\ ledger \in 1 .. MaxLedger
    /\ upstream \in [Keys -> {Absent} \cup 1 .. MaxLedger]
    /\ call \in {"none", "entries", "latest"}
    /\ outcome \in {"running", "ok", "rpc error", "fatal", "transient"}
    /\ keys \in Seq(Keys) /\ todo \in Seq(Keys)
    /\ found \subseteq [key : Keys, modified : 1 .. MaxLedger]
    /\ latest \in {NoLedger} \cup 1 .. MaxLedger
    /\ closed \in {NoLedger} \cup 1 .. MaxLedger
    /\ attempt \in 0 .. MaxAttempts
    /\ asleep \in BOOLEAN
    /\ delay \in 0 .. MaxDelay
    /\ asked \in 0 .. TotalAttempts
    /\ served \in [Keys -> {NoLedger, Absent} \cup 1 .. MaxLedger]

\* A successful fetch_entries has asked for every key, and returns exactly the
\* entries that existed when their chunk was answered, whatever was retried and
\* whatever the network did between two chunks.
FetchIsComplete ==
    call = "entries" /\ outcome = "ok" =>
      /\ \A i \in DOMAIN keys : served[keys[i]] # NoLedger
      /\ found = {[key |-> keys[i], modified |-> served[keys[i]]] :
                    i \in {i \in DOMAIN keys : served[keys[i]] # Absent}}

\* get_latest_ledger asks for a ledger and for its close time one after the other,
\* and does not see which ledger the time is of.  Yet it returns that ledger's time,
\* unless enough ledgers were closed since the first answer for the RPC to have
\* dropped it; the time is then a later ledger's, never an earlier one's or none.
CloseTimeOfLatest ==
    call = "latest" /\ outcome = "ok" =>
        closed = latest \/ (latest <= ledger - Retention /\ latest < closed)

\* A transient failure is reported only after retries + 1 attempts of its post,
\* as long as the u32 holds that number.
GivesUpAfterAllAttempts ==
    outcome = "transient" /\ retries < MaxAttempts => asked = retries + 1

\* Each sleep of a post is at least as long as the one before, random as they
\* are, until the factor saturates.
BackoffGrows ==
    [][~asleep /\ asleep' /\ attempt > 0 /\ 2 ^ attempt <= MaxAttempts =>
         delay' >= delay]_vars

\* Every call ends.
CallEnds == outcome = "running" ~> outcome # "running"

===============================================================================
