---------------------------- MODULE SourceService ----------------------------
(***************************************************************************)
(* What RpcSnapshotSource promises to an owner who shares it with nobody:  *)
(* a ledger in which the entries that are not known yet are settled when   *)
(* they are first asked for, in one step, and from then on only by the     *)
(* owner's own writes.  How long the network takes and which calls of it   *)
(* fail are left out, but for the failure that a Strict source panics on.  *)
(***************************************************************************)

CONSTANTS
    Keys,
    Values,     \* what a key may hold, absence included
    Fetchable,  \* for each key, what the network may answer
    Strict,
    Unasked,    \* the key is not known yet; there is no reply yet
    NoKey

VARIABLES
    entries,  \* what is known of each key
    asked,    \* the last key asked for
    reply,    \* what was answered
    up

vars == <<entries, asked, reply, up>>

Init ==
    /\ entries = [k \in Keys |-> Unasked]
    /\ asked = NoKey
    /\ reply = Unasked
    /\ up = TRUE

Waiting == up /\ asked # NoKey /\ reply = Unasked
Idle    == up /\ ~Waiting

\* A get of a known key is answered, one of an unknown key has to wait ...
Ask(k) ==
    /\ Idle
    /\ asked' = k
    /\ reply' = entries[k]
    /\ UNCHANGED <<entries, up>>

\* ... and its answer is what every later get of the key is answered with.
Learn ==
    /\ Waiting
    /\ entries[asked] = Unasked
    /\ \E v \in Fetchable[asked] :
         /\ reply' = v
         /\ entries' = [entries EXCEPT ![asked] = v]
    /\ UNCHANGED <<asked, up>>

Panic ==
    /\ Strict
    /\ Waiting
    /\ up' = FALSE
    /\ UNCHANGED <<entries, asked, reply>>

\* Nothing is written while a get waits.
Put(new) ==
    /\ Idle
    /\ entries' = [k \in Keys |-> IF k \in DOMAIN new THEN new[k] ELSE entries[k]]
    /\ UNCHANGED <<asked, reply, up>>

Next ==
    \/ \E k \in Keys : Ask(k)
    \/ Learn
    \/ Panic
    \/ \E S \in SUBSET Keys : \E new \in [S -> Values] : Put(new)

Spec == Init /\ [][Next]_vars
===============================================================================
