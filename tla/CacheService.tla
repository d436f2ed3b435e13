---------------------------- MODULE CacheService ----------------------------
(***************************************************************************)
(* What the cache file promises to the forks that live off it, with the    *)
(* temporary files, the renames and the failing file operations left out:  *)
(* a save is one step, which stores all that the fork holds or nothing.  A *)
(* fork starts with what is stored, or with nothing; it learns only the    *)
(* keys that it does not know; and it may end at any moment.               *)
(***************************************************************************)

CONSTANTS
    Forks,
    Keys,
    Entries,    \* what can be stored under a key
    Fetchable,  \* what the network may answer
    Writable,   \* what a fork itself may put under a key
    Unasked     \* the fork does not know the key

VARIABLES
    stored,  \* the snapshot that can be read, if there is one: a set of at most one
    up,      \* the forks' lives
    cache    \* what each knows

vars == <<stored, up, cache>>

Nothing == [k \in Keys |-> Unasked]

Snapshots == UNION {[S -> Entries] : S \in SUBSET Keys}

Init ==
    /\ stored \in {{}} \cup {{s} : s \in Snapshots}
    /\ up = [f \in Forks |-> FALSE]
    /\ cache = [f \in Forks |-> Nothing]

Start(f) ==
    /\ ~up[f]
    /\ up' = [up EXCEPT ![f] = TRUE]
    /\ \/ cache' = cache
       \/ \E s \in stored :
            cache' = [cache EXCEPT ![f] =
                        [k \in Keys |-> IF k \in DOMAIN s THEN s[k] ELSE Unasked]]
    /\ UNCHANGED stored

Learn(f, k) ==
    /\ up[f]
    /\ cache[f][k] = Unasked
    /\ \E v \in Fetchable : cache' = [cache EXCEPT ![f][k] = v]
    /\ UNCHANGED <<stored, up>>

Put(f, S, v) ==
    /\ up[f]
    /\ cache' = [cache EXCEPT ![f] = [k \in Keys |-> IF k \in S THEN v ELSE @[k]]]
    /\ UNCHANGED <<stored, up>>

Stay == UNCHANGED <<up, cache>>

Leave(f) ==
    /\ up' = [up EXCEPT ![f] = FALSE]
    /\ cache' = [cache EXCEPT ![f] = Nothing]

Held(f) == {k \in Keys : cache[f][k] \in Entries}

Save(f) ==
    /\ up[f]
    /\ Held(f) # {}
    /\ stored' = {[k \in Held(f) |-> cache[f][k]]}
    /\ Stay \/ Leave(f)

\* The fork was dropped with nothing to save, or could not save, or crashed.
End(f) ==
    /\ up[f]
    /\ Leave(f)
    /\ UNCHANGED stored

Next ==
    \E f \in Forks :
       \/ Start(f)
       \/ \E k \in Keys : Learn(f, k)
       \/ \E S \in SUBSET Keys, v \in Writable : Put(f, S, v)
       \/ Save(f)
       \/ End(f)

Spec == Init /\ [][Next]_vars
===============================================================================
