------------------------------ MODULE CacheFile ------------------------------
(***************************************************************************)
(* The cache file (src/cache.rs) and the forks that live off it: a fork    *)
(* preloads the file when it is built (src/lib.rs), learns entries from    *)
(* the network while it runs, and writes everything it knows back when it  *)
(* is dropped or asked to: first to a temporary file of its own, then, by  *)
(* a rename, over the cache file.  Forks crash at any moment, file         *)
(* operations fail, and several forks may share the file.                  *)
(*                                                                         *)
(* A get is one step here; SnapshotSource has its steps.  Temporary files  *)
(* carry pid and nanoseconds in their names, so each save has its own.     *)
(***************************************************************************)
EXTENDS Integers

CONSTANTS
    Forks,      \* the forks sharing the file: test binaries, servers
    Keys,       \* ledger keys
    TestKeys,   \* those of the test accounts and their trustlines
    Versions,   \* states of an entry on the network
    Local,      \* an entry written by the fork: fork_*, a transaction, minting
    Absent,     \* no entry under the key
    Unasked,    \* the fork has not asked for the key
    Missing,    \* no file
    Malformed   \* a file that does not parse: half written, or not a snapshot

Entries   == Versions \cup {Local}
Snapshots == UNION {[S -> Entries] : S \in SUBSET Keys}

ASSUME TestKeysAssumption == TestKeys \subseteq Keys
ASSUME MarkerAssumption ==
    /\ {Absent, Unasked} \cap Entries = {} /\ Absent # Unasked
    /\ Local \notin Versions
    /\ {Missing, Malformed} \cap Snapshots = {} /\ Missing # Malformed

VARIABLES
    upstream,  \* what the network holds under each key
    file,      \* the cache file
    phase,     \* where each fork is in its life
    cache,     \* its snapshot source
    temp,      \* the temporary file of its save
    leaving,   \* the save is that of a drop: the fork ends with it
    \* History variables, read by no action of the code:
    read,      \* what its build read from the file
    fetched,   \* the keys it has fetched
    touched    \* the keys it has written or removed locally

fork == <<phase, cache, temp, leaving>>
past == <<read, fetched, touched>>
vars == <<upstream, file, fork, past>>

None == [k \in {} |-> Local]

\* What may lie under the file's name before the first fork.
OldFiles == {Missing, Malformed} \cup {[k \in {x} |-> v] : x \in Keys, v \in Versions}

Init ==
    /\ upstream \in [Keys -> Versions \cup {Absent}]
    /\ file \in OldFiles
    /\ phase = [f \in Forks |-> "down"]
    /\ cache = [f \in Forks |-> [k \in Keys |-> Unasked]]
    /\ temp = [f \in Forks |-> Missing]
    /\ leaving = [f \in Forks |-> FALSE]
    /\ read = [f \in Forks |-> None]
    /\ fetched = [f \in Forks |-> {}]
    /\ touched = [f \in Forks |-> {}]

NetworkChanges ==
    /\ \E k \in Keys, v \in Versions \cup {Absent} : upstream' = [upstream EXCEPT ![k] = v]
    /\ UNCHANGED <<file, fork, past>>

-------------------------------------------------------------------------------
(* build.                                                                  *)

\* A life begins with what could be read, which is nothing when there is no
\* file or when reading or parsing it fails: that is logged and survived.
Load(f) ==
    /\ phase[f] = "down"
    /\ \E s \in {None} \cup ({file} \ {Missing, Malformed}) :
         /\ file = Missing => s = None
         /\ cache' = [cache EXCEPT ![f] =
                        [k \in Keys |-> IF k \in DOMAIN s THEN s[k] ELSE Unasked]]
         /\ read' = [read EXCEPT ![f] = s]
    /\ phase' = [phase EXCEPT ![f] = "building"]
    /\ fetched' = [fetched EXCEPT ![f] = {}]
    /\ touched' = [touched EXCEPT ![f] = {}]
    /\ UNCHANGED <<upstream, file, temp, leaving>>

\* The network's metadata cannot be had: no ForkedEnv, hence nothing to drop.
BuildFails(f) ==
    /\ phase[f] = "building"
    /\ phase' = [phase EXCEPT ![f] = "down"]
    /\ UNCHANGED <<upstream, file, cache, temp, leaving, past>>

\* The test accounts are minted over whatever the file held for them.
Built(f) ==
    /\ phase[f] = "building"
    /\ phase' = [phase EXCEPT ![f] = "running"]
    /\ cache' = [cache EXCEPT ![f] = [k \in Keys |-> IF k \in TestKeys THEN Local ELSE @[k]]]
    /\ touched' = [touched EXCEPT ![f] = TestKeys]
    /\ UNCHANGED <<upstream, file, temp, leaving, read, fetched>>

-------------------------------------------------------------------------------
(* The running fork.                                                       *)

\* Fault: a preloaded entry is fetched again, to refresh it.
Fetch_Refreshes(f, k) ==
    /\ phase[f] = "running"
    /\ k \notin fetched[f]
    /\ cache' = [cache EXCEPT ![f][k] = upstream[k]]
    /\ fetched' = [fetched EXCEPT ![f] = @ \cup {k}]
    /\ UNCHANGED <<upstream, file, phase, temp, leaving, read, touched>>

\* A get that misses; one that hits changes nothing.
Fetch(f, k) ==
    /\ phase[f] = "running"
    /\ cache[f][k] = Unasked
    /\ cache' = [cache EXCEPT ![f][k] = upstream[k]]
    /\ fetched' = [fetched EXCEPT ![f] = @ \cup {k}]
    /\ UNCHANGED <<upstream, file, phase, temp, leaving, read, touched>>

\* set_entry, apply_changes or bump_account_seq; the second can remove entries.
Write(f, k, v) ==
    /\ phase[f] = "running"
    /\ cache' = [cache EXCEPT ![f][k] = v]
    /\ touched' = [touched EXCEPT ![f] = @ \cup {k}]
    /\ UNCHANGED <<upstream, file, phase, temp, leaving, read, fetched>>

-------------------------------------------------------------------------------
(* do_save_cache and save_snapshot.                                        *)

\* Fault: the negative markers are exported like entries.
Exported_Markers(f) == [k \in {x \in Keys : cache[f][x] # Unasked} |-> cache[f][k]]

\* What entries() returns: the negative markers stay behind.
Exported(f) == [k \in {x \in Keys : cache[f][x] \in Entries} |-> cache[f][k]]

\* Fault: the cache file itself is created and written.
Create_InPlace(f, drop) ==
    /\ phase[f] = "running"
    /\ leaving' = [leaving EXCEPT ![f] = drop]
    /\ phase' = [phase EXCEPT ![f] = "writing"]
    /\ temp' = [temp EXCEPT ![f] = Malformed]
    /\ file' = Malformed
    /\ UNCHANGED <<upstream, cache, past>>

\* save_cache or drop.  Nothing is written when there is nothing to write.
Create(f, drop) ==
    /\ phase[f] = "running"
    /\ Exported(f) # None
    /\ leaving' = [leaving EXCEPT ![f] = drop]
    /\ phase' = [phase EXCEPT ![f] = "writing"]
    /\ temp' = [temp EXCEPT ![f] = Malformed]
    /\ UNCHANGED <<upstream, file, cache, past>>

DropEmpty(f) ==
    /\ phase[f] = "running"
    /\ Exported(f) = None
    /\ phase' = [phase EXCEPT ![f] = "down"]
    /\ UNCHANGED <<upstream, file, cache, temp, leaving, past>>

Written(f) ==
    /\ phase[f] = "writing"
    /\ phase' = [phase EXCEPT ![f] = "renaming"]
    /\ temp' = [temp EXCEPT ![f] = Exported(f)]
    /\ UNCHANGED <<upstream, file, cache, leaving, past>>

\* The save is over, and with it the fork if it is being dropped.
After(f) == phase' = [phase EXCEPT ![f] = IF leaving[f] THEN "down" ELSE "running"]

\* The disk is full, say: the unfinished temporary file stays behind.
WriteFails(f) ==
    /\ phase[f] = "writing"
    /\ After(f)
    /\ UNCHANGED <<upstream, file, cache, temp, leaving, past>>

Rename(f) ==
    /\ phase[f] = "renaming"
    /\ file' = temp[f]
    /\ temp' = [temp EXCEPT ![f] = Missing]
    /\ After(f)
    /\ UNCHANGED <<upstream, cache, leaving, past>>

RenameFails(f) ==
    /\ phase[f] = "renaming"
    /\ temp' = [temp EXCEPT ![f] = Missing]
    /\ After(f)
    /\ UNCHANGED <<upstream, file, cache, leaving, past>>

\* The process is killed, and its files stay as they are.
Crash(f) ==
    /\ phase[f] # "down"
    /\ phase' = [phase EXCEPT ![f] = "down"]
    /\ UNCHANGED <<upstream, file, cache, temp, leaving, past>>

-------------------------------------------------------------------------------

Next ==
    \/ NetworkChanges
    \/ \E f \in Forks :
         \/ Load(f) \/ BuildFails(f) \/ Built(f)
         \/ \E k \in Keys : Fetch(f, k)
         \/ \E k \in Keys, v \in {Local, Absent} : Write(f, k, v)
         \/ \E drop \in BOOLEAN : Create(f, drop)
         \/ DropEmpty(f)
         \/ Written(f) \/ WriteFails(f) \/ Rename(f) \/ RenameFails(f)
         \/ Crash(f)

Spec == Init /\ [][Next]_vars

-------------------------------------------------------------------------------
(***************************************************************************)
(* Properties.                                                             *)
(***************************************************************************)

TypeOK ==
    /\ upstream \in [Keys -> Versions \cup {Absent}]
    /\ file \in Snapshots \cup {Missing, Malformed}
    /\ phase \in [Forks -> {"down", "building", "running", "writing", "renaming"}]
    /\ cache \in [Forks -> [Keys -> Entries \cup {Absent, Unasked}]]
    /\ temp \in [Forks -> Snapshots \cup {Missing, Malformed}]
    /\ leaving \in [Forks -> BOOLEAN]
    /\ read \in [Forks -> Snapshots]
    /\ fetched \in [Forks -> SUBSET Keys]
    /\ touched \in [Forks -> SUBSET Keys]

\* Whatever crashes or fails, and whoever else saves: a file that can be read
\* stays one that can, it never becomes a half-written one.
FileStaysWhole == [][(file \in Snapshots) => (file' \in Snapshots)]_vars

\* A fork that saves gives back everything its build read, unchanged except
\* for what the fork itself wrote: the captured state survives any number of
\* runs, although the network has moved on.
KeepsWhatItRead ==
    [][\A f \in Forks : phase[f] = "renaming" /\ phase'[f] # "renaming" /\ file' # file =>
         \A k \in DOMAIN read[f] \ touched[f] :
           k \in DOMAIN file' /\ file'[k] = read[f][k]]_vars

\* Only entries that are new to the file are fetched.
OnlyNewFetched == \A f \in Forks : fetched[f] \cap DOMAIN read[f] = {}

\* However a save fails or is cut short, the forks and the file behave as if it
\* were one step that happens or does not, and a get likewise.
Service == INSTANCE CacheService WITH
    Fetchable <- Versions \cup {Absent},
    Writable  <- {Local, Absent},
    stored    <- {file} \ {Missing, Malformed},
    up        <- [f \in Forks |-> phase[f] # "down"],
    cache     <- [f \in Forks |-> IF phase[f] = "down" THEN [k \in Keys |-> Unasked]
                                                       ELSE cache[f]]

ImplementsService == Service!Spec

===============================================================================
