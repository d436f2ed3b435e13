---------------------------- MODULE CacheFileProofs ----------------------------
(***************************************************************************)
(* Theorems about CacheFile, for any number of forks and any keys.         *)
(*                                                                         *)
(* The file only ever changes by a rename, so what it becomes is what the  *)
(* renaming fork has in its temporary file: KeptInv relates that to the    *)
(* fork's cache, and the cache to what the fork read when it was built.    *)
(***************************************************************************)
EXTENDS CacheFile, TLAPS

\* A fork about to rename has written all that its cache exports.
RenamesExport == \A f \in Forks : phase[f] = "renaming" => temp[f] = Exported(f)

\* A live fork holds what it read, but for the keys it wrote itself; until it is
\* built, it has written none.
HoldsWhatItRead ==
    \A f \in Forks : phase[f] # "down" =>
        \A k \in DOMAIN read[f] : k \notin touched[f] => cache[f][k] = read[f][k]

BuildsUntouched == \A f \in Forks : phase[f] = "building" => touched[f] = {}

KeptInv == TypeOK /\ RenamesExport /\ HoldsWhatItRead /\ BuildsUntouched

\* A live fork knows every key it read, written since or not.
KnowsWhatItRead ==
    \A f \in Forks : phase[f] # "down" =>
        \A k \in DOMAIN read[f] : cache[f][k] # Unasked

NewInv == TypeOK /\ KnowsWhatItRead /\ OnlyNewFetched

-------------------------------------------------------------------------------
(* Facts about snapshots.                                                  *)

\* What a snapshot is, without the UNION.
LEMMA SnapshotParts ==
    ASSUME NEW s \in Snapshots
    PROVE  /\ DOMAIN s \subseteq Keys
           /\ \A k \in DOMAIN s : s[k] \in Entries
BY DEF Snapshots

\* A function from some keys to entries is a snapshot.
LEMMA IsSnapshot ==
    ASSUME NEW S \in SUBSET Keys, NEW s \in [S -> Entries]
    PROVE  s \in Snapshots
BY DEF Snapshots

LEMMA NoneIsSnapshot == None \in Snapshots
<1>1. None \in [{} -> Entries]
  BY DEF None
<1> QED BY <1>1, IsSnapshot

\* The negative markers stay behind: what is exported can be loaded.
LEMMA ExportedIsSnapshot ==
    ASSUME NEW f \in Forks, TypeOK
    PROVE  Exported(f) \in Snapshots
<1> DEFINE S == {x \in Keys : cache[f][x] \in Entries}
<1>1. S \in SUBSET Keys
  OBVIOUS
<1>2. Exported(f) \in [S -> Entries]
  BY DEF Exported
<1> QED BY <1>1, <1>2, IsSnapshot

-------------------------------------------------------------------------------
(* Type correctness.                                                       *)

LEMMA InitTypeOK == Init => TypeOK
<1> SUFFICES ASSUME Init PROVE TypeOK
  OBVIOUS
<1>1. file \in Snapshots \cup {Missing, Malformed}
  <2>1. \/ file \in {Missing, Malformed}
        \/ \E x \in Keys, v \in Versions : file = [k \in {x} |-> v]
    <3>1. file \in OldFiles
      BY DEF Init
    <3> QED BY <3>1 DEF OldFiles
  <2>2. ASSUME NEW x \in Keys, NEW v \in Versions, file = [k \in {x} |-> v]
        PROVE  file \in Snapshots
    <3>1. {x} \in SUBSET Keys /\ file \in [{x} -> Entries]
      BY <2>2 DEF Entries
    <3> QED BY <3>1, IsSnapshot
  <2> QED BY <2>1, <2>2
<1> QED BY <1>1, NoneIsSnapshot DEF Init, TypeOK

LEMMA LoadTypeOK ==
    ASSUME TypeOK, NEW f \in Forks, Load(f)
    PROVE  TypeOK'
<1>1. PICK s \in {None} \cup ({file} \ {Missing, Malformed}) :
        /\ cache' = [cache EXCEPT ![f] =
                       [k \in Keys |-> IF k \in DOMAIN s THEN s[k] ELSE Unasked]]
        /\ read' = [read EXCEPT ![f] = s]
  BY DEF Load
<1>2. s \in Snapshots
  BY <1>1, NoneIsSnapshot DEF TypeOK
<1>3. \A k \in DOMAIN s : s[k] \in Entries
  BY <1>2, SnapshotParts
<1>4. cache' \in [Forks -> [Keys -> Entries \cup {Absent, Unasked}]]
  BY <1>1, <1>3 DEF TypeOK
<1> QED BY <1>1, <1>2, <1>4 DEF Load, TypeOK

LEMMA RunTypeOK ==
    ASSUME TypeOK, NEW f \in Forks,
           \/ BuildFails(f) \/ Built(f)
           \/ \E k \in Keys : Fetch(f, k)
           \/ \E k \in Keys, v \in {Local, Absent} : Write(f, k, v)
    PROVE  TypeOK'
<1>1. CASE BuildFails(f)
  BY <1>1 DEF BuildFails, TypeOK, past
<1>2. CASE Built(f)
  BY <1>2, TestKeysAssumption DEF Built, TypeOK, Entries
<1>3. ASSUME NEW k \in Keys, Fetch(f, k) PROVE TypeOK'
  BY <1>3 DEF Fetch, TypeOK, Entries
<1>4. ASSUME NEW k \in Keys, NEW v \in {Local, Absent}, Write(f, k, v) PROVE TypeOK'
  BY <1>4 DEF Write, TypeOK, Entries
<1> QED BY <1>1, <1>2, <1>3, <1>4

LEMMA SaveTypeOK ==
    ASSUME TypeOK, NEW f \in Forks,
           \/ \E drop \in BOOLEAN : Create(f, drop)
           \/ DropEmpty(f) \/ Written(f) \/ WriteFails(f)
           \/ Rename(f) \/ RenameFails(f) \/ Crash(f)
    PROVE  TypeOK'
<1>e. Exported(f) \in Snapshots
  BY ExportedIsSnapshot
<1>1. ASSUME NEW drop \in BOOLEAN, Create(f, drop) PROVE TypeOK'
  BY <1>1 DEF Create, TypeOK, past
<1>2. CASE DropEmpty(f)
  BY <1>2 DEF DropEmpty, TypeOK, past
<1>3. CASE Written(f)
  BY <1>3, <1>e DEF Written, TypeOK, past
<1>4. CASE WriteFails(f)
  BY <1>4 DEF WriteFails, After, TypeOK, past
<1>5. CASE Rename(f)
  <2>1. file' \in Snapshots \cup {Missing, Malformed}
    BY <1>5 DEF Rename, TypeOK
  <2> QED BY <1>5, <2>1 DEF Rename, After, TypeOK, past
<1>6. CASE RenameFails(f)
  BY <1>6 DEF RenameFails, After, TypeOK, past
<1>7. CASE Crash(f)
  BY <1>7 DEF Crash, TypeOK, past
<1> QED BY <1>1, <1>2, <1>3, <1>4, <1>5, <1>6, <1>7

LEMMA StepTypeOK == TypeOK /\ [Next]_vars => TypeOK'
<1> SUFFICES ASSUME TypeOK, [Next]_vars PROVE TypeOK'
  OBVIOUS
<1>1. CASE NetworkChanges
  BY <1>1 DEF NetworkChanges, TypeOK, fork, past
<1>2. CASE UNCHANGED vars
  BY <1>2 DEF vars, fork, past, TypeOK
<1>3. CASE \E f \in Forks : Load(f)
  BY <1>3, LoadTypeOK
<1> QED BY <1>1, <1>2, <1>3, RunTypeOK, SaveTypeOK DEF Next

\* Type correctness, for any forks sharing the file: in particular the file is
\* missing, malformed or a snapshot, never anything in between.
THEOREM SpecTypeOK == Spec => []TypeOK
<1>1. Spec => Init /\ [][Next]_vars
  BY DEF Spec
<1> QED BY <1>1, InitTypeOK, StepTypeOK, PTL

-------------------------------------------------------------------------------
(* What a save gives back.                                                 *)

LEMMA InitKeptInv == Init => KeptInv
<1> SUFFICES ASSUME Init PROVE KeptInv
  OBVIOUS
<1>1. \A f \in Forks : phase[f] = "down"
  BY DEF Init
<1> QED BY <1>1, InitTypeOK DEF KeptInv, RenamesExport, HoldsWhatItRead, BuildsUntouched

\* A temporary file is finished by Written; until the fork renames it, neither
\* the file nor the cache it exports changes.
LEMMA StepRenamesExport == KeptInv /\ [Next]_vars => RenamesExport'
<1> SUFFICES ASSUME KeptInv, [Next]_vars, NEW f \in Forks, phase'[f] = "renaming"
             PROVE  temp'[f] = Exported(f)'
  BY DEF RenamesExport
<1> USE DEF KeptInv
<1> DEFINE Untouched ==
      phase[f] = "renaming" /\ temp'[f] = temp[f] /\ cache'[f] = cache[f]
<1>1. CASE Untouched
  BY <1>1 DEF RenamesExport, Exported
<1>2. CASE Written(f)
  BY <1>2 DEF Written, Exported, TypeOK
<1>3. ASSUME NEW g \in Forks, Load(g) PROVE Untouched
  BY <1>3 DEF Load, TypeOK
<1>4. ASSUME NEW g \in Forks,
             \/ BuildFails(g) \/ Built(g)
             \/ \E k \in Keys : Fetch(g, k)
             \/ \E k \in Keys, v \in {Local, Absent} : Write(g, k, v)
      PROVE Untouched
  BY <1>4 DEF BuildFails, Built, Fetch, Write, TypeOK
<1>5. ASSUME NEW g \in Forks,
             \/ \E drop \in BOOLEAN : Create(g, drop)
             \/ DropEmpty(g) \/ WriteFails(g)
             \/ Rename(g) \/ RenameFails(g) \/ Crash(g)
      PROVE Untouched
  BY <1>5 DEF Create, DropEmpty, WriteFails, Rename, RenameFails, After, Crash, TypeOK
<1>6. ASSUME NEW g \in Forks, Written(g), g # f PROVE Untouched
  BY <1>6 DEF Written, TypeOK
<1>7. CASE NetworkChanges \/ UNCHANGED vars
  BY <1>1, <1>7 DEF NetworkChanges, vars, fork
<1> QED BY <1>1, <1>2, <1>3, <1>4, <1>5, <1>6, <1>7 DEF Next

\* Load sets the cache from what it reads; after that an entry that was read is
\* known, so it is never fetched, and changes only by a local write or minting.
LEMMA StepHoldsWhatItRead == KeptInv /\ [Next]_vars => HoldsWhatItRead'
<1> SUFFICES ASSUME KeptInv, [Next]_vars, NEW f \in Forks, phase'[f] # "down",
                    NEW k \in DOMAIN read'[f], k \notin touched'[f]
             PROVE  cache'[f][k] = read'[f][k]
  BY DEF HoldsWhatItRead
<1> USE DEF KeptInv
<1> DEFINE Untouched == /\ phase[f] # "down"
                        /\ cache'[f] = cache[f] /\ read'[f] = read[f]
                        /\ touched'[f] = touched[f]
<1>0. /\ read[f] \in Snapshots
      /\ DOMAIN read[f] \subseteq Keys
      /\ \A x \in DOMAIN read[f] : read[f][x] # Unasked
  BY SnapshotParts, MarkerAssumption DEF TypeOK
<1>1. CASE Untouched
  BY <1>1 DEF HoldsWhatItRead
<1>2. ASSUME NEW g \in Forks, Load(g) PROVE cache'[f][k] = read'[f][k]
  <2>1. CASE g # f
    BY <1>1, <1>2, <2>1 DEF Load, TypeOK
  <2>2. CASE g = f
    <3>1. PICK s \in {None} \cup ({file} \ {Missing, Malformed}) :
            /\ cache' = [cache EXCEPT ![f] =
                           [x \in Keys |-> IF x \in DOMAIN s THEN s[x] ELSE Unasked]]
            /\ read' = [read EXCEPT ![f] = s]
      BY <1>2, <2>2 DEF Load
    <3>2. s \in Snapshots
      BY <3>1, NoneIsSnapshot DEF TypeOK
    <3>3. k \in DOMAIN s /\ k \in Keys
      BY <3>1, <3>2, SnapshotParts DEF TypeOK
    <3> QED BY <3>1, <3>3 DEF TypeOK
  <2> QED BY <2>1, <2>2
<1>3. ASSUME NEW g \in Forks, Built(g) PROVE cache'[f][k] = read'[f][k]
  <2>1. CASE g # f
    BY <1>1, <1>3, <2>1 DEF Built, TypeOK
  <2>2. CASE g = f
    <3>1. k \in Keys /\ k \notin TestKeys /\ k \in DOMAIN read[f] /\ read'[f] = read[f]
      BY <1>0, <1>3, <2>2 DEF Built, TypeOK
    <3>2. touched[f] = {} /\ cache[f][k] = read[f][k]
      BY <1>3, <2>2, <3>1 DEF Built, HoldsWhatItRead, BuildsUntouched
    <3> QED BY <1>3, <2>2, <3>1, <3>2 DEF Built, TypeOK
  <2> QED BY <2>1, <2>2
<1>4. ASSUME NEW g \in Forks, NEW x \in Keys, Fetch(g, x)
      PROVE  cache'[f][k] = read'[f][k]
  <2>1. CASE g # f
    BY <1>1, <1>4, <2>1 DEF Fetch, TypeOK
  <2>2. CASE g = f
    <3>1. /\ k \in DOMAIN read[f] /\ k \notin touched[f] /\ read'[f] = read[f]
          /\ phase[f] # "down"
      BY <1>4, <2>2 DEF Fetch
    <3>2. cache[f][k] = read[f][k] /\ cache[f][k] # Unasked
      BY <1>0, <3>1 DEF HoldsWhatItRead
    <3>3. k # x
      BY <1>4, <2>2, <3>2 DEF Fetch
    <3> QED BY <1>4, <2>2, <3>1, <3>2, <3>3 DEF Fetch, TypeOK
  <2> QED BY <2>1, <2>2
<1>5. ASSUME NEW g \in Forks, NEW x \in Keys, NEW v \in {Local, Absent}, Write(g, x, v)
      PROVE  cache'[f][k] = read'[f][k]
  <2>1. CASE g # f
    BY <1>1, <1>5, <2>1 DEF Write, TypeOK
  <2>2. CASE g = f
    <3>1. /\ k \in DOMAIN read[f] /\ k \notin touched[f] /\ read'[f] = read[f]
          /\ phase[f] # "down" /\ k # x
      BY <1>5, <2>2 DEF Write, TypeOK
    <3> QED BY <1>5, <2>2, <3>1 DEF Write, TypeOK, HoldsWhatItRead
  <2> QED BY <2>1, <2>2
<1>6. ASSUME NEW g \in Forks,
             \/ BuildFails(g)
             \/ \E drop \in BOOLEAN : Create(g, drop)
             \/ DropEmpty(g) \/ Written(g) \/ WriteFails(g)
             \/ Rename(g) \/ RenameFails(g) \/ Crash(g)
      PROVE Untouched
  BY <1>6 DEF BuildFails, Create, DropEmpty, Written, WriteFails, Rename, RenameFails,
              After, Crash, TypeOK, past
<1>7. CASE NetworkChanges \/ UNCHANGED vars
  BY <1>1, <1>7 DEF NetworkChanges, vars, fork, past
<1> QED BY <1>1, <1>2, <1>3, <1>4, <1>5, <1>6, <1>7 DEF Next

\* Only Load begins a build, and only a built fork writes.
LEMMA StepBuildsUntouched == KeptInv /\ [Next]_vars => BuildsUntouched'
<1> SUFFICES ASSUME KeptInv, [Next]_vars, NEW f \in Forks, phase'[f] = "building"
             PROVE  touched'[f] = {}
  BY DEF BuildsUntouched
<1> USE DEF KeptInv
<1> DEFINE Untouched == phase[f] = "building" /\ touched'[f] = touched[f]
<1>1. CASE Untouched
  BY <1>1 DEF BuildsUntouched
<1>2. ASSUME NEW g \in Forks, Load(g) PROVE touched'[f] = {}
  BY <1>1, <1>2 DEF Load, TypeOK
<1>3. ASSUME NEW g \in Forks,
             \/ BuildFails(g) \/ Built(g)
             \/ \E k \in Keys : Fetch(g, k)
             \/ \E k \in Keys, v \in {Local, Absent} : Write(g, k, v)
      PROVE Untouched
  BY <1>3 DEF BuildFails, Built, Fetch, Write, TypeOK, past
<1>4. ASSUME NEW g \in Forks,
             \/ \E drop \in BOOLEAN : Create(g, drop)
             \/ DropEmpty(g) \/ Written(g) \/ WriteFails(g)
             \/ Rename(g) \/ RenameFails(g) \/ Crash(g)
      PROVE Untouched
  BY <1>4 DEF Create, DropEmpty, Written, WriteFails, Rename, RenameFails, After,
              Crash, TypeOK, past
<1>5. CASE NetworkChanges \/ UNCHANGED vars
  BY <1>1, <1>5 DEF NetworkChanges, vars, fork, past
<1> QED BY <1>1, <1>2, <1>3, <1>4, <1>5 DEF Next

LEMMA StepKeptInv == KeptInv /\ [Next]_vars => KeptInv'
BY StepTypeOK, StepRenamesExport, StepHoldsWhatItRead, StepBuildsUntouched DEF KeptInv

LEMMA AlwaysKeptInv == Spec => []KeptInv
<1>1. Spec => Init /\ [][Next]_vars
  BY DEF Spec
<1> QED BY <1>1, InitKeptInv, StepKeptInv, PTL

\* The file changes by a rename only, to what the renaming fork exports.
LEMMA FileChanges ==
    ASSUME KeptInv, [Next]_vars, file' # file
    PROVE  \E f \in Forks : Rename(f) /\ file' = Exported(f)
<1>1. \/ NetworkChanges \/ UNCHANGED vars
      \/ \E f \in Forks :
           \/ Load(f) \/ BuildFails(f) \/ Built(f)
           \/ \E k \in Keys : Fetch(f, k)
           \/ \E k \in Keys, v \in {Local, Absent} : Write(f, k, v)
           \/ \E drop \in BOOLEAN : Create(f, drop)
           \/ DropEmpty(f)
           \/ Written(f) \/ WriteFails(f) \/ Rename(f) \/ RenameFails(f)
           \/ Crash(f)
  BY DEF Next
<1>2. \E f \in Forks : Rename(f)
  BY <1>1 DEF NetworkChanges, vars, Load, BuildFails, Built, Fetch, Write, Create,
              DropEmpty, Written, WriteFails, RenameFails, Crash
<1>3. PICK f \in Forks : Rename(f)
  BY <1>2
<1> QED BY <1>3 DEF KeptInv, Rename, RenamesExport

\* Whatever crashes or fails and however many forks save: a file that can be
\* read is only ever replaced, at once, by another one that can.
THEOREM SpecFileStaysWhole == Spec => FileStaysWhole
<1>1. KeptInv /\ [Next]_vars => [(file \in Snapshots) => (file' \in Snapshots)]_vars
  <2> SUFFICES ASSUME KeptInv, [Next]_vars, file \in Snapshots
               PROVE  file' \in Snapshots
    OBVIOUS
  <2>1. CASE file' # file
    BY <2>1, FileChanges, ExportedIsSnapshot DEF KeptInv
  <2> QED BY <2>1
<1>2. Spec => [][Next]_vars
  BY DEF Spec
<1> QED BY <1>1, <1>2, AlwaysKeptInv, PTL DEF FileStaysWhole

\* A save gives back every entry the fork's build read, unchanged unless the
\* fork wrote it, although the network has other states of them by now.
THEOREM SpecKeepsWhatItRead == Spec => KeepsWhatItRead
<1> DEFINE Kept(f) ==
      phase[f] = "renaming" /\ phase'[f] # "renaming" /\ file' # file =>
        \A k \in DOMAIN read[f] \ touched[f] :
          k \in DOMAIN file' /\ file'[k] = read[f][k]
<1>1. KeptInv /\ [Next]_vars => [\A f \in Forks : Kept(f)]_vars
  <2> SUFFICES ASSUME KeptInv, [Next]_vars, NEW f \in Forks,
                      phase[f] = "renaming", phase'[f] # "renaming", file' # file,
                      NEW k \in DOMAIN read[f] \ touched[f]
               PROVE  k \in DOMAIN file' /\ file'[k] = read[f][k]
    OBVIOUS
  <2>1. PICK g \in Forks : Rename(g) /\ file' = Exported(g)
    BY FileChanges
  <2>2. g = f
    BY <2>1 DEF Rename, After, KeptInv, TypeOK
  <2>3. k \in Keys /\ read[f][k] \in Entries
    BY SnapshotParts DEF KeptInv, TypeOK
  <2>4. cache[f][k] = read[f][k]
    BY DEF KeptInv, HoldsWhatItRead
  <2> QED BY <2>1, <2>2, <2>3, <2>4 DEF Exported
<1>2. Spec => [][Next]_vars
  BY DEF Spec
<1> QED BY <1>1, <1>2, AlwaysKeptInv, PTL DEF KeepsWhatItRead

-------------------------------------------------------------------------------
(* What is fetched.                                                        *)

LEMMA InitNewInv == Init => NewInv
<1> SUFFICES ASSUME Init PROVE NewInv
  OBVIOUS
<1>1. \A f \in Forks : phase[f] = "down" /\ fetched[f] = {}
  BY DEF Init
<1> QED BY <1>1, InitTypeOK DEF NewInv, KnowsWhatItRead, OnlyNewFetched

\* Nothing in a fork's life makes a key unknown again.
LEMMA StepKnowsWhatItRead == NewInv /\ [Next]_vars => KnowsWhatItRead'
<1> SUFFICES ASSUME NewInv, [Next]_vars, NEW f \in Forks, phase'[f] # "down",
                    NEW k \in DOMAIN read'[f]
             PROVE  cache'[f][k] # Unasked
  BY DEF KnowsWhatItRead
<1> USE DEF NewInv
<1> DEFINE Known == phase[f] # "down" /\ read'[f] = read[f] /\
                    (cache'[f][k] = cache[f][k] \/ cache'[f][k] # Unasked)
<1>0. DOMAIN read[f] \subseteq Keys
  BY SnapshotParts DEF TypeOK
<1>1. CASE Known
  BY <1>1 DEF KnowsWhatItRead
<1>2. ASSUME NEW g \in Forks, Load(g) PROVE cache'[f][k] # Unasked
  <2>1. CASE g # f
    BY <1>1, <1>2, <2>1 DEF Load, TypeOK
  <2>2. CASE g = f
    <3>1. PICK s \in {None} \cup ({file} \ {Missing, Malformed}) :
            /\ cache' = [cache EXCEPT ![f] =
                           [x \in Keys |-> IF x \in DOMAIN s THEN s[x] ELSE Unasked]]
            /\ read' = [read EXCEPT ![f] = s]
      BY <1>2, <2>2 DEF Load
    <3>2. s \in Snapshots
      BY <3>1, NoneIsSnapshot DEF TypeOK
    <3>3. k \in DOMAIN s /\ k \in Keys /\ s[k] # Unasked
      BY <3>1, <3>2, SnapshotParts, MarkerAssumption DEF TypeOK
    <3> QED BY <3>1, <3>3 DEF TypeOK
  <2> QED BY <2>1, <2>2
<1>3. ASSUME NEW g \in Forks, BuildFails(g) \/ Built(g) PROVE Known
  <2>1. CASE BuildFails(g)
    BY <2>1 DEF BuildFails, TypeOK, past
  <2>2. CASE Built(g)
    <3>1. k \in Keys /\ Local # Unasked
      BY <1>0, <2>2, MarkerAssumption DEF Built, Entries
    <3>2. cache'[f][k] = cache[f][k] \/ cache'[f][k] = Local
      BY <2>2, <3>1 DEF Built, TypeOK
    <3>3. phase[f] # "down" /\ read'[f] = read[f]
      BY <2>2 DEF Built, TypeOK
    <3> QED BY <3>1, <3>2, <3>3
  <2> QED BY <1>3, <2>1, <2>2
<1>4. ASSUME NEW g \in Forks, NEW x \in Keys, Fetch(g, x) PROVE Known
  BY <1>0, <1>4, MarkerAssumption DEF Fetch, TypeOK, Entries
<1>5. ASSUME NEW g \in Forks, NEW x \in Keys, NEW v \in {Local, Absent}, Write(g, x, v)
      PROVE  Known
  BY <1>0, <1>5, MarkerAssumption DEF Write, TypeOK, Entries
<1>6. ASSUME NEW g \in Forks,
             \/ \E drop \in BOOLEAN : Create(g, drop)
             \/ DropEmpty(g) \/ Written(g) \/ WriteFails(g)
             \/ Rename(g) \/ RenameFails(g) \/ Crash(g)
      PROVE Known
  BY <1>6 DEF Create, DropEmpty, Written, WriteFails, Rename, RenameFails, After,
              Crash, TypeOK, past
<1>7. CASE NetworkChanges \/ UNCHANGED vars
  BY <1>1, <1>7 DEF NetworkChanges, vars, fork, past
<1> QED BY <1>1, <1>2, <1>3, <1>4, <1>5, <1>6, <1>7 DEF Next

\* Only an unknown key is fetched, and Load forgets what was.
LEMMA StepOnlyNewFetched == NewInv /\ [Next]_vars => OnlyNewFetched'
<1> SUFFICES ASSUME NewInv, [Next]_vars, NEW f \in Forks
             PROVE  fetched'[f] \cap DOMAIN read'[f] = {}
  BY DEF OnlyNewFetched
<1> USE DEF NewInv
<1> DEFINE Same == fetched'[f] = fetched[f] /\ read'[f] = read[f]
<1>1. CASE Same
  BY <1>1 DEF OnlyNewFetched
<1>2. ASSUME NEW g \in Forks, Load(g) PROVE Same \/ fetched'[f] = {}
  BY <1>2 DEF Load, TypeOK
<1>3. ASSUME NEW g \in Forks, NEW x \in Keys, Fetch(g, x)
      PROVE  Same \/ fetched'[f] \cap DOMAIN read'[f] = {}
  <2>1. CASE g # f
    BY <1>3, <2>1 DEF Fetch, TypeOK
  <2>2. CASE g = f
    <3>1. x \notin DOMAIN read[f]
      BY <1>3, <2>2 DEF Fetch, KnowsWhatItRead
    <3> QED BY <1>3, <2>2, <3>1 DEF Fetch, TypeOK, OnlyNewFetched
  <2> QED BY <2>1, <2>2
<1>4. ASSUME NEW g \in Forks,
             \/ BuildFails(g) \/ Built(g)
             \/ \E k \in Keys, v \in {Local, Absent} : Write(g, k, v)
      PROVE Same
  BY <1>4 DEF BuildFails, Built, Write, past
<1>5. ASSUME NEW g \in Forks,
             \/ \E drop \in BOOLEAN : Create(g, drop)
             \/ DropEmpty(g) \/ Written(g) \/ WriteFails(g)
             \/ Rename(g) \/ RenameFails(g) \/ Crash(g)
      PROVE Same
  BY <1>5 DEF Create, DropEmpty, Written, WriteFails, Rename, RenameFails, Crash, past
<1>6. CASE NetworkChanges \/ UNCHANGED vars
  BY <1>1, <1>6 DEF NetworkChanges, vars, past
<1> QED BY <1>1, <1>2, <1>3, <1>4, <1>5, <1>6 DEF Next

\* No fork asks the network for a key that its file gave it, in any life.
THEOREM SpecOnlyNewFetched == Spec => []OnlyNewFetched
<1>1. NewInv /\ [Next]_vars => NewInv'
  BY StepTypeOK, StepKnowsWhatItRead, StepOnlyNewFetched DEF NewInv
<1>2. NewInv => OnlyNewFetched
  BY DEF NewInv
<1>3. Spec => Init /\ [][Next]_vars
  BY DEF Spec
<1> QED BY <1>1, <1>2, <1>3, InitNewInv, PTL

-------------------------------------------------------------------------------
(* The save in one step.                                                   *)

\* A save under way has something to store.
SavesSomething ==
    \A f \in Forks : phase[f] \in {"writing", "renaming"} =>
        \E k \in Keys : cache[f][k] \in Entries

SaveInv == KeptInv /\ SavesSomething

LEMMA ExportsSomething ==
    ASSUME NEW f \in Forks, Exported(f) # None
    PROVE  \E k \in Keys : cache[f][k] \in Entries
<1> SUFFICES ASSUME \A k \in Keys : cache[f][k] \notin Entries PROVE Exported(f) = None
  OBVIOUS
<1>1. {x \in Keys : cache[f][x] \in Entries} = {}
  OBVIOUS
<1> QED BY <1>1 DEF Exported, None

\* While a fork saves, nothing changes what it holds.
LEMMA StepSavesSomething == SaveInv /\ [Next]_vars => SavesSomething'
<1> SUFFICES ASSUME SaveInv, [Next]_vars, NEW f \in Forks,
                    phase'[f] \in {"writing", "renaming"}
             PROVE  \E k \in Keys : cache'[f][k] \in Entries
  BY DEF SavesSomething
<1> USE DEF SaveInv, KeptInv
<1> DEFINE Saving == phase[f] \in {"writing", "renaming"} /\ cache'[f] = cache[f]
<1>1. CASE Saving
  BY <1>1 DEF SavesSomething
<1>2. ASSUME NEW g \in Forks, NEW drop \in BOOLEAN, Create(g, drop)
      PROVE  Saving \/ \E k \in Keys : cache'[f][k] \in Entries
  <2>1. CASE g # f
    BY <1>2, <2>1 DEF Create, TypeOK
  <2>2. CASE g = f
    BY <1>2, <2>2, ExportsSomething DEF Create
  <2> QED BY <2>1, <2>2
<1>3. ASSUME NEW g \in Forks, Load(g) PROVE Saving
  BY <1>3 DEF Load, TypeOK
<1>4. ASSUME NEW g \in Forks,
             \/ BuildFails(g) \/ Built(g)
             \/ \E k \in Keys : Fetch(g, k)
             \/ \E k \in Keys, v \in {Local, Absent} : Write(g, k, v)
      PROVE Saving
  BY <1>4 DEF BuildFails, Built, Fetch, Write, TypeOK
<1>5. ASSUME NEW g \in Forks,
             \/ DropEmpty(g) \/ Written(g) \/ WriteFails(g)
             \/ Rename(g) \/ RenameFails(g) \/ Crash(g)
      PROVE Saving
  BY <1>5 DEF DropEmpty, Written, WriteFails, Rename, RenameFails, After, Crash, TypeOK
<1>6. CASE NetworkChanges \/ UNCHANGED vars
  BY <1>1, <1>6 DEF NetworkChanges, vars, fork
<1> QED BY <1>1, <1>2, <1>3, <1>4, <1>5, <1>6 DEF Next

LEMMA InitSaveInv == Init => SaveInv
<1> SUFFICES ASSUME Init PROVE SaveInv
  OBVIOUS
<1>1. \A f \in Forks : phase[f] = "down"
  BY DEF Init
<1> QED BY <1>1, InitKeptInv DEF SaveInv, SavesSomething

LEMMA StepSaveInv == SaveInv /\ [Next]_vars => SaveInv'
BY StepKeptInv, StepSavesSomething DEF SaveInv

\* What the file and the forks are to the service.
Stored  == {file} \ {Missing, Malformed}
Up      == [f \in Forks |-> phase[f] # "down"]
Unknown == [k \in Keys |-> Unasked]
Known   == [f \in Forks |-> IF phase[f] = "down" THEN Unknown ELSE cache[f]]

LEMMA ServiceInit == Init => Service!Init
<1> SUFFICES ASSUME Init PROVE Service!Init
  OBVIOUS
<1>1. Up = [f \in Forks |-> FALSE] /\ Known = [f \in Forks |-> Service!Nothing]
  BY DEF Init, Up, Known, Unknown, Service!Nothing
<1>2. Stored \in {{}} \cup {{s} : s \in Service!Snapshots}
  <2>1. file \in Snapshots \cup {Missing, Malformed}
    BY InitTypeOK DEF TypeOK
  <2>2. Snapshots = Service!Snapshots
    BY DEF Snapshots, Service!Snapshots
  <2> QED BY <2>1, <2>2, MarkerAssumption DEF Stored
<1> QED BY <1>1, <1>2 DEF Service!Init, Stored, Up, Known, Unknown

\* A step on the way to a save is none to the service.
LEMMA QuietStep ==
    ASSUME file' = file, cache' = cache,
           \A f \in Forks : phase'[f] = "down" <=> phase[f] = "down"
    PROVE  UNCHANGED Service!vars
<1>1. Up' = Up
  BY DEF Up
<1>2. Known' = Known
  BY DEF Known, Unknown
<1> QED BY <1>1, <1>2 DEF Service!vars, Up, Known, Unknown

\* A fork that goes down forgets what it knew.
LEMMA LeaveStep ==
    ASSUME TypeOK, NEW f \in Forks, cache' = cache, phase[f] # "down",
           phase' = [phase EXCEPT ![f] = "down"]
    PROVE  Service!Leave(f)
<1>1. Up' = [Up EXCEPT ![f] = FALSE]
  BY DEF Up, TypeOK
<1>2. Known' = [Known EXCEPT ![f] = Service!Nothing]
  BY DEF Known, Unknown, Service!Nothing, TypeOK
<1> QED BY <1>1, <1>2 DEF Service!Leave, Up, Known, Unknown

LEMMA EndStep ==
    ASSUME TypeOK, NEW f \in Forks, cache' = cache, file' = file, phase[f] # "down",
           phase' = [phase EXCEPT ![f] = "down"]
    PROVE  Service!Next
<1>1. Service!Leave(f)
  BY LeaveStep
<1>2. Service!End(f)
  BY <1>1 DEF Service!End
<1> QED BY <1>2 DEF Service!Next

LEMMA LoadStep ==
    ASSUME TypeOK, NEW f \in Forks, Load(f)
    PROVE  Service!Next
<1>1. PICK s \in {None} \cup ({file} \ {Missing, Malformed}) :
        cache' = [cache EXCEPT ![f] =
                    [k \in Keys |-> IF k \in DOMAIN s THEN s[k] ELSE Unasked]]
  BY DEF Load
<1> DEFINE loaded == [k \in Keys |-> IF k \in DOMAIN s THEN s[k] ELSE Unasked]
<1>2. Up' = [Up EXCEPT ![f] = TRUE] /\ ~Up[f] /\ Stored' = Stored
  BY DEF Load, Up, Stored, TypeOK
<1>3. Known' = [Known EXCEPT ![f] = loaded] /\ Known[f] = Unknown
  BY <1>1 DEF Load, Known, TypeOK
<1>4. \/ Known' = Known
      \/ \E r \in Stored :
           Known' = [Known EXCEPT ![f] =
                       [k \in Keys |-> IF k \in DOMAIN r THEN r[k] ELSE Unasked]]
  <2>1. CASE s = None
    <3>1. loaded = Unknown
      BY <2>1 DEF None, Unknown
    <3>2. Known' = [Known EXCEPT ![f] = Known[f]]
      BY <1>3, <3>1
    <3> QED BY <3>2 DEF Known
  <2>2. CASE s \in Stored
    BY <1>3, <2>2
  <2> QED BY <2>1, <2>2 DEF Stored
<1>5. Service!Start(f)
  BY <1>2, <1>4 DEF Service!Start, Up, Known, Unknown, Stored
<1> QED BY <1>5 DEF Service!Next

\* Writing and minting put one value under some keys.
LEMMA PutStep ==
    ASSUME TypeOK, NEW f \in Forks, phase[f] # "down", phase'[f] # "down",
           \A g \in Forks : g # f => phase'[g] = phase[g],
           file' = file, NEW S \in SUBSET Keys, NEW v \in {Local, Absent},
           cache' = [cache EXCEPT ![f] = [k \in Keys |-> IF k \in S THEN v ELSE @[k]]]
    PROVE  Service!Next
<1>1. Up' = Up /\ Up[f] /\ Stored' = Stored
  BY DEF Up, Stored
<1>2. Known' = [Known EXCEPT ![f] = [k \in Keys |-> IF k \in S THEN v ELSE @[k]]]
  BY DEF Known, TypeOK, Unknown
<1>3. Service!Put(f, S, v)
  BY <1>1, <1>2 DEF Service!Put, Up, Known, Unknown, Stored
<1> QED BY <1>3 DEF Service!Next

LEMMA FetchStep ==
    ASSUME TypeOK, NEW f \in Forks, NEW k \in Keys, Fetch(f, k)
    PROVE  Service!Next
<1>1. Up' = Up /\ Up[f] /\ Stored' = Stored
  BY DEF Fetch, Up, Stored
<1>2. upstream[k] \in Versions \cup {Absent}
  BY DEF TypeOK
<1>3. Known' = [Known EXCEPT ![f][k] = upstream[k]] /\ Known[f][k] = Unasked
  BY DEF Fetch, Known, TypeOK, Unknown
<1>4. Service!Learn(f, k)
  BY <1>1, <1>2, <1>3 DEF Service!Learn, Up, Known, Unknown, Stored
<1> QED BY <1>4 DEF Service!Next

\* The rename is the moment of the save.
LEMMA RenameStep ==
    ASSUME SaveInv, NEW f \in Forks, Rename(f)
    PROVE  Service!Next
<1>0. TypeOK
  BY DEF SaveInv, KeptInv
<1>1. Known[f] = cache[f] /\ Up[f]
  BY DEF Rename, Known, Up
<1>2. Service!Held(f) = {k \in Keys : cache[f][k] \in Entries}
  BY <1>1 DEF Service!Held, Known, Unknown
<1>3. Service!Held(f) # {}
  BY <1>2 DEF SaveInv, SavesSomething, Rename
<1>4. Stored' = {Exported(f)}
  <2>1. file' = Exported(f)
    BY DEF Rename, SaveInv, KeptInv, RenamesExport
  <2>2. Exported(f) \notin {Missing, Malformed}
    BY <1>0, ExportedIsSnapshot, MarkerAssumption
  <2> QED BY <2>1, <2>2 DEF Stored
<1>5. Exported(f) = [k \in Service!Held(f) |-> Known[f][k]]
  BY <1>1, <1>2 DEF Exported
<1>6. Service!Stay \/ Service!Leave(f)
  <2>1. CASE leaving[f]
    <3>1. phase' = [phase EXCEPT ![f] = "down"] /\ cache' = cache /\ phase[f] # "down"
      BY <2>1 DEF Rename, After
    <3> QED BY <1>0, <3>1, LeaveStep
  <2>2. CASE ~leaving[f]
    <3>1. Up' = Up /\ Known' = Known
      BY <1>0, <2>2 DEF Rename, After, Up, Known, Unknown, TypeOK
    <3> QED BY <3>1 DEF Service!Stay, Up, Known, Unknown
  <2> QED BY <2>1, <2>2
<1>7. Service!Save(f)
  BY <1>1, <1>3, <1>4, <1>5, <1>6 DEF Service!Save, Up, Known, Unknown, Stored
<1> QED BY <1>7 DEF Service!Next

LEMMA NextRefines ==
    ASSUME SaveInv, [Next]_vars
    PROVE  [Service!Next]_(Service!vars)
<1>0. TypeOK
  BY DEF SaveInv, KeptInv
<1>1. CASE NetworkChanges \/ UNCHANGED vars
  <2>1. file' = file /\ cache' = cache /\ phase' = phase
    BY <1>1 DEF NetworkChanges, vars, fork
  <2> QED BY <2>1, QuietStep
<1>2. ASSUME NEW f \in Forks, Load(f) PROVE Service!Next
  BY <1>0, <1>2, LoadStep
<1>3. ASSUME NEW f \in Forks, BuildFails(f) \/ DropEmpty(f) \/ Crash(f) PROVE Service!Next
  <2>1. /\ cache' = cache /\ file' = file /\ phase[f] # "down"
        /\ phase' = [phase EXCEPT ![f] = "down"]
    BY <1>3 DEF BuildFails, DropEmpty, Crash
  <2> QED BY <1>0, <2>1, EndStep
<1>4. ASSUME NEW f \in Forks, Built(f) PROVE Service!Next
  <2>1. /\ phase[f] # "down" /\ phase'[f] # "down" /\ file' = file
        /\ \A g \in Forks : g # f => phase'[g] = phase[g]
        /\ cache' = [cache EXCEPT ![f] =
                       [k \in Keys |-> IF k \in TestKeys THEN Local ELSE @[k]]]
    BY <1>0, <1>4 DEF Built, TypeOK
  <2> QED BY <1>0, <2>1, TestKeysAssumption, PutStep
<1>5. ASSUME NEW f \in Forks, NEW k \in Keys, Fetch(f, k) PROVE Service!Next
  BY <1>0, <1>5, FetchStep
<1>6. ASSUME NEW f \in Forks, NEW x \in Keys, NEW v \in {Local, Absent}, Write(f, x, v)
      PROVE  Service!Next
  <2>1. cache' = [cache EXCEPT ![f] = [k \in Keys |-> IF k \in {x} THEN v ELSE @[k]]]
    BY <1>0, <1>6 DEF Write, TypeOK
  <2>2. /\ phase' = phase /\ phase[f] # "down" /\ file' = file
    BY <1>6 DEF Write
  <2> QED BY <1>0, <2>1, <2>2, PutStep
<1>7. ASSUME NEW f \in Forks, (\E drop \in BOOLEAN : Create(f, drop)) \/ Written(f)
      PROVE  UNCHANGED Service!vars
  <2>1. /\ file' = file /\ cache' = cache
        /\ \A g \in Forks : phase'[g] = "down" <=> phase[g] = "down"
    BY <1>0, <1>7 DEF Create, Written, TypeOK
  <2> QED BY <2>1, QuietStep
<1>8. ASSUME NEW f \in Forks, WriteFails(f) \/ RenameFails(f)
      PROVE  Service!Next \/ UNCHANGED Service!vars
  <2>1. cache' = cache /\ file' = file /\ phase[f] # "down"
    BY <1>8 DEF WriteFails, RenameFails
  <2>2. CASE leaving[f]
    <3>1. phase' = [phase EXCEPT ![f] = "down"]
      BY <1>8, <2>2 DEF WriteFails, RenameFails, After
    <3> QED BY <1>0, <2>1, <3>1, EndStep
  <2>3. CASE ~leaving[f]
    <3>1. \A g \in Forks : phase'[g] = "down" <=> phase[g] = "down"
      BY <1>0, <1>8, <2>1, <2>3 DEF WriteFails, RenameFails, After, TypeOK
    <3> QED BY <2>1, <3>1, QuietStep
  <2> QED BY <2>2, <2>3
<1>9. ASSUME NEW f \in Forks, Rename(f) PROVE Service!Next
  BY <1>9, RenameStep
<1> QED BY <1>1, <1>2, <1>3, <1>4, <1>5, <1>6, <1>7, <1>8, <1>9 DEF Next

\* A save that fails, is cut short or competes with another fork's is to every
\* fork a single step that happened or did not, for any forks and keys.
THEOREM SpecImplementsService == Spec => ImplementsService
<1>1. SaveInv /\ [Next]_vars => [Service!Next]_(Service!vars)
  BY NextRefines
<1> QED BY <1>1, InitSaveInv, StepSaveInv, ServiceInit, PTL
        DEF Spec, ImplementsService, Service!Spec

===============================================================================
