--------------------------- MODULE MCSnapshotSource ---------------------------
(* Small instances of SnapshotSource.                                      *)
EXTENDS SnapshotSource, TLC

CONSTANTS k1, k2, t1, t2

OneKey     == {k1}
TwoKeys    == {k1, k2}
NoAccount  == {}
Account    == {k1}
OneThread  == {t1}
TwoThreads == {t1, t2}
NoLives    == {}
OneLife    == {10}
TwoLives   == {10, 20}

ThreadSymmetry == Permutations(Threads)
===============================================================================
