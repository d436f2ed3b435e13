----------------------------- MODULE MCCacheFile -----------------------------
(* Small instances of CacheFile.                                           *)
EXTENDS CacheFile, TLC

CONSTANTS f1, f2, k1, k2

OneFork  == {f1}
TwoForks == {f1, f2}
OneKey   == {k1}
TwoKeys  == {k1, k2}
Nothing  == {}

ForkSymmetry == Permutations(Forks)
===============================================================================
