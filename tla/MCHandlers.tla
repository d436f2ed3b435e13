------------------------------ MODULE MCHandlers ------------------------------
(* Small instances of Handlers.                                            *)
EXTENDS Handlers

CONSTANTS c1, c2, a1, zero, w1, w2, v0, v1

TwoClients  == {c1, c2}
OneAccount  == {a1}
OneValue    == {v0}
TwoValues   == {v0, v1}
TwoWasms    == {w1, w2}
NoLives     == {NoTtl}
OnlyNative  == {"native"}
OnlyForeign == {Foreign}
Nothing     == {}

\* The least integer of two bits, as SeqUnit = 2 is one of them.
Int2Min == -2

OnlyMint == {[source |-> a1, call |-> [fn |-> "mint", to |-> a1, amount |-> 1]]}
OnlyPut  == {[source |-> a1, call |-> [fn |-> "put", value |-> v1]]}
===============================================================================
