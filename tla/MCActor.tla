------------------------------- MODULE MCActor -------------------------------
(* Small instances of Actor.                                               *)
EXTENDS Actor

CONSTANTS r1, r2, r3

TwoRequests   == {r1, r2}
ThreeRequests == {r1, r2, r3}
===============================================================================
