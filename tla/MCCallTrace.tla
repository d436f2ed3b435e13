----------------------------- MODULE MCCallTrace -----------------------------
(* Instances of CallTrace: its constants are numbers.                      *)
EXTENDS CallTrace
===============================================================================
