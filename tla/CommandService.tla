---------------------------- MODULE CommandService ----------------------------
(***************************************************************************)
(* What the server promises to one JSON-RPC request, with the worker       *)
(* thread, its mailbox and the shutdown left out.  A request is a series   *)
(* of commands against the fork, handed over one at a time.  A command is  *)
(* performed at most once; a request is answered only when all of its      *)
(* commands were performed, and is refused only when the service has       *)
(* halted and some were not; abandoning a request stops it except for the  *)
(* one command it may already have handed over.                            *)
(***************************************************************************)
EXTENDS Integers

CONSTANTS
    Requests,
    MaxCommands   \* bound on the commands of one request

VARIABLES
    status,    \* "new", "running", "ok", "failed" or "cancelled"
    total,     \* how many commands the request consists of
    done,      \* how many of them were performed
    pending,   \* one is handed over and not performed
    halted     \* the service performs nothing any more

vars == <<status, total, done, pending, halted>>

Init ==
    /\ status = [r \in Requests |-> "new"]
    /\ total = [r \in Requests |-> 0]
    /\ done = [r \in Requests |-> 0]
    /\ pending = [r \in Requests |-> FALSE]
    /\ halted = FALSE

Start(r) ==
    /\ status[r] = "new"
    /\ status' = [status EXCEPT ![r] = "running"]
    /\ \E n \in 1 .. MaxCommands : total' = [total EXCEPT ![r] = n]
    /\ UNCHANGED <<done, pending, halted>>

HandOver(r) ==
    /\ status[r] = "running"
    /\ ~pending[r]
    /\ done[r] < total[r]
    /\ ~halted
    /\ pending' = [pending EXCEPT ![r] = TRUE]
    /\ UNCHANGED <<status, total, done, halted>>

Perform(r) ==
    /\ pending[r]
    /\ ~halted
    /\ done' = [done EXCEPT ![r] = @ + 1]
    /\ pending' = [pending EXCEPT ![r] = FALSE]
    /\ UNCHANGED <<status, total, halted>>

Answer(r) ==
    /\ status[r] = "running"
    /\ done[r] = total[r]
    /\ status' = [status EXCEPT ![r] = "ok"]
    /\ UNCHANGED <<total, done, pending, halted>>

Refuse(r) ==
    /\ status[r] = "running"
    /\ halted
    /\ done[r] < total[r]
    /\ status' = [status EXCEPT ![r] = "failed"]
    /\ UNCHANGED <<total, done, pending, halted>>

Abandon(r) ==
    /\ status[r] = "running"
    /\ status' = [status EXCEPT ![r] = "cancelled"]
    /\ UNCHANGED <<total, done, pending, halted>>

Halt ==
    /\ ~halted
    /\ halted' = TRUE
    /\ pending' = [r \in Requests |-> FALSE]
    /\ UNCHANGED <<status, total, done>>

Next ==
    \/ \E r \in Requests : \/ Start(r) \/ HandOver(r) \/ Perform(r)
                           \/ Answer(r) \/ Refuse(r) \/ Abandon(r)
    \/ Halt

Spec == Init /\ [][Next]_vars
===============================================================================
