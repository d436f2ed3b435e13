-------------------------------- MODULE Actor --------------------------------
(***************************************************************************)
(* The server's concurrency (src/server/actor.rs, mod.rs): JSON-RPC        *)
(* handlers on a multi-threaded runtime hand commands through a bounded    *)
(* channel to the one thread that owns the environment, each waiting for   *)
(* its reply; and the life of that thread from the fork's build to the     *)
(* cache it saves when the environment is dropped.                         *)
(*                                                                         *)
(* What the commands do to the fork is left to the module Handlers: here a *)
(* request is only the number of commands it sends one after the other.    *)
(***************************************************************************)
EXTENDS Integers, Sequences

CONSTANTS
    Requests,      \* the requests a run of the server may receive
    MaxCommands,   \* the most commands a handler sends: 4, in fork_etch
    Capacity,      \* the mailbox's bound: 32 in the code
    NoRequest      \* the worker is between two commands

ASSUME CapacityAssumption == Capacity \in Nat \ {0}
ASSUME CommandsAssumption == MaxCommands \in Nat \ {0}
ASSUME NoRequestAssumption == NoRequest \notin Requests

VARIABLES
    server,    \* the axum task, and start() before it
    asked,     \* somebody called shutdown(), or sent the signal
    process,   \* "running", or "exited" once main has returned
    worker,    \* the thread owning the environment
    save,      \* what became of the save when the environment was dropped
    mailbox,   \* the channel: requests whose command is queued, oldest first
    current,   \* the request whose command the worker executes
    blocked,   \* senders waiting for room in the channel, in arrival order
    stage,     \* where each handler stands
    total,     \* how many commands its request takes
    done       \* how many of them the worker has executed

lifecycle == <<server, asked, process, save>>
requests  == <<stage, total, done>>
vars == <<lifecycle, worker, mailbox, current, blocked, requests>>

Active == {"blocked", "queued", "replied"}

\* The worker holds the receiving end until it leaves worker_loop.
ReceiverAlive == worker \in {"building", "idle", "busy"}

\* Handlers and router gone, no sender is left and the channel is closed.
SendersGone == server \in {"stopped", "refused"}

Queued(r) == r = current \/ \E i \in DOMAIN mailbox : mailbox[i] = r

\* s without r, which is in it at most once.
Without(s, r) ==
    IF \E i \in DOMAIN s : s[i] = r
    THEN LET p == CHOOSE i \in DOMAIN s : s[i] = r
         IN  [i \in 1 .. Len(s) - 1 |-> IF i < p THEN s[i] ELSE s[i + 1]]
    ELSE s

Init ==
    /\ server = "starting"
    /\ asked = FALSE
    /\ process = "running"
    /\ worker = "building"
    /\ save = "pending"
    /\ mailbox = <<>>
    /\ current = NoRequest
    /\ blocked = <<>>
    /\ stage = [r \in Requests |-> "new"]
    /\ total = [r \in Requests |-> 0]
    /\ done = [r \in Requests |-> 0]

-------------------------------------------------------------------------------
(* start(): the fork is built by the worker before the port is bound.      *)

BuildSucceeds ==
    /\ worker = "building"
    /\ worker' = "idle"
    /\ UNCHANGED <<lifecycle, mailbox, current, blocked, requests>>

\* The build returned an error, or panicked: no environment, nothing to save.
BuildFails ==
    /\ worker = "building"
    /\ worker' = "gone"
    /\ UNCHANGED <<lifecycle, mailbox, current, blocked, requests>>

Bind ==
    /\ server = "starting"
    /\ worker = "idle"
    /\ server' = "serving"
    /\ UNCHANGED <<asked, process, save, worker, mailbox, current, blocked, requests>>

\* start() returns an error: the build failed, or the port cannot be bound, and
\* then the only handle to the worker is dropped.
Refuse ==
    /\ server = "starting"
    /\ worker # "building"
    /\ server' = "refused"
    /\ UNCHANGED <<asked, process, save, worker, mailbox, current, blocked, requests>>

-------------------------------------------------------------------------------
(* A handler: one ActorHandle::send after the other.                       *)

\* How many commands the handler will send depends on the method and on the
\* replies it gets (fork_setBalance stops early when nothing is to be done).
Arrive(r) ==
    /\ server = "serving"
    /\ stage[r] = "new"
    /\ \E n \in 1 .. MaxCommands : total' = [total EXCEPT ![r] = n]
    /\ stage' = [stage EXCEPT ![r] = "blocked"]
    /\ blocked' = Append(blocked, r)
    /\ UNCHANGED <<lifecycle, worker, mailbox, current, done>>

\* Fault: a channel without a bound.
Admit_Unbounded ==
    /\ blocked # <<>>
    /\ ReceiverAlive
    /\ mailbox' = Append(mailbox, Head(blocked))
    /\ stage' = [stage EXCEPT ![Head(blocked)] = "queued"]
    /\ blocked' = Tail(blocked)
    /\ UNCHANGED <<lifecycle, worker, current, total, done>>

\* The channel grants its places in the order they were asked for.
Admit ==
    /\ blocked # <<>>
    /\ ReceiverAlive
    /\ Len(mailbox) < Capacity
    /\ mailbox' = Append(mailbox, Head(blocked))
    /\ stage' = [stage EXCEPT ![Head(blocked)] = "queued"]
    /\ blocked' = Tail(blocked)
    /\ UNCHANGED <<lifecycle, worker, current, total, done>>

\* send on a channel without a receiver: WorkerGone.
SendFails(r) ==
    /\ stage[r] = "blocked"
    /\ ~ReceiverAlive
    /\ stage' = [stage EXCEPT ![r] = "failed"]
    /\ blocked' = Without(blocked, r)
    /\ UNCHANGED <<lifecycle, worker, mailbox, current, total, done>>

\* Fault: a lost reply leaves the handler waiting.
ReplyLost_Ignored(r) ==
    /\ stage[r] = "queued"
    /\ ~Queued(r)
    /\ UNCHANGED vars

\* The command, and the reply's sending end with it, was dropped: WorkerGone.
ReplyLost(r) ==
    /\ stage[r] = "queued"
    /\ ~Queued(r)
    /\ stage' = [stage EXCEPT ![r] = "failed"]
    /\ UNCHANGED <<lifecycle, worker, mailbox, current, blocked, total, done>>

\* Fault: a handler that sends one command too few.
Resume_AnswersEarly(r) ==
    /\ stage[r] = "replied"
    /\ IF done[r] + 1 >= total[r]
       THEN stage' = [stage EXCEPT ![r] = "ok"] /\ UNCHANGED blocked
       ELSE stage' = [stage EXCEPT ![r] = "blocked"] /\ blocked' = Append(blocked, r)
    /\ UNCHANGED <<lifecycle, worker, mailbox, current, total, done>>

\* With its reply in hand the handler answers its client or sends the next.
Resume(r) ==
    /\ stage[r] = "replied"
    /\ IF done[r] = total[r]
       THEN stage' = [stage EXCEPT ![r] = "ok"] /\ UNCHANGED blocked
       ELSE stage' = [stage EXCEPT ![r] = "blocked"] /\ blocked' = Append(blocked, r)
    /\ UNCHANGED <<lifecycle, worker, mailbox, current, total, done>>

\* The client hangs up and the handler's future is dropped where it awaits.  A
\* command it already handed over stays in the mailbox and is executed.
Cancel(r) ==
    /\ stage[r] \in Active
    /\ stage' = [stage EXCEPT ![r] = "cancelled"]
    /\ blocked' = Without(blocked, r)
    /\ UNCHANGED <<lifecycle, worker, mailbox, current, total, done>>

-------------------------------------------------------------------------------
(* worker_loop.                                                            *)

Take ==
    /\ worker = "idle"
    /\ mailbox # <<>>
    /\ worker' = "busy"
    /\ current' = Head(mailbox)
    /\ mailbox' = Tail(mailbox)
    /\ UNCHANGED <<lifecycle, blocked, requests>>

\* Fault: a command that ends in an error goes on to the next without a reply.
Execute_RepliesToSuccess ==
    /\ worker = "busy"
    /\ worker' = "idle"
    /\ current' = NoRequest
    /\ done' = [done EXCEPT ![current] = @ + 1]
    /\ stage' \in {stage, [stage EXCEPT ![current] = IF @ = "queued" THEN "replied" ELSE @]}
    /\ UNCHANGED <<lifecycle, mailbox, blocked, total>>

\* The reply is sent whether or not somebody still waits for it.
Execute ==
    /\ worker = "busy"
    /\ worker' = "idle"
    /\ current' = NoRequest
    /\ done' = [done EXCEPT ![current] = @ + 1]
    /\ stage' = [stage EXCEPT ![current] = IF @ = "queued" THEN "replied" ELSE @]
    /\ UNCHANGED <<lifecycle, mailbox, blocked, total>>

\* A Strict fetch fails in the middle of a command: the thread unwinds, and the
\* receiver is dropped with every command in it.
Panic ==
    /\ worker = "busy"
    /\ worker' = "unwinding"
    /\ current' = NoRequest
    /\ mailbox' = <<>>
    /\ UNCHANGED <<lifecycle, blocked, requests>>

\* Fault: the loop ends only on a flag nobody sets, never on a closed channel.
Close_Never ==
    /\ FALSE
    /\ worker = "idle"
    /\ worker' = "closing"
    /\ UNCHANGED <<lifecycle, mailbox, current, blocked, requests>>

\* The closed channel still hands out what is queued; then the loop ends.
Close ==
    /\ worker = "idle"
    /\ mailbox = <<>>
    /\ SendersGone
    /\ worker' = "closing"
    /\ UNCHANGED <<lifecycle, mailbox, current, blocked, requests>>

\* Dropping the environment saves the cache, on the way out of a panic too: if
\* it has a path and something to save; a failing save is logged and survived.
DropEnv ==
    /\ worker \in {"unwinding", "closing"}
    /\ worker' = "gone"
    /\ save' \in {"done", "nothing", "failed"}
    /\ UNCHANGED <<server, asked, process, mailbox, current, blocked, requests>>

-------------------------------------------------------------------------------
(* Shutdown.                                                               *)

Shutdown ==
    /\ server = "serving"
    /\ server' = "draining"
    /\ asked' = TRUE
    /\ UNCHANGED <<process, save, worker, mailbox, current, blocked, requests>>

\* A RunningServer dropped by its owner drops the sender of the shutdown
\* channel, and the future that waits for the shutdown ends with an error.
DropHandle ==
    /\ server = "serving"
    /\ server' = "draining"
    /\ UNCHANGED <<asked, process, save, worker, mailbox, current, blocked, requests>>

\* axum accepts nothing new and waits for the requests it has.
Stop ==
    /\ server = "draining"
    /\ \A r \in Requests : stage[r] \notin Active
    /\ server' = "stopped"
    /\ UNCHANGED <<asked, process, save, worker, mailbox, current, blocked, requests>>

\* main returns once the server task has ended.  Nobody joins the worker: the
\* process ends where the worker happens to be.
Exit ==
    /\ SendersGone
    /\ process' = "exited"
    /\ UNCHANGED <<server, asked, save, worker, mailbox, current, blocked, requests>>

-------------------------------------------------------------------------------

WorkerStep == Take \/ Execute \/ Panic \/ Close \/ DropEnv

HandlerStep(r) == SendFails(r) \/ ReplyLost(r) \/ Resume(r)

Next ==
    /\ process = "running"
    /\ \/ BuildSucceeds \/ BuildFails \/ Bind \/ Refuse
       \/ \E r \in Requests : Arrive(r) \/ Cancel(r) \/ HandlerStep(r)
       \/ Admit
       \/ WorkerStep
       \/ Shutdown \/ DropHandle \/ Stop \/ Exit

Spec == Init /\ [][Next]_vars

\* The worker thread and the runtime run: a command takes as long as its host
\* call and its bounded upstream calls.  Clients, signals and main owe nothing.
Fairness ==
    /\ WF_vars(process = "running" /\ WorkerStep)
    /\ WF_vars(process = "running" /\ Admit)
    /\ WF_vars(process = "running" /\ Stop)
    /\ \A r \in Requests : WF_vars(process = "running" /\ HandlerStep(r))

FairSpec == Spec /\ Fairness

-------------------------------------------------------------------------------
(***************************************************************************)
(* Properties.                                                             *)
(***************************************************************************)

TypeOK ==
    /\ server \in {"starting", "serving", "draining", "stopped", "refused"}
    /\ asked \in BOOLEAN
    /\ process \in {"running", "exited"}
    /\ worker \in {"building", "idle", "busy", "unwinding", "closing", "gone"}
    /\ save \in {"pending", "done", "nothing", "failed"}
    /\ mailbox \in Seq(Requests) /\ Len(mailbox) <= Capacity
    /\ current \in Requests \cup {NoRequest}
    /\ worker = "busy" <=> current # NoRequest
    /\ blocked \in Seq(Requests)
    /\ stage \in [Requests -> Active \cup {"new", "ok", "failed", "cancelled"}]
    /\ total \in [Requests -> 0 .. MaxCommands]
    /\ done \in [Requests -> Nat]

\* A request is refused only for want of a worker: a full mailbox delays it.
FailureMeansNoWorker ==
    \A r \in Requests : stage[r] = "failed" => ~ReceiverAlive

\* A waiting handler is never forgotten: while the worker lives its command is
\* in the mailbox or being executed, and every handler has at most one there.
WaitingIsQueued ==
    /\ ReceiverAlive => \A r \in Requests : stage[r] = "queued" => Queued(r)
    /\ \A i, j \in DOMAIN mailbox : mailbox[i] = mailbox[j] => i = j
    /\ \A i \in DOMAIN mailbox : mailbox[i] # current

\* The mailbox implements the service: commands are performed at most once, an
\* answer means all of them were, a refusal that some were not and that nothing
\* will be any more, and a client that hangs up stops its request but for the
\* command already handed over.
Service == INSTANCE CommandService WITH
    status  <- [r \in Requests |-> IF stage[r] \in Active THEN "running" ELSE stage[r]],
    pending <- [r \in Requests |-> Queued(r)],
    halted  <- ~ReceiverAlive

ImplementsService == Service!Spec

\* Every request that arrives ends, whatever the worker or the others do.
EveryRequestEnds ==
    \A r \in Requests : stage[r] \in Active ~> stage[r] \in {"ok", "failed", "cancelled"}

\* Once nobody can send any more the worker drops its environment, and comes to
\* the save of the cache, unless the process ends first.
WorkerEnds == SendersGone ~> worker = "gone" \/ process = "exited"

\* After a requested shutdown the process does not end with the cache still to be
\* saved: it is on disk, unless there was nothing to save or the save failed.
SavedOnShutdown == process = "exited" /\ asked => save # "pending"

===============================================================================
