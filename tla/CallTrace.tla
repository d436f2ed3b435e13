------------------------------ MODULE CallTrace ------------------------------
(***************************************************************************)
(* ForkedEnv::trace (src/lib.rs) and Trace::from_events (src/trace.rs):    *)
(* the call tree of the last top-level invocation, rebuilt from the        *)
(* diagnostic events that the host left behind.                            *)
(*                                                                         *)
(* The host is the environment of the parser: contracts call each other,   *)
(* return or fail, and a caller goes on after a failed call (it caught the *)
(* failure) or fails with it.  A fn_call announces every call, a fn_return *)
(* every regular return; a failure is announced by nothing, but marks all  *)
(* the events since the failed call.  What really happened is kept in      *)
(* frames, for the tree to be compared with.                               *)
(***************************************************************************)
EXTENDS Integers, Sequences

CONSTANTS
    MaxCalls,  \* calls of one invocation
    MaxNoise   \* events of one invocation that are no part of its call tree

ASSUME BoundsAssumption == MaxCalls \in Nat /\ MaxNoise \in Nat

\* Frames are numbered from 1 in the order of their calls.
Nobody  == 0   \* the caller of a top-level call
Trapped == 0   \* the result of a frame that did not return

\* An event: its type, its first topic, whether parse_fn_call accepts it, the
\* frame it is about and HostEvent.failed_call.
Event == [diagnostic : BOOLEAN, topic : {"fn_call", "fn_return", "log"},
          wellFormed : BOOLEAN, frame : Nat, failed : BOOLEAN]

\* Events that are not to be taken for calls or returns: a contract's own event
\* with such a topic, a log line, a fn_call whose topics cannot be decoded.
Noise == [diagnostic : {FALSE}, topic : {"fn_call", "fn_return"},
          wellFormed : {TRUE}, frame : {0}, failed : {FALSE}] \cup
         [diagnostic : {TRUE}, topic : {"log", "fn_call"},
          wellFormed : {FALSE}, frame : {0}, failed : {FALSE}]

\* A frame as it was, and a TraceFrame: parent and children in one field.
Frame     == [caller : Nat, outcome : Nat, undone : BOOLEAN]
TraceNode == [call : Nat, parent : Nat, result : Nat, undone : BOOLEAN]

VARIABLES
    phase,      \* "idle", "running" an invocation, "parsing", "parsed"
    tracing,    \* the fork was built with tracing(true)
    events,     \* the host's event buffer
    frames,     \* every frame of the invocation
    open,       \* those that have neither returned nor failed, innermost last
    start,      \* where each frame's fn_call is, or would be, in events
    unwinding,  \* the last thing that happened is that a call failed
    caught,     \* some caller went on after a call that failed
    noise,      \* number of events that are noise
    input,      \* what from_events was given
    next,       \* the event it looks at next
    nodes,      \* the TraceFrames it made
    stack,      \* those that are still open, innermost last
    attached    \* the others, in the order in which they joined the tree

host   == <<events, frames, open, start, unwinding, caught, noise>>
parser == <<input, next, nodes, stack, attached>>
vars   == <<phase, tracing, host, parser>>

Last(s)  == s[Len(s)]
Front(s) == SubSeq(s, 1, Len(s) - 1)
Top(s)   == IF s = <<>> THEN Nobody ELSE Last(s)
Members(s) == {s[i] : i \in DOMAIN s}

Init ==
    /\ phase = "idle"
    /\ tracing \in BOOLEAN
    /\ events = <<>> /\ frames = <<>> /\ open = <<>> /\ start = <<>>
    /\ unwinding = FALSE /\ caught = FALSE /\ noise = 0
    /\ input = <<>> /\ next = 1 /\ nodes = <<>> /\ stack = <<>> /\ attached = <<>>

-------------------------------------------------------------------------------
(* The host.                                                               *)

\* Without tracing the diagnostic level is None and nothing is recorded.
Emit(old, e) == events' = IF tracing THEN Append(old, e) ELSE old

CallEvent(f)   == [diagnostic |-> TRUE, topic |-> "fn_call", wellFormed |-> TRUE,
                   frame |-> f, failed |-> FALSE]
ReturnEvent(f) == [diagnostic |-> TRUE, topic |-> "fn_return", wellFormed |-> TRUE,
                   frame |-> f, failed |-> FALSE]
NewFrame(caller) == [caller |-> caller, outcome |-> Trapped, undone |-> FALSE]

\* A top-level invocation: the buffer is cleared first, and an old trace is of
\* no interest any more.
Invoke ==
    /\ phase \in {"idle", "parsed"}
    /\ phase' = "running"
    /\ frames' = <<NewFrame(Nobody)>>
    /\ open' = <<1>>
    /\ start' = <<1>>
    /\ Emit(<<>>, CallEvent(1))
    /\ unwinding' = FALSE /\ caught' = FALSE /\ noise' = 0
    /\ input' = <<>> /\ next' = 1 /\ nodes' = <<>> /\ stack' = <<>> /\ attached' = <<>>
    /\ UNCHANGED tracing

\* Going on after a failed call means to have caught it.
GoOn ==
    /\ phase = "running"
    /\ unwinding' = FALSE
    /\ caught' = (caught \/ unwinding)

Call ==
    LET f == Len(frames) + 1
    IN  /\ GoOn
        /\ Len(frames) < MaxCalls
        /\ frames' = Append(frames, NewFrame(Last(open)))
        /\ open' = Append(open, f)
        /\ start' = Append(start, Len(events) + 1)
        /\ Emit(events, CallEvent(f))
        /\ UNCHANGED <<phase, tracing, noise, parser>>

\* The invocation is over when its first frame is.
PopFrame ==
    /\ open' = Front(open)
    /\ phase' = IF Len(open) = 1 THEN "idle" ELSE "running"

Return ==
    LET f == Last(open)
    IN  /\ GoOn
        /\ PopFrame
        /\ frames' = [frames EXCEPT ![f].outcome = f]
        /\ Emit(events, ReturnEvent(f))
        /\ UNCHANGED <<tracing, start, noise, parser>>

\* A trap, a panic, an exhausted budget: everything since the call is undone,
\* and its events are marked, the fn_call that announced it among them or not:
\* the parser relies on neither.
Fail ==
    LET f == Last(open)
    IN  /\ phase = "running"
        /\ PopFrame
        /\ unwinding' = TRUE
        /\ frames' = [g \in DOMAIN frames |->
                        [frames[g] EXCEPT !.undone = @ \/ g >= f]]
        /\ \E from \in {start[f], start[f] + 1} :
             events' = [i \in DOMAIN events |->
                          [events[i] EXCEPT !.failed = @ \/ i >= from]]
        /\ UNCHANGED <<tracing, start, caught, noise, parser>>

Publish ==
    /\ GoOn
    /\ noise < MaxNoise
    /\ noise' = noise + 1
    /\ \E e \in Noise : Emit(events, e)
    /\ UNCHANGED <<phase, tracing, frames, open, start, parser>>

\* A fn_return for which no frame is open: all have returned.
Orphan ==
    /\ phase = "idle"
    /\ tracing
    /\ frames # <<>>
    /\ \A f \in DOMAIN frames : frames[f].outcome = f
    /\ noise < MaxNoise
    /\ noise' = noise + 1
    /\ Emit(events, ReturnEvent(0))
    /\ UNCHANGED <<phase, tracing, frames, open, start, unwinding, caught, parser>>

-------------------------------------------------------------------------------
(* The parser.                                                             *)

\* trace(): the events of the last invocation, or none if they cannot be had.
Trace ==
    /\ phase \in {"idle", "parsed"}
    /\ phase' = "parsing"
    /\ input' \in {events, <<>>}
    /\ next' = 1 /\ nodes' = <<>> /\ stack' = <<>> /\ attached' = <<>>
    /\ UNCHANGED <<tracing, host>>

Reading == phase = "parsing" /\ next <= Len(input)
Draining == phase = "parsing" /\ next > Len(input) /\ stack # <<>>

\* Fault: the event's type is not looked at.
IsReturn_AnyType(e) == e.topic = "fn_return"

IsCall(e) == e.diagnostic /\ e.topic = "fn_call" /\ e.wellFormed
IsReturn(e) == e.diagnostic /\ e.topic = "fn_return"

\* Fault: a call whose topics cannot be decoded opens a frame nevertheless.
Skip_Opens ==
    /\ Reading
    /\ ~IsCall(input[next]) /\ ~IsReturn(input[next])
    /\ next' = next + 1
    /\ stack' = IF input[next].diagnostic /\ input[next].topic = "fn_call"
                  THEN Append(stack, Len(nodes) + 1) ELSE stack
    /\ UNCHANGED <<phase, tracing, host, input, nodes, attached>>

\* Contract and system events, other diagnostics, malformed calls.
Skip ==
    /\ Reading
    /\ ~IsCall(input[next]) /\ ~IsReturn(input[next])
    /\ next' = next + 1
    /\ UNCHANGED <<phase, tracing, host, input, nodes, stack, attached>>

PushCall ==
    /\ Reading
    /\ IsCall(input[next])
    /\ nodes' = Append(nodes, [call |-> input[next].frame, parent |-> Nobody,
                               result |-> Trapped, undone |-> input[next].failed])
    /\ stack' = Append(stack, Len(nodes) + 1)
    /\ next' = next + 1
    /\ UNCHANGED <<phase, tracing, host, input, attached>>

\* The innermost open frame gets a result and joins its parent's children, or
\* the roots.
Attach(result, undone) ==
    LET n == Last(stack)
    IN  /\ nodes' = [nodes EXCEPT ![n].parent = Top(Front(stack)),
                                  ![n].result = result,
                                  ![n].undone = @ \/ undone]
        /\ stack' = Front(stack)
        /\ attached' = Append(attached, n)

\* The return is taken for that of the innermost open frame: nothing compares
\* its function or its contract with the frame's.
PopReturn ==
    /\ Reading
    /\ IsReturn(input[next])
    /\ stack # <<>>
    /\ Attach(input[next].frame, input[next].failed)
    /\ next' = next + 1
    /\ UNCHANGED <<phase, tracing, host, input>>

SkipOrphan ==
    /\ Reading
    /\ IsReturn(input[next])
    /\ stack = <<>>
    /\ next' = next + 1
    /\ UNCHANGED <<phase, tracing, host, input, nodes, stack, attached>>

\* Fault: what is still open at the end is dropped.
Drain_Drops ==
    /\ Draining
    /\ stack' = Front(stack)
    /\ UNCHANGED <<phase, tracing, host, input, next, nodes, attached>>

\* What is still open at the end never returned.
Drain ==
    /\ Draining
    /\ Attach(Trapped, TRUE)
    /\ UNCHANGED <<phase, tracing, host, input, next>>

Parsed ==
    /\ phase = "parsing" /\ next > Len(input) /\ stack = <<>>
    /\ phase' = "parsed"
    /\ UNCHANGED <<tracing, host, parser>>

HostStep == Invoke \/ Call \/ Return \/ Fail \/ Publish \/ Orphan
ParserStep == Trace \/ Skip \/ PushCall \/ PopReturn \/ SkipOrphan \/ Drain \/ Parsed

Next == HostStep \/ ParserStep
Spec == Init /\ [][Next]_vars

-------------------------------------------------------------------------------
(***************************************************************************)
(* Properties.                                                             *)
(***************************************************************************)

\* count_frames walks the tree: it counts what was attached.
FrameCount  == Len(attached)
HadFailures == \E n \in Members(attached) :
                   nodes[n].undone \/ nodes[n].result = Trapped

TypeOK ==
    /\ phase \in {"idle", "running", "parsing", "parsed"}
    /\ tracing \in BOOLEAN
    /\ events \in Seq(Event)
    /\ frames \in Seq(Frame)
    /\ open \in Seq(Nat)
    /\ start \in Seq(Nat)
    /\ unwinding \in BOOLEAN
    /\ caught \in BOOLEAN
    /\ noise \in Nat
    /\ input \in Seq(Event)
    /\ next \in Nat \ {0}
    /\ nodes \in Seq(TraceNode)
    /\ stack \in Seq(Nat)
    /\ attached \in Seq(Nat)
    /\ Members(stack) \subseteq DOMAIN nodes
    /\ Members(attached) \subseteq DOMAIN nodes

\* Whatever the stream, paired or not: the result is a forest.  Every call that
\* was read is in it exactly once, under a frame that was called before it.
EachCallOnce ==
    /\ Members(stack) \cup Members(attached) = DOMAIN nodes
    /\ FrameCount + Len(stack) = Len(nodes)
    /\ \A i, j \in DOMAIN attached : i # j => attached[i] # attached[j]
    /\ \A n \in Members(attached) : nodes[n].parent < n

\* The whole stream was read.
Complete == phase = "parsed" /\ tracing /\ input = events

\* The tree is the call tree of the last invocation, and of it alone: the
\* callers, the results, who was rolled back and the order of the children are
\* those of the calls, unless a contract went on after a call that had failed.
TreeIsCallTree ==
    Complete /\ ~caught =>
        /\ Len(nodes) = Len(frames)
        /\ \A f \in DOMAIN frames :
             nodes[f] = [call |-> f, parent |-> frames[f].caller,
                         result |-> frames[f].outcome, undone |-> frames[f].undone]
        /\ \A i, j \in DOMAIN attached :
             i < j /\ nodes[attached[i]].parent = nodes[attached[j]].parent =>
               attached[i] < attached[j]

\* had_failures is right about every stream, caught failures included: it says
\* that something failed exactly if something did.
FailuresNoticed ==
    Complete => (HadFailures <=> \E f \in DOMAIN frames : frames[f].outcome = Trapped)

\* TraceResult: a frame is reported to have trapped exactly if it entered and
\* never returned.
TrappedNeverReturned ==
    Complete =>
        \A f \in DOMAIN nodes :
            nodes[f].result = Trapped <=> frames[nodes[f].call].outcome = Trapped

===============================================================================
