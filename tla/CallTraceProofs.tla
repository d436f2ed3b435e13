---------------------------- MODULE CallTraceProofs ----------------------------
(***************************************************************************)
(* Theorems about CallTrace, for invocations and event streams of any      *)
(* length, whatever failed in them and whatever was caught.                *)
(*                                                                         *)
(* A TraceFrame is on the stack or attached, never both and never twice:   *)
(* the stack is kept in the order of the calls (Ordered), so that popping  *)
(* its last frame removes just that one, and leaves below it only frames   *)
(* called earlier.                                                         *)
(***************************************************************************)
EXTENDS CallTrace, SequenceTheorems, TLAPS

\* What the host's bookkeeping needs: while an invocation runs, a frame is open.
FramesOpen ==
    /\ phase = "running" => open # <<>>
    /\ \A i \in DOMAIN open : open[i] \in DOMAIN frames
    /\ DOMAIN start = DOMAIN frames

TypeInv == TypeOK /\ FramesOpen

Ordered == \A i, j \in DOMAIN stack : i < j => stack[i] < stack[j]

Apart == \A i \in DOMAIN stack, j \in DOMAIN attached : stack[i] # attached[j]

TreeInv == TypeInv /\ Ordered /\ Apart /\ EachCallOnce

-------------------------------------------------------------------------------
(* Facts about sequences.                                                  *)

LEMMA FrontLast ==
    ASSUME NEW S, NEW s \in Seq(S), s # <<>>
    PROVE  /\ Front(s) \in Seq(S) /\ Last(s) \in S
           /\ Len(s) \in DOMAIN s /\ Last(s) = s[Len(s)]
           /\ Len(Front(s)) = Len(s) - 1
           /\ DOMAIN Front(s) = DOMAIN s \ {Len(s)}
           /\ \A i \in DOMAIN Front(s) : i < Len(s) /\ Front(s)[i] = s[i]
<1>1. Len(s) \in Nat \ {0} /\ DOMAIN s = 1 .. Len(s)
  BY EmptySeq
<1>2. Last(s) \in S /\ Len(s) \in DOMAIN s /\ Last(s) = s[Len(s)]
  BY <1>1 DEF Last
<1>3. /\ Front(s) \in Seq(S) /\ Len(Front(s)) = Len(s) - 1
      /\ \A i \in 1 .. Len(s) - 1 : Front(s)[i] = s[i]
  <2>1. \A i \in 1 .. Len(s) - 1 : i \in 1 .. Len(s) /\ s[i] \in S
    BY <1>1
  <2> QED BY <1>1, <2>1, SubSeqProperties DEF Front
<1>4. DOMAIN Front(s) = 1 .. Len(s) - 1
  BY <1>1, <1>3
<1> QED BY <1>1, <1>2, <1>3, <1>4

LEMMA AppendFacts ==
    ASSUME NEW S, NEW s \in Seq(S), NEW e \in S
    PROVE  /\ Append(s, e) \in Seq(S)
           /\ Len(Append(s, e)) = Len(s) + 1
           /\ DOMAIN Append(s, e) = DOMAIN s \cup {Len(s) + 1}
           /\ \A i \in DOMAIN s : i < Len(s) + 1 /\ Append(s, e)[i] = s[i]
           /\ Append(s, e)[Len(s) + 1] = e
OBVIOUS

\* A function on the positions of a sequence is a sequence of that length.
LEMMA SameLength ==
    ASSUME NEW S, NEW T, NEW s \in Seq(S), NEW g \in [DOMAIN s -> T]
    PROVE  g \in Seq(T) /\ DOMAIN g = DOMAIN s /\ Len(g) = Len(s)
<1>1. Len(s) \in Nat /\ DOMAIN s = 1 .. Len(s)
  OBVIOUS
<1> QED BY <1>1, IsASeq

-------------------------------------------------------------------------------
(* Type correctness.                                                       *)

LEMMA EventsTyped ==
    ASSUME TypeOK
    PROVE  /\ \A f \in Nat : CallEvent(f) \in Event /\ ReturnEvent(f) \in Event
           /\ Noise \subseteq Event
           /\ \A f \in Nat : NewFrame(f) \in Frame
<1>1. \A f \in Nat : CallEvent(f) \in Event /\ ReturnEvent(f) \in Event
  BY DEF CallEvent, ReturnEvent, Event
<1>2. Noise \subseteq Event
  <2>1. /\ {FALSE} \subseteq BOOLEAN /\ {TRUE} \subseteq BOOLEAN
        /\ {0} \subseteq Nat
    OBVIOUS
  <2>2. [diagnostic : {FALSE}, topic : {"fn_call", "fn_return"},
         wellFormed : {TRUE}, frame : {0}, failed : {FALSE}] \subseteq Event
    BY <2>1, Zenon DEF Event
  <2>3. [diagnostic : {TRUE}, topic : {"log", "fn_call"},
         wellFormed : {FALSE}, frame : {0}, failed : {FALSE}] \subseteq Event
    BY <2>1, Zenon DEF Event
  <2> QED BY <2>2, <2>3, Zenon DEF Noise
<1>3. \A f \in Nat : NewFrame(f) \in Frame
  BY DEF NewFrame, Frame, Trapped
<1> QED BY <1>1, <1>2, <1>3

LEMMA EmitTyped ==
    ASSUME NEW old \in Seq(Event), NEW e \in Event, Emit(old, e)
    PROVE  events' \in Seq(Event)
BY DEF Emit

LEMMA InitTypeInv == Init => TypeInv
<1> SUFFICES ASSUME Init PROVE TypeInv
  OBVIOUS
<1>1. /\ events \in Seq(Event) /\ frames \in Seq(Frame) /\ open \in Seq(Nat)
      /\ start \in Seq(Nat) /\ input \in Seq(Event) /\ nodes \in Seq(TraceNode)
      /\ stack \in Seq(Nat) /\ attached \in Seq(Nat)
  BY DEF Init
<1>2. tracing \in BOOLEAN /\ unwinding \in BOOLEAN /\ caught \in BOOLEAN
  BY Zenon DEF Init
<1> QED BY <1>1, <1>2 DEF Init, TypeInv, TypeOK, FramesOpen, Members

LEMMA HostTypeInv ==
    ASSUME TypeInv, HostStep
    PROVE  TypeInv'
<1> USE DEF TypeInv
<1>1. CASE Invoke
  <2>1. events' \in Seq(Event)
    <3>1. <<>> \in Seq(Event) /\ CallEvent(1) \in Event
      BY EventsTyped
    <3> QED BY <1>1, <3>1, EmitTyped DEF Invoke
  <2>2. frames' \in Seq(Frame) /\ Len(frames') = 1
    BY <1>1, EventsTyped DEF Invoke, Nobody
  <2>3. unwinding' \in BOOLEAN /\ caught' \in BOOLEAN
    BY <1>1, Zenon DEF Invoke
  <2>4. TypeOK'
    BY <1>1, <2>1, <2>2, <2>3 DEF Invoke, TypeOK, Members
  <2> QED BY <1>1, <2>2, <2>4 DEF Invoke, FramesOpen
<1>2. ASSUME GoOn PROVE unwinding' \in BOOLEAN /\ caught' \in BOOLEAN
  BY <1>2, Zenon DEF GoOn, TypeOK
<1>3. CASE Call
  <2>1. Last(open) \in Nat /\ Len(frames) + 1 \in Nat
    <3>1. open # <<>> /\ open \in Seq(Nat)
      BY <1>3 DEF Call, GoOn, FramesOpen, TypeOK
    <3>2. Len(frames) \in Nat
      BY DEF TypeOK
    <3>3. Last(open) \in Nat
      BY <3>1, FrontLast
    <3> QED BY <3>2, <3>3
  <2>2. events' \in Seq(Event)
    BY <1>3, <2>1, EventsTyped, EmitTyped DEF Call, TypeOK
  <2>3. frames' \in Seq(Frame) /\ Len(frames') = Len(frames) + 1
    BY <1>3, <2>1, EventsTyped DEF Call, TypeOK
  <2>4. open' \in Seq(Nat) /\ start' \in Seq(Nat) /\ open' # <<>>
    <3>1. open \in Seq(Nat) /\ start \in Seq(Nat) /\ Len(events) + 1 \in Nat
      BY DEF TypeOK
    <3>2. open' = Append(open, Len(frames) + 1) /\ start' = Append(start, Len(events) + 1)
      BY <1>3 DEF Call
    <3>3. Len(open') = Len(open) + 1 /\ open' \in Seq(Nat) /\ start' \in Seq(Nat)
      BY <2>1, <3>1, <3>2, AppendFacts
    <3> QED BY <3>1, <3>3
  <2>5. TypeOK'
    BY <1>2, <1>3, <2>2, <2>3, <2>4 DEF Call, TypeOK, Members, parser
  <2>6. DOMAIN start' = DOMAIN frames'
    BY <1>3 DEF Call, FramesOpen, TypeOK
  <2>7. \A i \in DOMAIN open' : open'[i] \in DOMAIN frames'
    BY <1>3, <2>1, <2>3, AppendFacts DEF Call, FramesOpen, TypeOK
  <2> QED BY <2>4, <2>5, <2>6, <2>7 DEF FramesOpen
<1>4. CASE Return
  <2> DEFINE f == Last(open)
  <2>1. open # <<>> /\ open \in Seq(Nat)
    BY <1>4 DEF Return, GoOn, FramesOpen, TypeOK
  <2>2. f \in Nat /\ f \in DOMAIN frames
    <3>1. f \in Nat /\ Len(open) \in DOMAIN open /\ f = open[Len(open)]
      BY <2>1, FrontLast
    <3> QED BY <3>1 DEF FramesOpen
  <2>3. events' \in Seq(Event)
    BY <1>4, <2>2, EventsTyped, EmitTyped DEF Return, TypeOK
  <2>4. frames' \in Seq(Frame) /\ DOMAIN frames' = DOMAIN frames
    <3>1. frames[f] \in Frame /\ frames \in Seq(Frame)
      BY <2>2 DEF TypeOK
    <3>2. [frames[f] EXCEPT !.outcome = f] \in Frame
      BY <2>2, <3>1 DEF Frame
    <3>3. frames' = [frames EXCEPT ![f] = [frames[f] EXCEPT !.outcome = f]]
      BY <1>4 DEF Return
    <3> QED BY <2>2, <3>1, <3>2, <3>3, ExceptSeq
  <2>5. phase' \in {"idle", "running"} /\ open' \in Seq(Nat)
    BY <1>4, <2>1, FrontLast DEF Return, PopFrame
  <2>6. TypeOK'
    BY <1>2, <1>4, <2>3, <2>4, <2>5 DEF Return, TypeOK, Members, parser
  <2>7. FramesOpen'
    <3>1. /\ DOMAIN open' = DOMAIN open \ {Len(open)}
          /\ \A i \in DOMAIN open' : open'[i] = open[i]
          /\ Len(open') = Len(open) - 1
      BY <1>4, <2>1, FrontLast DEF Return, PopFrame
    <3>2. \A i \in DOMAIN open' : open'[i] \in DOMAIN frames'
      BY <2>4, <3>1 DEF FramesOpen
    <3>3. phase' = "running" => open' # <<>>
      BY <1>4, <2>1, <3>1 DEF Return, PopFrame
    <3> QED BY <1>4, <2>4, <3>2, <3>3 DEF Return, FramesOpen
  <2> QED BY <2>6, <2>7
<1>5. CASE Fail
  <2> DEFINE f == Last(open)
  <2>1. open # <<>> /\ open \in Seq(Nat)
    BY <1>5 DEF Fail, FramesOpen, TypeOK
  <2>2. f \in Nat /\ f \in DOMAIN frames
    <3>1. f \in Nat /\ Len(open) \in DOMAIN open /\ f = open[Len(open)]
      BY <2>1, FrontLast
    <3> QED BY <3>1 DEF FramesOpen
  <2>3. events' \in Seq(Event)
    <3>1. PICK from \in {start[f], start[f] + 1} :
            events' = [i \in DOMAIN events |->
                         [events[i] EXCEPT !.failed = @ \/ i >= from]]
      BY <1>5 DEF Fail
    <3>2. ASSUME NEW i \in DOMAIN events
          PROVE  [events[i] EXCEPT !.failed = @ \/ i >= from] \in Event
      <4>1. events[i] \in Event
        BY DEF TypeOK
      <4>2. (events[i].failed \/ i >= from) \in BOOLEAN
        BY Zenon
      <4> QED BY <4>1, <4>2 DEF Event
    <3>3. events' \in [DOMAIN events -> Event]
      BY <3>1, <3>2
    <3> QED BY <3>3, SameLength DEF TypeOK
  <2>4. frames' \in Seq(Frame) /\ DOMAIN frames' = DOMAIN frames
    <3>1. ASSUME NEW g \in DOMAIN frames
          PROVE  [frames[g] EXCEPT !.undone = @ \/ g >= f] \in Frame
      <4>1. frames[g] \in Frame
        BY DEF TypeOK
      <4>2. (frames[g].undone \/ g >= f) \in BOOLEAN
        BY Zenon
      <4> QED BY <4>1, <4>2 DEF Frame
    <3>2. frames' \in [DOMAIN frames -> Frame]
      BY <1>5, <3>1 DEF Fail
    <3> QED BY <3>2, SameLength DEF TypeOK
  <2>5. phase' \in {"idle", "running"} /\ open' \in Seq(Nat)
    BY <1>5, <2>1, FrontLast DEF Fail, PopFrame
  <2>6. unwinding' \in BOOLEAN
    BY <1>5, Zenon DEF Fail
  <2>7. TypeOK'
    BY <1>5, <2>3, <2>4, <2>5, <2>6 DEF Fail, TypeOK, Members, parser
  <2>8. FramesOpen'
    <3>1. /\ DOMAIN open' = DOMAIN open \ {Len(open)}
          /\ \A i \in DOMAIN open' : open'[i] = open[i]
          /\ Len(open') = Len(open) - 1
      BY <1>5, <2>1, FrontLast DEF Fail, PopFrame
    <3>2. \A i \in DOMAIN open' : open'[i] \in DOMAIN frames'
      BY <2>4, <3>1 DEF FramesOpen
    <3>3. phase' = "running" => open' # <<>>
      BY <1>5, <2>1, <3>1 DEF Fail, PopFrame
    <3> QED BY <1>5, <2>4, <3>2, <3>3 DEF Fail, FramesOpen
  <2> QED BY <2>7, <2>8
<1>6. CASE Publish
  <2>1. events' \in Seq(Event)
    BY <1>6, EventsTyped, EmitTyped DEF Publish, TypeOK
  <2>2. noise' \in Nat
    BY <1>6 DEF Publish, TypeOK
  <2> QED BY <1>2, <1>6, <2>1, <2>2 DEF Publish, TypeOK, FramesOpen, Members, parser
<1>7. CASE Orphan
  <2>1. events' \in Seq(Event)
    BY <1>7, EventsTyped, EmitTyped DEF Orphan, TypeOK
  <2>2. noise' \in Nat
    BY <1>7 DEF Orphan, TypeOK
  <2> QED BY <1>7, <2>1, <2>2 DEF Orphan, TypeOK, FramesOpen, Members, parser
<1> QED BY <1>1, <1>3, <1>4, <1>5, <1>6, <1>7 DEF HostStep

-------------------------------------------------------------------------------
(* The parser: what its two ways of changing the tree do.                  *)

LEMMA MembersFront ==
    ASSUME NEW S, NEW s \in Seq(S), s # <<>>
    PROVE  Members(s) = Members(Front(s)) \cup {Last(s)}
<1>1. /\ Len(s) \in DOMAIN s /\ Last(s) = s[Len(s)]
      /\ DOMAIN Front(s) = DOMAIN s \ {Len(s)}
      /\ \A i \in DOMAIN Front(s) : Front(s)[i] = s[i]
  BY FrontLast
<1> QED BY <1>1 DEF Members

LEMMA MembersAppend ==
    ASSUME NEW s \in Seq(Nat), NEW e \in Nat, NEW t, t = Append(s, e)
    PROVE  t \in Seq(Nat) /\ Members(t) = Members(s) \cup {e}
<1>1. /\ t \in Seq(Nat)
      /\ DOMAIN t = DOMAIN s \cup {Len(s) + 1}
      /\ \A i \in DOMAIN s : t[i] = s[i]
      /\ t[Len(s) + 1] = e
  BY AppendFacts
<1> QED BY <1>1, Zenon DEF Members

\* Attach changes the innermost open frame and moves it.
LEMMA Attaching ==
    ASSUME TypeOK, stack # <<>>, NEW result \in Nat, NEW undone \in BOOLEAN,
           Attach(result, undone)
    PROVE  /\ nodes' \in Seq(TraceNode) /\ DOMAIN nodes' = DOMAIN nodes
           /\ Len(nodes') = Len(nodes)
           /\ Last(stack) \in DOMAIN nodes
           /\ nodes'[Last(stack)].parent = Top(Front(stack))
           /\ \A m \in DOMAIN nodes : m # Last(stack) => nodes'[m] = nodes[m]
           /\ stack' \in Seq(Nat) /\ stack' = Front(stack)
           /\ attached' \in Seq(Nat) /\ attached' = Append(attached, Last(stack))
           /\ Members(stack') \subseteq DOMAIN nodes
           /\ Members(attached') \subseteq DOMAIN nodes
<1> DEFINE n == Last(stack)
<1>1. /\ nodes \in Seq(TraceNode) /\ stack \in Seq(Nat) /\ attached \in Seq(Nat)
      /\ Members(stack) \subseteq DOMAIN nodes
      /\ Members(attached) \subseteq DOMAIN nodes
  BY DEF TypeOK
<1>2. Front(stack) \in Seq(Nat) /\ n \in Nat
  BY <1>1, FrontLast
<1>3. Top(Front(stack)) \in Nat
  <2>1. CASE Front(stack) = <<>>
    BY <2>1 DEF Top, Nobody
  <2>2. CASE Front(stack) # <<>>
    <3>1. Last(Front(stack)) \in Nat
      BY <1>2, <2>2, FrontLast
    <3> QED BY <2>2, <3>1 DEF Top
  <2> QED BY <2>1, <2>2
<1>4. Members(stack) = Members(Front(stack)) \cup {n}
  BY <1>1, MembersFront
<1>5. n \in DOMAIN nodes
  BY <1>1, <1>4
<1>6. Members(attached') = Members(attached) \cup {n} /\ attached' \in Seq(Nat)
  <2>1. attached' = Append(attached, n)
    BY DEF Attach
  <2> QED BY <1>1, <1>2, <2>1, MembersAppend
<1> DEFINE new == [nodes[n] EXCEPT !.parent = Top(Front(stack)), !.result = result,
                                   !.undone = @ \/ undone]
<1>7. new \in TraceNode /\ new.parent = Top(Front(stack))
  <2>1. nodes[n] \in TraceNode
    BY <1>1, <1>5
  <2>2. (nodes[n].undone \/ undone) \in BOOLEAN
    BY Zenon
  <2> QED BY <1>3, <2>1, <2>2 DEF TraceNode
<1>8. nodes' = [nodes EXCEPT ![n] = new]
  BY <1>1, <1>5 DEF Attach
<1>9. nodes' \in Seq(TraceNode) /\ DOMAIN nodes' = DOMAIN nodes /\ Len(nodes') = Len(nodes)
  BY <1>1, <1>5, <1>7, <1>8, ExceptSeq
<1>10. nodes'[n] = new /\ \A m \in DOMAIN nodes : m # n => nodes'[m] = nodes[m]
  BY <1>1, <1>5, <1>8
<1>11. stack' = Front(stack) /\ attached' = Append(attached, n)
  BY DEF Attach
<1> QED BY <1>1, <1>2, <1>4, <1>5, <1>6, <1>7, <1>9, <1>10, <1>11

\* PushCall makes a frame, the last one, and opens it.
LEMMA Pushing ==
    ASSUME TypeOK, PushCall
    PROVE  /\ nodes' \in Seq(TraceNode)
           /\ Len(nodes) + 1 \notin DOMAIN nodes
           /\ Len(nodes') = Len(nodes) + 1
           /\ DOMAIN nodes' = DOMAIN nodes \cup {Len(nodes) + 1}
           /\ \A m \in DOMAIN nodes : m < Len(nodes) + 1 /\ nodes'[m] = nodes[m]
           /\ stack' \in Seq(Nat) /\ stack' = Append(stack, Len(nodes) + 1)
           /\ Members(stack') = Members(stack) \cup {Len(nodes) + 1}
<1>1. /\ nodes \in Seq(TraceNode) /\ stack \in Seq(Nat) /\ input \in Seq(Event)
      /\ Len(nodes) + 1 \in Nat
  BY DEF TypeOK
<1> DEFINE new == [call |-> input[next].frame, parent |-> Nobody,
                   result |-> Trapped, undone |-> input[next].failed]
<1>2. new \in TraceNode
  <2>1. next \in DOMAIN input
    <3>1. IsCall(input[next]) /\ next \in Nat /\ next <= Len(input)
      BY DEF PushCall, Reading, TypeOK
    <3>2. next >= 1
      BY DEF PushCall, TypeOK, Reading
    <3> QED BY <1>1, <3>1, <3>2
  <2>2. input[next] \in Event
    BY <1>1, <2>1
  <2>3. input[next].failed \in BOOLEAN /\ input[next].frame \in Nat
    BY <2>2 DEF Event
  <2> QED BY <2>3 DEF TraceNode, Nobody, Trapped
<1>3. nodes' = Append(nodes, new) /\ stack' = Append(stack, Len(nodes) + 1)
  BY DEF PushCall
<1>4. /\ nodes' \in Seq(TraceNode)
      /\ Len(nodes') = Len(nodes) + 1
      /\ DOMAIN nodes' = DOMAIN nodes \cup {Len(nodes) + 1}
      /\ \A m \in DOMAIN nodes : m < Len(nodes) + 1 /\ nodes'[m] = nodes[m]
  BY <1>1, <1>2, <1>3, AppendFacts
<1>5. stack' \in Seq(Nat) /\ Members(stack') = Members(stack) \cup {Len(nodes) + 1}
  BY <1>1, <1>3, MembersAppend
<1>6. Len(nodes) + 1 \notin DOMAIN nodes
  BY <1>1
<1> QED BY <1>3, <1>4, <1>5, <1>6

LEMMA InputTyped ==
    ASSUME TypeOK, Reading
    PROVE  input[next] \in Event /\ input[next].frame \in Nat
           /\ input[next].failed \in BOOLEAN
<1>1. next \in DOMAIN input /\ input \in Seq(Event)
  BY DEF TypeOK, Reading
<1>2. input[next] \in Event
  BY <1>1
<1> QED BY <1>2 DEF Event

\* Attach in the two actions that do it.
LEMMA AttachSteps ==
    ASSUME TypeOK, PopReturn \/ Drain
    PROVE  /\ stack # <<>>
           /\ \E result \in Nat, undone \in BOOLEAN : Attach(result, undone)
           /\ next' \in Nat \ {0}
           /\ UNCHANGED <<phase, tracing, host, input>>
<1>1. CASE PopReturn
  <2>1. Reading
    BY <1>1 DEF PopReturn
  <2>2. /\ stack # <<>> /\ next' = next + 1 /\ UNCHANGED <<phase, tracing, host, input>>
        /\ Attach(input[next].frame, input[next].failed)
    BY <1>1 DEF PopReturn
  <2>3. next' \in Nat \ {0}
    BY <2>2 DEF TypeOK
  <2>4. input[next].frame \in Nat /\ input[next].failed \in BOOLEAN
    BY <2>1, InputTyped
  <2> QED BY <2>2, <2>3, <2>4, Zenon
<1>2. CASE Drain
  <2>1. /\ stack # <<>> /\ next' = next /\ UNCHANGED <<phase, tracing, host, input>>
        /\ Attach(Trapped, TRUE)
    BY <1>2 DEF Drain, Draining
  <2>2. Trapped \in Nat /\ TRUE \in BOOLEAN
    BY DEF Trapped
  <2>3. next' \in Nat \ {0}
    BY <2>1 DEF TypeOK
  <2> QED BY <2>1, <2>2, <2>3, Zenon
<1> QED BY <1>1, <1>2

LEMMA ParserTypeInv ==
    ASSUME TypeInv, ParserStep
    PROVE  TypeInv'
<1> USE DEF TypeInv
<1>1. CASE Trace
  <2>1. input' \in Seq(Event)
    <3>1. events \in Seq(Event) /\ <<>> \in Seq(Event)
      BY DEF TypeOK
    <3> QED BY <1>1, <3>1 DEF Trace
  <2>2. /\ next' = 1 /\ nodes' = <<>> /\ stack' = <<>> /\ attached' = <<>>
        /\ phase' = "parsing" /\ UNCHANGED <<tracing, host>>
    BY <1>1 DEF Trace
  <2> QED BY <2>1, <2>2 DEF TypeOK, FramesOpen, Members, host
<1>2. CASE Skip \/ SkipOrphan
  <2>1. next' = next + 1 /\ UNCHANGED <<phase, tracing, host, input, nodes, stack, attached>>
    BY <1>2 DEF Skip, SkipOrphan
  <2> QED BY <2>1 DEF TypeOK, FramesOpen, Members, host
<1>3. CASE PushCall
  <2>1. /\ nodes' \in Seq(TraceNode) /\ stack' \in Seq(Nat)
        /\ DOMAIN nodes' = DOMAIN nodes \cup {Len(nodes) + 1}
        /\ Members(stack') = Members(stack) \cup {Len(nodes) + 1}
    BY <1>3, Pushing
  <2>2. next' = next + 1 /\ UNCHANGED <<phase, tracing, host, input, attached>>
    BY <1>3 DEF PushCall
  <2>3. Members(stack') \subseteq DOMAIN nodes' /\ Members(attached') \subseteq DOMAIN nodes'
    BY <2>1, <2>2 DEF TypeOK, Members
  <2> QED BY <2>1, <2>2, <2>3 DEF TypeOK, FramesOpen, host
<1>4. CASE PopReturn \/ Drain
  <2>1. /\ stack # <<>> /\ next' \in Nat \ {0} /\ UNCHANGED <<phase, tracing, host, input>>
    BY <1>4, AttachSteps
  <2>2. PICK result \in Nat, undone \in BOOLEAN : Attach(result, undone)
    BY <1>4, AttachSteps
  <2>3. /\ nodes' \in Seq(TraceNode) /\ DOMAIN nodes' = DOMAIN nodes
        /\ stack' \in Seq(Nat) /\ attached' \in Seq(Nat)
        /\ Members(stack') \subseteq DOMAIN nodes
        /\ Members(attached') \subseteq DOMAIN nodes
    BY <2>1, <2>2, Attaching
  <2> QED BY <2>1, <2>3 DEF TypeOK, FramesOpen, host
<1>5. CASE Parsed
  BY <1>5 DEF Parsed, TypeOK, FramesOpen, Members, host, parser
<1> QED BY <1>1, <1>2, <1>3, <1>4, <1>5 DEF ParserStep

LEMMA NextTypeInv == TypeInv /\ [Next]_vars => TypeInv'
<1> SUFFICES ASSUME TypeInv, [Next]_vars PROVE TypeInv'
  OBVIOUS
<1>1. CASE UNCHANGED vars
  BY <1>1 DEF TypeInv, TypeOK, FramesOpen, Members, vars, host, parser
<1> QED BY <1>1, HostTypeInv, ParserTypeInv DEF Next

\* The buffers, the frames and the parser's tree keep their types, and what is on
\* the stack or attached has been made.
THEOREM SpecTypeOK == Spec => []TypeOK
<1>1. TypeInv => TypeOK
  BY DEF TypeInv
<1> QED BY <1>1, InitTypeInv, NextTypeInv, PTL DEF Spec

-------------------------------------------------------------------------------
(* Every call once.                                                        *)

LEMMA InitTreeInv == Init => TreeInv
<1> SUFFICES ASSUME Init PROVE TreeInv
  OBVIOUS
<1>1. TypeInv
  BY InitTypeInv
<1> QED BY <1>1 DEF Init, TreeInv, Ordered, Apart, EachCallOnce, FrameCount, Members

\* The tree is made from the buffers alone: a new one, or one that stays.
LEMMA TreeStays ==
    ASSUME TreeInv, TypeInv', UNCHANGED <<nodes, stack, attached>>
    PROVE  TreeInv'
BY DEF TreeInv, Ordered, Apart, EachCallOnce, FrameCount, Members

LEMMA TreeCleared ==
    ASSUME TypeInv', nodes' = <<>>, stack' = <<>>, attached' = <<>>
    PROVE  TreeInv'
BY DEF TreeInv, Ordered, Apart, EachCallOnce, FrameCount, Members

LEMMA PushTreeInv ==
    ASSUME TreeInv, TypeInv', PushCall
    PROVE  TreeInv'
<1> DEFINE new == Len(nodes) + 1
<1>1. /\ stack \in Seq(Nat) /\ nodes \in Seq(TraceNode) /\ attached \in Seq(Nat)
      /\ Members(stack) \subseteq DOMAIN nodes
      /\ Members(attached) \subseteq DOMAIN nodes
      /\ new \in Nat
  BY DEF TreeInv, TypeInv, TypeOK
<1>2. /\ new \notin DOMAIN nodes
      /\ Len(nodes') = Len(nodes) + 1
      /\ DOMAIN nodes' = DOMAIN nodes \cup {new}
      /\ \A m \in DOMAIN nodes : m < new /\ nodes'[m] = nodes[m]
      /\ stack' = Append(stack, new)
      /\ Members(stack') = Members(stack) \cup {new}
  BY <1>1, Pushing DEF TreeInv, TypeInv
<1>3. attached' = attached
  BY DEF PushCall
<1>4. /\ DOMAIN stack' = DOMAIN stack \cup {Len(stack) + 1}
      /\ Len(stack') = Len(stack) + 1
      /\ \A i \in DOMAIN stack : i < Len(stack) + 1 /\ stack'[i] = stack[i]
      /\ stack'[Len(stack) + 1] = new
  BY <1>1, <1>2, AppendFacts
<1>5. \A i \in DOMAIN stack : stack[i] \in DOMAIN nodes
  BY <1>1 DEF Members
<1>6. \A j \in DOMAIN attached : attached[j] \in DOMAIN nodes
  BY <1>1 DEF Members
<1>7. Ordered'
  <2> SUFFICES ASSUME NEW i \in DOMAIN stack', NEW j \in DOMAIN stack', i < j
               PROVE  stack'[i] < stack'[j]
    BY DEF Ordered
  <2>1. i \in DOMAIN stack
    BY <1>1, <1>4
  <2>2. CASE j = Len(stack) + 1
    BY <1>2, <1>4, <1>5, <2>1, <2>2
  <2>3. CASE j \in DOMAIN stack
    BY <1>4, <2>1, <2>3 DEF TreeInv, Ordered
  <2> QED BY <1>4, <2>2, <2>3
<1>8. Apart'
  <2> SUFFICES ASSUME NEW i \in DOMAIN stack', NEW j \in DOMAIN attached
               PROVE  stack'[i] # attached[j]
    BY <1>3 DEF Apart
  <2>1. CASE i = Len(stack) + 1
    BY <1>2, <1>4, <1>6, <2>1
  <2>2. CASE i \in DOMAIN stack
    BY <1>4, <2>2 DEF TreeInv, Apart
  <2> QED BY <1>4, <2>1, <2>2
<1>9. EachCallOnce'
  <2>1. (Members(stack) \cup Members(attached) = DOMAIN nodes)'
    BY <1>2, <1>3 DEF TreeInv, EachCallOnce, Members
  <2>2. (FrameCount + Len(stack) = Len(nodes))'
    <3>1. Len(attached) + Len(stack) = Len(nodes)
      BY DEF TreeInv, EachCallOnce, FrameCount
    <3>2. Len(attached) \in Nat /\ Len(stack) \in Nat /\ Len(nodes) \in Nat
      BY <1>1
    <3>3. Len(attached') = Len(attached)
      BY <1>3
    <3>4. Len(attached') + Len(stack') = Len(nodes')
      BY <1>2, <1>4, <3>1, <3>2, <3>3
    <3> QED BY <3>4 DEF FrameCount
  <2>3. \A n \in Members(attached) : nodes'[n].parent < n
    BY <1>1, <1>2 DEF TreeInv, EachCallOnce
  <2>4. \A i, j \in DOMAIN attached : i # j => attached[i] # attached[j]
    BY DEF TreeInv, EachCallOnce
  <2> QED BY <1>3, <2>1, <2>2, <2>3, <2>4 DEF EachCallOnce, Members
<1> QED BY <1>7, <1>8, <1>9 DEF TreeInv

LEMMA AttachTreeInv ==
    ASSUME TreeInv, TypeInv', PopReturn \/ Drain
    PROVE  TreeInv'
<1> DEFINE n == Last(stack)
<1>1. /\ stack \in Seq(Nat) /\ nodes \in Seq(TraceNode) /\ attached \in Seq(Nat)
      /\ Members(attached) \subseteq DOMAIN nodes
      /\ stack # <<>>
  BY AttachSteps DEF TreeInv, TypeInv, TypeOK
<1>2. PICK result \in Nat, undone \in BOOLEAN : Attach(result, undone)
  BY AttachSteps DEF TreeInv, TypeInv
<1>3. /\ DOMAIN nodes' = DOMAIN nodes /\ Len(nodes') = Len(nodes)
      /\ n \in DOMAIN nodes
      /\ nodes'[n].parent = Top(Front(stack))
      /\ \A m \in DOMAIN nodes : m # n => nodes'[m] = nodes[m]
      /\ stack' = Front(stack) /\ attached' = Append(attached, n)
  BY <1>1, <1>2, Attaching DEF TreeInv, TypeInv
<1>4. /\ n = stack[Len(stack)] /\ n \in Nat /\ Len(stack) \in DOMAIN stack
      /\ stack' \in Seq(Nat)
      /\ Len(stack') = Len(stack) - 1
      /\ DOMAIN stack' = DOMAIN stack \ {Len(stack)}
      /\ \A i \in DOMAIN stack' : i < Len(stack) /\ stack'[i] = stack[i]
  <2>1. /\ Last(stack) = stack[Len(stack)] /\ Last(stack) \in Nat
        /\ Len(stack) \in DOMAIN stack /\ Front(stack) \in Seq(Nat)
        /\ Len(Front(stack)) = Len(stack) - 1
        /\ DOMAIN Front(stack) = DOMAIN stack \ {Len(stack)}
        /\ \A i \in DOMAIN Front(stack) : i < Len(stack) /\ Front(stack)[i] = stack[i]
    BY <1>1, FrontLast
  <2> QED BY <1>3, <2>1
<1>5. /\ DOMAIN attached' = DOMAIN attached \cup {Len(attached) + 1}
      /\ Len(attached') = Len(attached) + 1
      /\ \A j \in DOMAIN attached : attached'[j] = attached[j]
      /\ attached'[Len(attached) + 1] = n
  BY <1>1, <1>3, <1>4, AppendFacts
<1>6. \A i \in DOMAIN stack' : stack'[i] < n
  BY <1>4 DEF TreeInv, Ordered
<1>7. \A j \in DOMAIN attached : attached[j] # n
  BY <1>4 DEF TreeInv, Apart
<1>8. Ordered'
  BY <1>4 DEF TreeInv, Ordered
<1>9. Apart'
  <2> SUFFICES ASSUME NEW i \in DOMAIN stack', NEW j \in DOMAIN attached'
               PROVE  stack'[i] # attached'[j]
    BY DEF Apart
  <2>1. CASE j = Len(attached) + 1
    <3>1. stack'[i] < n /\ stack'[i] \in Nat
      BY <1>4, <1>6
    <3> QED BY <1>4, <1>5, <2>1, <3>1
  <2>2. CASE j \in DOMAIN attached
    BY <1>4, <1>5, <2>2 DEF TreeInv, Apart
  <2> QED BY <1>5, <2>1, <2>2
<1>10. Top(stack') < n
  <2>1. CASE stack' = <<>>
    BY <1>1, <1>3, <2>1 DEF Top, Nobody
  <2>2. CASE stack' # <<>>
    <3>1. Len(stack') \in DOMAIN stack' /\ Last(stack') = stack'[Len(stack')]
      BY <1>4, <2>2, FrontLast
    <3> QED BY <1>6, <2>2, <3>1 DEF Top
  <2> QED BY <2>1, <2>2
<1>11. Members(stack) = Members(stack') \cup {n}
  BY <1>1, <1>3, MembersFront
<1>12. Members(attached') = Members(attached) \cup {n}
  BY <1>1, <1>3, <1>4, MembersAppend
<1>13. EachCallOnce'
  <2>1. (Members(stack) \cup Members(attached) = DOMAIN nodes)'
    BY <1>3, <1>11, <1>12 DEF TreeInv, EachCallOnce
  <2>2. (FrameCount + Len(stack) = Len(nodes))'
    <3>1. Len(attached) + Len(stack) = Len(nodes)
      BY DEF TreeInv, EachCallOnce, FrameCount
    <3>2. Len(attached) \in Nat /\ Len(stack) \in Nat /\ Len(nodes) \in Nat
      BY <1>1
    <3>3. /\ Len(attached') = Len(attached) + 1 /\ Len(stack') = Len(stack) - 1
          /\ Len(nodes') = Len(nodes)
      BY <1>3, <1>4, <1>5, Zenon
    <3>4. Len(attached') + Len(stack') = Len(nodes')
      BY <3>1, <3>2, <3>3
    <3> QED BY <3>4 DEF FrameCount
  <2>3. ASSUME NEW i \in DOMAIN attached', NEW j \in DOMAIN attached', i # j
        PROVE  attached'[i] # attached'[j]
    <3>1. CASE i \in DOMAIN attached /\ j \in DOMAIN attached
      BY <1>5, <2>3, <3>1 DEF TreeInv, EachCallOnce
    <3>2. CASE i = Len(attached) + 1 /\ j \in DOMAIN attached
      BY <1>5, <1>7, <3>2
    <3>3. CASE i \in DOMAIN attached /\ j = Len(attached) + 1
      BY <1>5, <1>7, <3>3
    <3> QED BY <1>5, <2>3, <3>1, <3>2, <3>3
  <2>4. ASSUME NEW m \in Members(attached')
        PROVE  nodes'[m].parent < m
    <3>1. CASE m = n
      BY <1>3, <1>10, <3>1
    <3>2. CASE m # n
      BY <1>1, <1>3, <1>12, <3>2 DEF TreeInv, EachCallOnce
    <3> QED BY <3>1, <3>2
  <2> QED BY <2>1, <2>2, <2>3, <2>4 DEF EachCallOnce
<1> QED BY <1>8, <1>9, <1>13 DEF TreeInv

LEMMA NextTreeInv == TreeInv /\ [Next]_vars => TreeInv'
<1> SUFFICES ASSUME TreeInv, [Next]_vars PROVE TreeInv'
  OBVIOUS
<1>1. TypeInv'
  BY NextTypeInv DEF TreeInv
<1>2. CASE Invoke \/ Trace
  BY <1>1, <1>2, TreeCleared DEF Invoke, Trace
<1>3. CASE Call \/ Return \/ Fail \/ Publish \/ Orphan
  <2>1. UNCHANGED parser
    BY <1>3 DEF Call, Return, Fail, Publish, Orphan
  <2> QED BY <1>1, <2>1, TreeStays DEF parser
<1>4. CASE Skip \/ SkipOrphan \/ Parsed
  BY <1>1, <1>4, TreeStays DEF Skip, SkipOrphan, Parsed, parser
<1>5. CASE PushCall
  BY <1>1, <1>5, PushTreeInv
<1>6. CASE PopReturn \/ Drain
  BY <1>1, <1>6, AttachTreeInv
<1>7. CASE UNCHANGED vars
  BY <1>1, <1>7, TreeStays DEF vars, parser
<1> QED BY <1>2, <1>3, <1>4, <1>5, <1>6, <1>7 DEF Next, HostStep, ParserStep

\* Whatever the host leaves behind, paired or not: every call that is read gets
\* into the tree exactly once, under a frame that was called before it.
THEOREM SpecEachCallOnce == Spec => []EachCallOnce
<1>1. TreeInv => EachCallOnce
  BY DEF TreeInv
<1> QED BY <1>1, InitTreeInv, NextTreeInv, PTL DEF Spec

===============================================================================
