----------------------------- MODULE CallTreeProofs -----------------------------
(***************************************************************************)
(* Theorems about CallTrace: the tree is the call tree of what really      *)
(* happened (unless a failure was caught), and had_failures is right about *)
(* every invocation, of any length.                                        *)
(*                                                                         *)
(* The tree is compared with frames, which the parser does not see.  What  *)
(* connects the two is the event buffer: HostInv says which facts about    *)
(* the frames can be read off the positions of the events, ParseInv what   *)
(* the parser has made of the events before next.  Nothing of HostInv is   *)
(* about one event alone: a call's caller is the frame before it that has  *)
(* not returned when it is called (Callers), and all that was called       *)
(* within a frame has returned when it returns (Nested).  A caught failure *)
(* breaks Nested, and the parser with it; that failures are noticed even   *)
(* then is a matter of counting: every return is used for one frame at     *)
(* most (ReturnsUsed), so that one frame at least is left without any.     *)
(***************************************************************************)
EXTENDS CallTraceProofs, FiniteSetTheorems

\* es has a fn_return of frame f before position p.
Returned(es, f, p) ==
    \E i \in DOMAIN es : i < p /\ IsReturn(es[i]) /\ es[i].frame = f

-------------------------------------------------------------------------------
(* The event buffer and the frames.                                        *)

\* The fn_calls are those of the frames, in their order.
CallsFound ==
    /\ \A f \in DOMAIN frames :
         /\ start[f] \in DOMAIN events
         /\ IsCall(events[start[f]])
         /\ events[start[f]].frame = f
    /\ \A f, g \in DOMAIN frames : f < g => start[f] < start[g]
    /\ \A i \in DOMAIN events :
         IsCall(events[i]) =>
           events[i].frame \in DOMAIN frames /\ start[events[i].frame] = i

\* A fn_return is an orphan, which comes when all have returned, or that of a
\* frame that returned; a frame that returned has one, and only one.
ReturnsFound ==
    /\ \A i \in DOMAIN events :
         IsReturn(events[i]) =>
           \/ /\ events[i].frame = 0
              /\ \A f \in DOMAIN frames : start[f] < i /\ Returned(events, f, i)
           \/ /\ events[i].frame \in DOMAIN frames
              /\ frames[events[i].frame].outcome # Trapped
              /\ start[events[i].frame] < i
    /\ \A i, j \in DOMAIN events :
         IsReturn(events[i]) /\ IsReturn(events[j])
           /\ events[i].frame = events[j].frame /\ events[i].frame # 0 => i = j
    /\ \A f \in DOMAIN frames :
         frames[f].outcome # Trapped =>
           frames[f].outcome = f /\ Returned(events, f, Len(events) + 1)

OpenFrames ==
    /\ \A i, j \in DOMAIN open : i < j => open[i] < open[j]
    /\ \A i \in DOMAIN open : frames[open[i]].outcome = Trapped
    /\ phase # "running" => open = <<>>

\* A frame that is over without having returned was undone; there is one exactly
\* if a failure is on its way up or was caught, and nothing is undone or marked
\* as long as there is none.
FailuresKept ==
    /\ \A f \in DOMAIN frames :
         frames[f].outcome = Trapped /\ f \notin Members(open) => frames[f].undone
    /\ caught \/ unwinding =>
         \E f \in DOMAIN frames : frames[f].outcome = Trapped /\ f \notin Members(open)
    /\ ~(caught \/ unwinding) =>
         /\ \A f \in DOMAIN frames : frames[f].undone = FALSE
         /\ \A i \in DOMAIN events : events[i].failed = FALSE

\* What was called within a frame has returned when the frame returns.
Nested ==
    \A i \in DOMAIN events, f \in DOMAIN frames :
      IsReturn(events[i]) /\ events[i].frame \in DOMAIN frames
        /\ events[i].frame < f /\ start[f] < i => Returned(events, f, i)

\* A frame's caller is the last frame before it that has not returned by then.
CalledBy(f, c) ==
    /\ c < f
    /\ c # Nobody => ~Returned(events, c, start[f])
    /\ \A h \in DOMAIN frames : c < h /\ h < f => Returned(events, h, start[f])

Callers == \A f \in DOMAIN frames : CalledBy(f, frames[f].caller)

\* A frame that returned was undone if its fn_call or its fn_return is marked.
Rollbacks ==
    \A i \in DOMAIN events :
      IsReturn(events[i]) /\ events[i].frame \in DOMAIN frames =>
        LET g == events[i].frame
        IN  frames[g].undone <=> (events[start[g]].failed \/ events[i].failed)

Paired == Nested /\ Callers /\ Rollbacks

HostInv ==
    tracing => /\ CallsFound /\ ReturnsFound /\ OpenFrames /\ FailuresKept
               /\ ~caught => Paired

-------------------------------------------------------------------------------
(* Facts about events.                                                     *)

\* The types of what HostInv is about.
HostTypes ==
    /\ events \in Seq(Event) /\ DOMAIN events = 1 .. Len(events) /\ Len(events) \in Nat
    /\ frames \in Seq(Frame) /\ DOMAIN frames = 1 .. Len(frames) /\ Len(frames) \in Nat
    /\ open \in Seq(Nat) /\ DOMAIN open = 1 .. Len(open) /\ Len(open) \in Nat
    /\ start \in Seq(Nat) /\ DOMAIN start = DOMAIN frames /\ Len(start) = Len(frames)
    /\ \A i \in DOMAIN events :
         events[i] \in Event /\ events[i].frame \in Nat /\ events[i].failed \in BOOLEAN
    /\ \A f \in DOMAIN frames :
         /\ frames[f] \in Frame /\ frames[f].caller \in Nat
         /\ frames[f].outcome \in Nat /\ frames[f].undone \in BOOLEAN
         /\ start[f] \in Nat
    /\ \A i \in DOMAIN open : open[i] \in DOMAIN frames /\ open[i] \in Members(open)
    /\ \A f \in Members(open) : \E i \in DOMAIN open : open[i] = f

LEMMA HostTyped == TypeInv => HostTypes
<1> SUFFICES ASSUME TypeInv PROVE HostTypes
  OBVIOUS
<1>1. /\ events \in Seq(Event) /\ frames \in Seq(Frame) /\ open \in Seq(Nat)
      /\ start \in Seq(Nat) /\ DOMAIN start = DOMAIN frames
      /\ \A i \in DOMAIN open : open[i] \in DOMAIN frames
  BY DEF TypeInv, TypeOK, FramesOpen
<1>2. /\ DOMAIN events = 1 .. Len(events) /\ Len(events) \in Nat
      /\ DOMAIN frames = 1 .. Len(frames) /\ Len(frames) \in Nat
      /\ DOMAIN open = 1 .. Len(open) /\ Len(open) \in Nat
      /\ DOMAIN start = 1 .. Len(start) /\ Len(start) \in Nat
  BY <1>1
<1>3. Len(start) = Len(frames)
  BY <1>1, <1>2
<1>4. ASSUME NEW i \in DOMAIN events
      PROVE  events[i] \in Event /\ events[i].frame \in Nat /\ events[i].failed \in BOOLEAN
  <2>1. events[i] \in Event
    BY <1>1
  <2> QED BY <2>1 DEF Event
<1>5. ASSUME NEW f \in DOMAIN frames
      PROVE  /\ frames[f] \in Frame /\ frames[f].caller \in Nat
             /\ frames[f].outcome \in Nat /\ frames[f].undone \in BOOLEAN
             /\ start[f] \in Nat
  <2>1. frames[f] \in Frame /\ start[f] \in Nat
    BY <1>1
  <2> QED BY <2>1 DEF Frame
<1>6. /\ \A i \in DOMAIN open : open[i] \in Members(open)
      /\ \A f \in Members(open) : \E i \in DOMAIN open : open[i] = f
  BY DEF Members
<1> QED BY <1>1, <1>2, <1>3, <1>4, <1>5, <1>6 DEF HostTypes

\* What the parser takes the host's events for.
LEMMA EventKinds ==
    /\ \A f : /\ IsCall(CallEvent(f)) /\ ~IsReturn(CallEvent(f))
              /\ CallEvent(f).frame = f /\ CallEvent(f).failed = FALSE
              /\ IsReturn(ReturnEvent(f)) /\ ~IsCall(ReturnEvent(f))
              /\ ReturnEvent(f).frame = f /\ ReturnEvent(f).failed = FALSE
    /\ \A e \in Noise : ~IsCall(e) /\ ~IsReturn(e) /\ e.failed = FALSE
    /\ \A e : ~(IsCall(e) /\ IsReturn(e))
<1>1. ASSUME NEW f
      PROVE  /\ IsCall(CallEvent(f)) /\ ~IsReturn(CallEvent(f))
             /\ CallEvent(f).frame = f /\ CallEvent(f).failed = FALSE
             /\ IsReturn(ReturnEvent(f)) /\ ~IsCall(ReturnEvent(f))
             /\ ReturnEvent(f).frame = f /\ ReturnEvent(f).failed = FALSE
  BY DEF IsCall, IsReturn, CallEvent, ReturnEvent
<1>2. ASSUME NEW e \in Noise PROVE ~IsCall(e) /\ ~IsReturn(e) /\ e.failed = FALSE
  <2>1. CASE e \in [diagnostic : {FALSE}, topic : {"fn_call", "fn_return"},
                    wellFormed : {TRUE}, frame : {0}, failed : {FALSE}]
    <3>1. e.diagnostic = FALSE /\ e.failed = FALSE
      BY <2>1
    <3> QED BY <3>1 DEF IsCall, IsReturn
  <2>2. CASE e \in [diagnostic : {TRUE}, topic : {"log", "fn_call"},
                    wellFormed : {FALSE}, frame : {0}, failed : {FALSE}]
    <3>1. e.wellFormed = FALSE /\ e.failed = FALSE /\ e.topic \in {"log", "fn_call"}
      BY <2>2
    <3> QED BY <3>1 DEF IsCall, IsReturn
  <2> QED BY <2>1, <2>2 DEF Noise
<1>3. \A e : ~(IsCall(e) /\ IsReturn(e))
  BY DEF IsCall, IsReturn
<1> QED BY <1>1, <1>2, <1>3

LEMMA ReturnedLater ==
    ASSUME NEW es \in Seq(Event), NEW f, NEW p \in Nat, NEW q \in Nat, p <= q,
           Returned(es, f, p)
    PROVE  Returned(es, f, q)
BY DEF Returned

\* An event that is appended changes what was returned at the very end only.
LEMMA ReturnedAppend ==
    ASSUME NEW es \in Seq(Event), NEW e \in Event, NEW f
    PROVE  /\ \A p \in Nat : p <= Len(es) + 1 =>
                (Returned(Append(es, e), f, p) <=> Returned(es, f, p))
           /\ Returned(Append(es, e), f, Len(es) + 2)
                <=> Returned(es, f, Len(es) + 1) \/ (IsReturn(e) /\ e.frame = f)
<1> DEFINE t == Append(es, e)
<1>1. /\ Len(es) \in Nat /\ DOMAIN es = 1 .. Len(es)
      /\ DOMAIN t = DOMAIN es \cup {Len(es) + 1}
      /\ \A i \in DOMAIN es : i < Len(es) + 1 /\ t[i] = es[i]
      /\ t[Len(es) + 1] = e
  BY AppendFacts
<1> HIDE DEF t
<1>2. \A p \in Nat : p <= Len(es) + 1 => (Returned(t, f, p) <=> Returned(es, f, p))
  BY <1>1 DEF Returned
<1>3. Returned(t, f, Len(es) + 2) <=> Returned(es, f, Len(es) + 1) \/ (IsReturn(e) /\ e.frame = f)
  BY <1>1 DEF Returned
<1> QED BY <1>2, <1>3 DEF t

\* While an invocation runs, its innermost open frame is the last of the open
\* ones, and no orphan has come.
LEMMA Running ==
    ASSUME TypeInv, HostInv, tracing, phase = "running"
    PROVE  /\ Last(open) \in DOMAIN frames /\ Last(open) \in Members(open)
           /\ Last(open) \in Nat /\ Last(open) # 0
           /\ frames[Last(open)].outcome = Trapped
           /\ \A f \in Members(open) : f <= Last(open) /\ f \in DOMAIN frames
           /\ \A p : ~Returned(events, Last(open), p)
           /\ \A i \in DOMAIN events :
                IsReturn(events[i]) => /\ events[i].frame \in DOMAIN frames
                                       /\ frames[events[i].frame].outcome # Trapped
                                       /\ start[events[i].frame] < i
<1> DEFINE c == Last(open)
<1>1. HostTypes /\ open # <<>> /\ ReturnsFound /\ OpenFrames
  BY HostTyped DEF HostInv, TypeInv, FramesOpen
<1>2. /\ Len(open) \in DOMAIN open /\ c = open[Len(open)]
  BY <1>1, FrontLast DEF HostTypes
<1>3. /\ c \in DOMAIN frames /\ c \in Members(open)
      /\ frames[c].outcome = Trapped
  BY <1>1, <1>2 DEF HostTypes, OpenFrames
<1>4. c \in Nat /\ c # 0
  BY <1>1, <1>3 DEF HostTypes
<1>5. ASSUME NEW f \in Members(open) PROVE f <= c /\ f \in DOMAIN frames
  <2>1. PICK i \in DOMAIN open : open[i] = f
    BY <1>1 DEF HostTypes
  <2>2. f \in DOMAIN frames /\ i \in 1 .. Len(open)
    BY <1>1, <2>1 DEF HostTypes
  <2>3. i < Len(open) => open[i] < c
    BY <1>1, <1>2 DEF OpenFrames
  <2> QED BY <1>1, <1>2, <1>3, <2>1, <2>2, <2>3 DEF HostTypes
<1>6. \A p : ~Returned(events, c, p)
  <2> SUFFICES ASSUME NEW i \in DOMAIN events, IsReturn(events[i]), events[i].frame = c
               PROVE  FALSE
    BY DEF Returned
  <2> QED BY <1>1, <1>3, <1>4 DEF ReturnsFound
<1>7. ASSUME NEW i \in DOMAIN events, IsReturn(events[i])
      PROVE  /\ events[i].frame \in DOMAIN frames
             /\ frames[events[i].frame].outcome # Trapped
             /\ start[events[i].frame] < i
  BY <1>1, <1>3, <1>6, <1>7 DEF ReturnsFound
<1> QED BY <1>3, <1>4, <1>5, <1>6, <1>7

-------------------------------------------------------------------------------
(* The host's steps.                                                       *)

LEMMA GoingOn ==
    ASSUME TypeInv, GoOn
    PROVE  /\ (caught' \/ unwinding') <=> (caught \/ unwinding)
           /\ caught' <=> (caught \/ unwinding)
BY Zenon DEF GoOn, TypeInv, TypeOK

\* What it is to record one more event.
Recorded(e) ==
    /\ events' \in Seq(Event)
    /\ DOMAIN events' = DOMAIN events \cup {Len(events) + 1}
    /\ Len(events') = Len(events) + 1
    /\ \A i \in DOMAIN events : i < Len(events) + 1 /\ i \in Nat /\ events'[i] = events[i]
    /\ events'[Len(events) + 1] = e
    /\ \A f : \A p \in Nat :
         p <= Len(events) + 1 => (Returned(events', f, p) <=> Returned(events, f, p))
    /\ \A f : Returned(events', f, Len(events') + 1)
                <=> Returned(events, f, Len(events) + 1) \/ (IsReturn(e) /\ e.frame = f)

LEMMA Recording ==
    ASSUME HostTypes, tracing, NEW e \in Event, Emit(events, e)
    PROVE  Recorded(e)
<1>1. events \in Seq(Event) /\ Len(events) \in Nat /\ DOMAIN events = 1 .. Len(events)
  BY DEF HostTypes
<1>2. events' = Append(events, e)
  BY DEF Emit
<1>3. /\ events' \in Seq(Event)
      /\ DOMAIN events' = DOMAIN events \cup {Len(events) + 1}
      /\ Len(events') = Len(events) + 1
      /\ \A i \in DOMAIN events : i < Len(events) + 1 /\ i \in Nat /\ events'[i] = events[i]
      /\ events'[Len(events) + 1] = e
  BY <1>1, <1>2, AppendFacts
<1>4. \A f : \A p \in Nat :
        p <= Len(events) + 1 => (Returned(events', f, p) <=> Returned(events, f, p))
  BY <1>1, <1>2, ReturnedAppend
<1>5. Len(events') + 1 = Len(events) + 2
  BY <1>1, <1>3
<1>6. \A f : Returned(events', f, Len(events) + 2)
               <=> Returned(events, f, Len(events) + 1) \/ (IsReturn(e) /\ e.frame = f)
  BY <1>1, <1>2, ReturnedAppend
<1> QED BY <1>3, <1>4, <1>5, <1>6 DEF Recorded

\* An event that is neither a call nor a return changes nothing.
LEMMA Quiet ==
    ASSUME TypeInv, HostInv, tracing, NEW e, Recorded(e),
           ~IsCall(e), ~IsReturn(e), e.failed = FALSE,
           UNCHANGED <<frames, open, start, phase>>,
           (caught' \/ unwinding') <=> (caught \/ unwinding), caught => caught'
    PROVE  HostInv'
<1>1. HostTypes /\ CallsFound /\ ReturnsFound /\ OpenFrames /\ FailuresKept
  BY HostTyped DEF HostInv
<1>2. /\ DOMAIN events' = DOMAIN events \cup {Len(events) + 1}
      /\ \A i \in DOMAIN events : events'[i] = events[i]
      /\ events'[Len(events) + 1] = e
      /\ \A i \in DOMAIN events : i \in Nat /\ i <= Len(events) + 1
      /\ \A f : \A p \in Nat :
           p <= Len(events) + 1 => (Returned(events', f, p) <=> Returned(events, f, p))
      /\ \A f : Returned(events', f, Len(events') + 1) <=> Returned(events, f, Len(events) + 1)
      /\ Len(events) \in Nat
  BY <1>1 DEF Recorded, HostTypes
<1>3. \A f \in DOMAIN frames : start[f] \in Nat /\ start[f] <= Len(events) + 1
  BY <1>1, <1>2 DEF CallsFound
<1>4. CallsFound'
  BY <1>1, <1>2 DEF CallsFound
<1>5. ReturnsFound'
  <2>1. ASSUME NEW i \in DOMAIN events', IsReturn(events'[i])
        PROVE  /\ i \in DOMAIN events /\ events'[i] = events[i]
               /\ \A f : Returned(events', f, i) <=> Returned(events, f, i)
    BY <1>2, <2>1
  <2> QED BY <1>1, <1>2, <2>1 DEF ReturnsFound
<1>6. OpenFrames'
  BY <1>1 DEF OpenFrames
<1>7. FailuresKept'
  BY <1>1, <1>2 DEF FailuresKept, Members
<1>8. ASSUME ~caught' PROVE Paired'
  <2>1. Nested /\ Callers /\ Rollbacks
    BY <1>8 DEF HostInv, Paired
  <2>2. ASSUME NEW i \in DOMAIN events', IsReturn(events'[i])
        PROVE  /\ i \in DOMAIN events /\ events'[i] = events[i]
               /\ \A f : Returned(events', f, i) <=> Returned(events, f, i)
    BY <1>2, <2>2
  <2>3. Nested'
    BY <2>1, <2>2 DEF Nested
  <2>4. Callers'
    BY <1>2, <1>3, <2>1 DEF Callers, CalledBy
  <2>5. Rollbacks'
    <3>1. \A f \in DOMAIN frames : events'[start[f]] = events[start[f]]
      BY <1>1, <1>2 DEF CallsFound
    <3> QED BY <2>1, <2>2, <3>1 DEF Rollbacks
  <2> QED BY <2>3, <2>4, <2>5 DEF Paired
<1> QED BY <1>4, <1>5, <1>6, <1>7, <1>8 DEF HostInv

LEMMA PublishHost ==
    ASSUME TypeInv, HostInv, tracing, Publish
    PROVE  HostInv'
<1>1. PICK e \in Noise : Emit(events, e)
  BY DEF Publish
<1>2. e \in Event /\ HostTypes
  BY EventsTyped, HostTyped DEF TypeInv
<1>3. Recorded(e)
  BY <1>1, <1>2, Recording
<1>4. ~IsCall(e) /\ ~IsReturn(e) /\ e.failed = FALSE
  BY EventKinds
<1>5. GoOn /\ UNCHANGED <<frames, open, start, phase>>
  BY DEF Publish
<1>6. /\ (caught' \/ unwinding') <=> (caught \/ unwinding)
      /\ caught => caught'
  BY <1>5, GoingOn
<1> QED BY <1>3, <1>4, <1>5, <1>6, Quiet

LEMMA InvokeHost ==
    ASSUME TypeInv, Invoke
    PROVE  HostInv'
<1> SUFFICES ASSUME tracing PROVE (CallsFound /\ ReturnsFound /\ OpenFrames /\ FailuresKept /\ Paired)'
  BY DEF HostInv, Invoke
<1>1. CallEvent(1) \in Event /\ <<>> \in Seq(Event)
  BY EventsTyped DEF TypeInv
<1>2. events' = <<CallEvent(1)>>
  BY <1>1 DEF Invoke, Emit
<1>3. DOMAIN events' = {1} /\ events'[1] = CallEvent(1) /\ Len(events') = 1
  BY <1>2
<1>4. frames' = <<NewFrame(Nobody)>> /\ open' = <<1>> /\ start' = <<1>> /\ phase' = "running"
  BY DEF Invoke
<1>5. /\ DOMAIN frames' = {1} /\ frames'[1].caller = 0 /\ frames'[1].outcome = Trapped
      /\ frames'[1].undone = FALSE
      /\ DOMAIN open' = {1} /\ open'[1] = 1 /\ DOMAIN start' = {1} /\ start'[1] = 1
  BY <1>4 DEF NewFrame, Nobody
<1>6. IsCall(events'[1]) /\ ~IsReturn(events'[1]) /\ events'[1].frame = 1 /\ events'[1].failed = FALSE
  BY <1>3, EventKinds
<1>7. \A f, p : ~Returned(events', f, p)
  BY <1>3, <1>6 DEF Returned
<1>8. ~(caught' \/ unwinding')
  BY Zenon DEF Invoke
<1>9. CallsFound'
  BY <1>3, <1>5, <1>6 DEF CallsFound
<1>10. ReturnsFound'
  BY <1>3, <1>5, <1>6 DEF ReturnsFound
<1>11. OpenFrames'
  BY <1>4, <1>5 DEF OpenFrames
<1>12. FailuresKept'
  BY <1>3, <1>5, <1>6, <1>8 DEF FailuresKept, Members
<1>13. Paired'
  BY <1>3, <1>5, <1>6, <1>7 DEF Paired, Nested, Callers, CalledBy, Rollbacks, Nobody
<1> QED BY <1>9, <1>10, <1>11, <1>12, <1>13

\* As long as nothing failed, a frame that is not open any more has returned.
LEMMA OverIsReturned ==
    ASSUME TypeInv, HostInv, tracing, ~(caught \/ unwinding),
           NEW f \in DOMAIN frames, f \notin Members(open)
    PROVE  Returned(events, f, Len(events) + 1)
BY DEF HostInv, FailuresKept, ReturnsFound

LEMMA CallHost ==
    ASSUME TypeInv, HostInv, tracing, Call
    PROVE  HostInv'
<1>0. PICK c, f, p : c = Last(open) /\ f = Len(frames) + 1 /\ p = Len(events) + 1
  OBVIOUS
<1>1. HostTypes /\ CallsFound /\ ReturnsFound /\ OpenFrames /\ FailuresKept
  BY HostTyped DEF HostInv
<1>2. GoOn /\ phase = "running" /\ phase' = "running"
  BY DEF Call, GoOn
<1>3. /\ c \in DOMAIN frames /\ c \in Nat /\ c # 0 /\ frames[c].outcome = Trapped
      /\ \A m \in Members(open) : m <= c /\ m \in DOMAIN frames
      /\ \A q : ~Returned(events, c, q)
      /\ \A i \in DOMAIN events :
           IsReturn(events[i]) => /\ events[i].frame \in DOMAIN frames
                                  /\ frames[events[i].frame].outcome # Trapped
                                  /\ start[events[i].frame] < i
  BY <1>0, <1>2, Running
<1>4. Len(frames) \in Nat /\ Len(events) \in Nat /\ f \in Nat /\ p \in Nat
      /\ NewFrame(c) \in Frame
  BY <1>0, <1>1, <1>3, EventsTyped DEF HostTypes, TypeInv
<1>5. /\ DOMAIN frames' = DOMAIN frames \cup {f}
      /\ \A g \in DOMAIN frames : g < f /\ frames'[g] = frames[g]
      /\ frames'[f].caller = c /\ frames'[f].outcome = Trapped
      /\ frames'[f].undone = FALSE
      /\ f \notin DOMAIN frames
  <2>1. frames' = Append(frames, NewFrame(c)) /\ frames \in Seq(Frame)
    BY <1>0, <1>1 DEF Call, HostTypes
  <2>2. /\ DOMAIN frames' = DOMAIN frames \cup {f}
        /\ \A g \in DOMAIN frames : g < f /\ frames'[g] = frames[g]
        /\ frames'[f] = NewFrame(c)
    BY <1>0, <1>4, <2>1, AppendFacts
  <2>3. f \notin DOMAIN frames
    BY <1>0, <1>1 DEF HostTypes
  <2> QED BY <2>2, <2>3 DEF NewFrame
<1>6. /\ DOMAIN start' = DOMAIN frames \cup {f}
      /\ \A g \in DOMAIN frames : start'[g] = start[g]
      /\ start'[f] = p
  <2>1. start' = Append(start, p) /\ start \in Seq(Nat) /\ Len(start) = Len(frames)
    BY <1>0, <1>1 DEF Call, HostTypes
  <2>2. /\ DOMAIN start' = DOMAIN start \cup {Len(start) + 1}
        /\ \A g \in DOMAIN start : start'[g] = start[g]
        /\ start'[Len(start) + 1] = p
    BY <1>4, <2>1, AppendFacts
  <2> QED BY <1>0, <1>1, <2>1, <2>2 DEF HostTypes
<1>7. /\ Members(open') = Members(open) \cup {f}
      /\ DOMAIN open' = DOMAIN open \cup {Len(open) + 1}
      /\ \A i \in DOMAIN open : i < Len(open) + 1 /\ open'[i] = open[i]
      /\ open'[Len(open) + 1] = f
  <2>1. open' = Append(open, f) /\ open \in Seq(Nat)
    BY <1>0, <1>1 DEF Call, HostTypes
  <2>2. Members(open') = Members(open) \cup {f}
    BY <1>4, <2>1, MembersAppend
  <2> QED BY <1>4, <2>1, <2>2, AppendFacts
<1>8. CallEvent(f) \in Event /\ Emit(events, CallEvent(f))
  BY <1>0, <1>4, EventsTyped DEF Call, TypeInv
<1>9. Recorded(CallEvent(f))
  BY <1>1, <1>8, Recording
<1>10. /\ IsCall(CallEvent(f)) /\ ~IsReturn(CallEvent(f))
       /\ CallEvent(f).frame = f /\ CallEvent(f).failed = FALSE
  BY EventKinds
<1>11. /\ DOMAIN events' = DOMAIN events \cup {p}
       /\ Len(events') = p
       /\ \A i \in DOMAIN events : i \in Nat /\ i < p /\ events'[i] = events[i]
       /\ IsCall(events'[p]) /\ ~IsReturn(events'[p])
       /\ events'[p].frame = f /\ events'[p].failed = FALSE
       /\ \A g : \A q \in Nat : q <= p => (Returned(events', g, q) <=> Returned(events, g, q))
       /\ \A g : Returned(events', g, p + 1) <=> Returned(events, g, p)
  BY <1>0, <1>9, <1>10 DEF Recorded
<1>12. \A g \in DOMAIN frames : g \in Nat /\ start[g] \in Nat /\ start[g] < p
  BY <1>1, <1>11 DEF HostTypes, CallsFound
<1>13. CallsFound'
  <2>1. ASSUME NEW g \in DOMAIN frames'
        PROVE  start'[g] \in DOMAIN events' /\ IsCall(events'[start'[g]])
               /\ events'[start'[g]].frame = g
    BY <1>1, <1>5, <1>6, <1>11 DEF CallsFound
  <2>2. ASSUME NEW g \in DOMAIN frames', NEW h \in DOMAIN frames', g < h
        PROVE  start'[g] < start'[h]
    BY <1>1, <1>4, <1>5, <1>6, <1>12, <2>2 DEF CallsFound
  <2>3. ASSUME NEW i \in DOMAIN events', IsCall(events'[i])
        PROVE  events'[i].frame \in DOMAIN frames' /\ start'[events'[i].frame] = i
    BY <1>1, <1>5, <1>6, <1>11, <2>3 DEF CallsFound
  <2> QED BY <2>1, <2>2, <2>3 DEF CallsFound
<1>14. ASSUME NEW i \in DOMAIN events', IsReturn(events'[i])
       PROVE  /\ i \in DOMAIN events /\ events'[i] = events[i] /\ IsReturn(events[i])
              /\ events[i].frame \in DOMAIN frames
              /\ i \in Nat /\ i < p
              /\ \A g : Returned(events', g, i) <=> Returned(events, g, i)
  BY <1>3, <1>11, <1>14
<1>15. ReturnsFound'
  <2>1. ASSUME NEW i \in DOMAIN events', IsReturn(events'[i])
        PROVE  /\ events'[i].frame \in DOMAIN frames'
               /\ frames'[events'[i].frame].outcome # Trapped
               /\ start'[events'[i].frame] < i
    BY <1>3, <1>5, <1>6, <1>14, <2>1
  <2>2. ASSUME NEW g \in DOMAIN frames', frames'[g].outcome # Trapped
        PROVE  frames'[g].outcome = g /\ Returned(events', g, Len(events') + 1)
    <3>1. g \in DOMAIN frames /\ frames[g].outcome # Trapped
      BY <1>5, <2>2
    <3> QED BY <1>0, <1>1, <1>5, <1>11, <3>1 DEF ReturnsFound
  <2> QED BY <1>1, <1>14, <2>1, <2>2 DEF ReturnsFound
<1>16. OpenFrames'
  <2>1. \A i \in DOMAIN open : open[i] \in DOMAIN frames /\ i \in Nat
    BY <1>1 DEF HostTypes
  <2>2. Len(open) \in Nat
    BY <1>1 DEF HostTypes
  <2>3. ASSUME NEW i \in DOMAIN open', NEW j \in DOMAIN open', i < j
        PROVE  open'[i] < open'[j]
    BY <1>1, <1>5, <1>7, <2>1, <2>2, <2>3 DEF OpenFrames
  <2>4. ASSUME NEW i \in DOMAIN open' PROVE frames'[open'[i]].outcome = Trapped
    BY <1>1, <1>5, <1>7, <2>1 DEF OpenFrames
  <2> QED BY <1>2, <2>3, <2>4 DEF OpenFrames
<1>17. (caught' \/ unwinding') <=> (caught \/ unwinding)
  BY <1>2, GoingOn
<1>18. FailuresKept'
  <2>1. ASSUME NEW g \in DOMAIN frames', frames'[g].outcome = Trapped, g \notin Members(open')
        PROVE  frames'[g].undone
    BY <1>1, <1>5, <1>7, <2>1 DEF FailuresKept
  <2>2. ASSUME caught' \/ unwinding'
        PROVE  \E g \in DOMAIN frames' : frames'[g].outcome = Trapped /\ g \notin Members(open')
    <3>1. PICK g \in DOMAIN frames : frames[g].outcome = Trapped /\ g \notin Members(open)
      BY <1>1, <1>17, <2>2 DEF FailuresKept
    <3> QED BY <1>5, <1>7, <3>1
  <2>3. ASSUME ~(caught' \/ unwinding')
        PROVE  /\ \A g \in DOMAIN frames' : frames'[g].undone = FALSE
               /\ \A i \in DOMAIN events' : events'[i].failed = FALSE
    BY <1>1, <1>5, <1>11, <1>17, <2>3 DEF FailuresKept
  <2> QED BY <2>1, <2>2, <2>3 DEF FailuresKept
<1>19. ASSUME ~caught' PROVE Paired'
  <2>1. ~(caught \/ unwinding) /\ Paired
    BY <1>2, <1>19, GoingOn DEF HostInv
  <2>2. Nested'
    <3> SUFFICES ASSUME NEW i \in DOMAIN events', NEW g \in DOMAIN frames',
                        IsReturn(events'[i]), events'[i].frame \in DOMAIN frames',
                        events'[i].frame < g, start'[g] < i
                 PROVE  Returned(events', g, i)
      BY DEF Nested
    <3>1. i \in DOMAIN events /\ IsReturn(events[i]) /\ events[i] = events'[i] /\ i < p /\ i \in Nat
          /\ events[i].frame \in DOMAIN frames
      BY <1>14
    <3>2. g \in DOMAIN frames
      BY <1>4, <1>5, <1>6, <3>1
    <3>3. Returned(events, g, i)
      BY <1>6, <2>1, <3>1, <3>2 DEF Paired, Nested
    <3> QED BY <1>14, <3>3
  <2>3. Callers'
    <3>1. ASSUME NEW g \in DOMAIN frames PROVE CalledBy(g, frames[g].caller)'
      <4>1. CalledBy(g, frames[g].caller)
        BY <2>1 DEF Paired, Callers
      <4>2. \A h : Returned(events', h, start[g]) <=> Returned(events, h, start[g])
        BY <1>11, <1>12
      <4>3. \A h \in DOMAIN frames' : h < g => h \in DOMAIN frames
        BY <1>4, <1>5, <1>12
      <4> QED BY <1>5, <1>6, <4>1, <4>2, <4>3 DEF CalledBy
    <3>2. CalledBy(f, frames[f].caller)'
      <4>1. c < f /\ start'[f] = p /\ frames'[f].caller = c
        BY <1>3, <1>5, <1>6
      <4>2. ~Returned(events', c, p)
        BY <1>3, <1>4, <1>11
      <4>3. ASSUME NEW h \in DOMAIN frames', c < h, h < f
            PROVE  Returned(events', h, p)
        <5>1. h \in DOMAIN frames /\ h \notin Members(open)
          BY <1>3, <1>4, <1>5, <1>12, <4>3
        <5>2. Returned(events, h, p)
          BY <1>0, <2>1, <5>1, OverIsReturned
        <5> QED BY <1>4, <1>11, <5>2
      <4> QED BY <4>1, <4>2, <4>3 DEF CalledBy
    <3> QED BY <1>5, <3>1, <3>2 DEF Callers
  <2>4. Rollbacks'
    <3> SUFFICES ASSUME NEW i \in DOMAIN events', IsReturn(events'[i]),
                        events'[i].frame \in DOMAIN frames'
                 PROVE  LET g == events'[i].frame
                        IN  frames'[g].undone
                              <=> (events'[start'[g]].failed \/ events'[i].failed)
      BY DEF Rollbacks
    <3> DEFINE g == events[i].frame
    <3>1. i \in DOMAIN events /\ IsReturn(events[i]) /\ events'[i] = events[i]
          /\ g \in DOMAIN frames
      BY <1>14
    <3>2. frames'[g] = frames[g] /\ start'[g] = start[g] /\ start[g] \in DOMAIN events
      BY <1>1, <1>5, <1>6, <3>1 DEF CallsFound
    <3>3. events'[start[g]] = events[start[g]]
      BY <1>11, <3>2
    <3>4. frames[g].undone <=> (events[start[g]].failed \/ events[i].failed)
      BY <2>1, <3>1 DEF Paired, Rollbacks
    <3> QED BY <3>1, <3>2, <3>3, <3>4
  <2> QED BY <2>2, <2>3, <2>4 DEF Paired
<1> QED BY <1>13, <1>15, <1>16, <1>18, <1>19 DEF HostInv

\* What PopFrame leaves open.
LEMMA Popping ==
    ASSUME TypeInv, HostInv, tracing, phase = "running", PopFrame
    PROVE  /\ Members(open') = Members(open) \ {Last(open)}
           /\ DOMAIN open' \subseteq DOMAIN open
           /\ \A i \in DOMAIN open' : open'[i] = open[i] /\ open'[i] \in Members(open')
           /\ phase' # "running" => open' = <<>>
<1>1. HostTypes /\ OpenFrames /\ open # <<>>
  BY HostTyped DEF HostInv, TypeInv, FramesOpen
<1>2. /\ open \in Seq(Nat) /\ Len(open) \in Nat /\ DOMAIN open = 1 .. Len(open)
      /\ open' = Front(open) /\ phase' = IF Len(open) = 1 THEN "idle" ELSE "running"
  BY <1>1 DEF PopFrame, HostTypes
<1>3. /\ DOMAIN open' = DOMAIN open \ {Len(open)} /\ Len(open') = Len(open) - 1
      /\ open' \in Seq(Nat)
      /\ \A i \in DOMAIN open' : i < Len(open) /\ open'[i] = open[i]
      /\ Last(open) = open[Len(open)] /\ Len(open) \in DOMAIN open
  BY <1>1, <1>2, FrontLast
<1>4. Members(open) = Members(open') \cup {Last(open)}
  BY <1>1, <1>2, MembersFront
<1>5. Last(open) \notin Members(open')
  <2> SUFFICES ASSUME NEW i \in DOMAIN open', open'[i] = Last(open) PROVE FALSE
    BY DEF Members
  <2>1. open[i] < open[Len(open)] /\ i \in DOMAIN open
    BY <1>1, <1>3 DEF OpenFrames
  <2>2. open[i] \in Nat
    BY <1>2, <2>1
  <2> QED BY <1>3, <2>1, <2>2
<1>6. phase' # "running" => open' = <<>>
  BY <1>2, <1>3, EmptySeq
<1>7. \A i \in DOMAIN open' : open'[i] \in Members(open')
  BY DEF Members
<1> QED BY <1>3, <1>4, <1>5, <1>6, <1>7

LEMMA ReturnHost ==
    ASSUME TypeInv, HostInv, tracing, Return
    PROVE  HostInv'
<1>0. PICK f, p : f = Last(open) /\ p = Len(events) + 1
  OBVIOUS
<1>1. HostTypes /\ CallsFound /\ ReturnsFound /\ OpenFrames /\ FailuresKept
  BY HostTyped DEF HostInv
<1>2. GoOn /\ PopFrame /\ phase = "running" /\ start' = start
  BY DEF Return, GoOn
<1>3. /\ f \in DOMAIN frames /\ f \in Nat /\ f # 0 /\ frames[f].outcome = Trapped
      /\ f \in Members(open)
      /\ \A m \in Members(open) : m <= f /\ m \in DOMAIN frames
      /\ \A q : ~Returned(events, f, q)
      /\ \A i \in DOMAIN events :
           IsReturn(events[i]) => /\ events[i].frame \in DOMAIN frames
                                  /\ frames[events[i].frame].outcome # Trapped
                                  /\ start[events[i].frame] < i
  BY <1>0, <1>2, Running
<1>4. Len(events) \in Nat /\ p \in Nat
  BY <1>0, <1>1 DEF HostTypes
<1>5. /\ DOMAIN frames' = DOMAIN frames
      /\ \A g \in DOMAIN frames : g # f => frames'[g] = frames[g]
      /\ frames'[f].outcome = f
      /\ \A g \in DOMAIN frames : frames'[g].caller = frames[g].caller
                               /\ frames'[g].undone = frames[g].undone
  <2>1. frames' = [frames EXCEPT ![f] = [frames[f] EXCEPT !.outcome = f]]
    BY <1>0 DEF Return
  <2>2. frames[f] \in Frame /\ frames \in Seq(Frame)
    BY <1>1, <1>3 DEF HostTypes
  <2> QED BY <1>3, <2>1, <2>2 DEF Frame
<1>6. /\ Members(open') = Members(open) \ {f}
      /\ DOMAIN open' \subseteq DOMAIN open
      /\ \A i \in DOMAIN open' : open'[i] = open[i] /\ open'[i] \in Members(open')
      /\ phase' # "running" => open' = <<>>
  BY <1>0, <1>2, Popping
<1>7. ReturnEvent(f) \in Event /\ Emit(events, ReturnEvent(f))
  BY <1>0, <1>3, EventsTyped DEF Return, TypeInv
<1>8. Recorded(ReturnEvent(f))
  BY <1>1, <1>7, Recording
<1>9. /\ IsReturn(ReturnEvent(f)) /\ ~IsCall(ReturnEvent(f))
      /\ ReturnEvent(f).frame = f /\ ReturnEvent(f).failed = FALSE
  BY EventKinds
<1>10. /\ DOMAIN events' = DOMAIN events \cup {p}
       /\ Len(events') = p
       /\ \A i \in DOMAIN events : i \in Nat /\ i < p /\ events'[i] = events[i]
       /\ IsReturn(events'[p]) /\ ~IsCall(events'[p])
       /\ events'[p].frame = f /\ events'[p].failed = FALSE
       /\ \A g : \A q \in Nat : q <= p => (Returned(events', g, q) <=> Returned(events, g, q))
       /\ \A g : Returned(events', g, p + 1) <=> Returned(events, g, p) \/ g = f
  BY <1>0, <1>8, <1>9 DEF Recorded
<1>11. \A g \in DOMAIN frames : g \in Nat /\ start[g] \in Nat /\ start[g] < p
                             /\ start[g] \in DOMAIN events
  BY <1>1, <1>10 DEF HostTypes, CallsFound
<1>12. CallsFound'
  BY <1>1, <1>2, <1>5, <1>10 DEF CallsFound
<1>13. ASSUME NEW i \in DOMAIN events, IsReturn(events[i])
       PROVE  /\ events[i].frame # f /\ events[i].frame \in DOMAIN frames
              /\ i \in Nat /\ i < p
              /\ \A g : Returned(events', g, i) <=> Returned(events, g, i)
  BY <1>3, <1>10, <1>13
<1>14. ReturnsFound'
  <2>1. ASSUME NEW i \in DOMAIN events', IsReturn(events'[i])
        PROVE  /\ events'[i].frame \in DOMAIN frames'
               /\ frames'[events'[i].frame].outcome # Trapped
               /\ start'[events'[i].frame] < i
    <3>1. CASE i = p
      BY <1>2, <1>3, <1>5, <1>10, <1>11, <3>1 DEF Trapped
    <3>2. CASE i \in DOMAIN events
      BY <1>2, <1>3, <1>5, <1>10, <1>13, <2>1, <3>2
    <3> QED BY <1>10, <3>1, <3>2
  <2>2. ASSUME NEW i \in DOMAIN events', NEW j \in DOMAIN events',
               IsReturn(events'[i]), IsReturn(events'[j]),
               events'[i].frame = events'[j].frame, events'[i].frame # 0
        PROVE  i = j
    <3>1. CASE i \in DOMAIN events /\ j \in DOMAIN events
      BY <1>1, <1>10, <2>2, <3>1 DEF ReturnsFound
    <3>2. CASE i = p \/ j = p
      BY <1>10, <1>13, <2>2, <3>2
    <3> QED BY <1>10, <3>1, <3>2
  <2>3. ASSUME NEW g \in DOMAIN frames', frames'[g].outcome # Trapped
        PROVE  frames'[g].outcome = g /\ Returned(events', g, Len(events') + 1)
    <3>1. CASE g = f
      BY <1>5, <1>10, <3>1
    <3>2. CASE g # f
      <4>1. frames[g].outcome = g /\ Returned(events, g, p)
        BY <1>0, <1>1, <1>5, <2>3, <3>2 DEF ReturnsFound
      <4> QED BY <1>5, <1>10, <3>2, <4>1
    <3> QED BY <3>1, <3>2
  <2> QED BY <2>1, <2>2, <2>3 DEF ReturnsFound
<1>15. OpenFrames'
  BY <1>1, <1>5, <1>6, <1>3 DEF OpenFrames, HostTypes
<1>16. (caught' \/ unwinding') <=> (caught \/ unwinding)
  BY <1>2, GoingOn
<1>17. FailuresKept'
  <2>1. \A g \in DOMAIN frames :
          frames'[g].outcome = Trapped /\ g \notin Members(open') =>
            g # f /\ frames[g].outcome = Trapped /\ g \notin Members(open)
    BY <1>3, <1>5, <1>6 DEF Trapped
  <2>2. \A g \in DOMAIN frames :
          frames[g].outcome = Trapped /\ g \notin Members(open) =>
            g # f /\ frames'[g].outcome = Trapped /\ g \notin Members(open')
    BY <1>3, <1>5, <1>6
  <2>3. \A g \in DOMAIN frames' :
          frames'[g].outcome = Trapped /\ g \notin Members(open') => frames'[g].undone
    BY <1>1, <1>5, <2>1 DEF FailuresKept
  <2>4. caught' \/ unwinding' =>
          \E g \in DOMAIN frames' : frames'[g].outcome = Trapped /\ g \notin Members(open')
    BY <1>1, <1>5, <1>16, <2>2 DEF FailuresKept
  <2>5. ~(caught' \/ unwinding') =>
          /\ \A g \in DOMAIN frames' : frames'[g].undone = FALSE
          /\ \A i \in DOMAIN events' : events'[i].failed = FALSE
    BY <1>1, <1>5, <1>10, <1>16 DEF FailuresKept
  <2> QED BY <2>3, <2>4, <2>5 DEF FailuresKept
<1>18. ASSUME ~caught' PROVE Paired'
  <2>1. ~(caught \/ unwinding) /\ Paired
    BY <1>2, <1>18, GoingOn DEF HostInv
  <2>2. Nested'
    <3> SUFFICES ASSUME NEW i \in DOMAIN events', NEW g \in DOMAIN frames',
                        IsReturn(events'[i]), events'[i].frame \in DOMAIN frames',
                        events'[i].frame < g, start'[g] < i
                 PROVE  Returned(events', g, i)
      BY DEF Nested
    <3>1. CASE i = p
      <4>1. g \in DOMAIN frames /\ f < g
        BY <1>5, <1>10, <3>1
      <4>2. g \notin Members(open)
        BY <1>3, <1>11, <4>1
      <4>3. Returned(events, g, p)
        BY <1>0, <2>1, <4>1, <4>2, OverIsReturned
      <4> QED BY <1>4, <1>10, <3>1, <4>3
    <3>2. CASE i \in DOMAIN events
      <4>1. IsReturn(events[i]) /\ events[i] = events'[i] /\ events[i].frame \in DOMAIN frames
        BY <1>5, <1>10, <3>2
      <4>2. Returned(events, g, i)
        BY <1>2, <1>5, <2>1, <3>2, <4>1 DEF Paired, Nested
      <4> QED BY <1>13, <3>2, <4>1, <4>2
    <3> QED BY <1>10, <3>1, <3>2
  <2>3. Callers'
    <3> SUFFICES ASSUME NEW g \in DOMAIN frames PROVE CalledBy(g, frames[g].caller)'
      BY <1>5 DEF Callers
    <3>1. CalledBy(g, frames[g].caller)
      BY <2>1 DEF Paired, Callers
    <3>2. \A h : Returned(events', h, start[g]) <=> Returned(events, h, start[g])
      BY <1>10, <1>11
    <3> QED BY <1>2, <1>5, <3>1, <3>2 DEF CalledBy
  <2>4. Rollbacks'
    <3> SUFFICES ASSUME NEW i \in DOMAIN events', IsReturn(events'[i]),
                        events'[i].frame \in DOMAIN frames'
                 PROVE  LET g == events'[i].frame
                        IN  frames'[g].undone
                              <=> (events'[start'[g]].failed \/ events'[i].failed)
      BY DEF Rollbacks
    <3>1. \A g \in DOMAIN frames : events'[start[g]] = events[start[g]]
      BY <1>10, <1>11
    <3>2. CASE i = p
      <4>1. frames[f].undone = FALSE /\ events[start[f]].failed = FALSE
        BY <1>1, <1>3, <1>11, <2>1 DEF FailuresKept
      <4> QED BY <1>2, <1>3, <1>5, <1>10, <3>1, <3>2, <4>1
    <3>3. CASE i \in DOMAIN events
      <4>1. IsReturn(events[i]) /\ events'[i] = events[i] /\ events[i].frame \in DOMAIN frames
        BY <1>5, <1>10, <3>3
      <4>2. LET g == events[i].frame
            IN  frames[g].undone <=> (events[start[g]].failed \/ events[i].failed)
        BY <2>1, <3>3, <4>1 DEF Paired, Rollbacks
      <4> QED BY <1>2, <1>5, <3>1, <4>1, <4>2
    <3> QED BY <1>10, <3>2, <3>3
  <2> QED BY <2>2, <2>3, <2>4 DEF Paired
<1> QED BY <1>12, <1>14, <1>15, <1>17, <1>18 DEF HostInv

LEMMA FailHost ==
    ASSUME TypeInv, HostInv, tracing, Fail
    PROVE  HostInv'
<1>0. PICK f : f = Last(open)
  OBVIOUS
<1>1. HostTypes /\ CallsFound /\ ReturnsFound /\ OpenFrames /\ FailuresKept
  BY HostTyped DEF HostInv
<1>2. PopFrame /\ phase = "running" /\ start' = start /\ tracing' = tracing
  BY DEF Fail
<1>3. /\ f \in DOMAIN frames /\ f \in Nat /\ frames[f].outcome = Trapped
      /\ f \in Members(open)
      /\ \A q : ~Returned(events, f, q)
      /\ \A i \in DOMAIN events :
           IsReturn(events[i]) => /\ events[i].frame \in DOMAIN frames
                                  /\ frames[events[i].frame].outcome # Trapped
  BY <1>0, <1>2, Running
<1>4. /\ DOMAIN frames' = DOMAIN frames
      /\ \A g \in DOMAIN frames :
           /\ frames'[g].caller = frames[g].caller
           /\ frames'[g].outcome = frames[g].outcome
           /\ frames'[g].undone <=> (frames[g].undone \/ g >= f)
  <2>1. frames' = [g \in DOMAIN frames |-> [frames[g] EXCEPT !.undone = @ \/ g >= f]]
    BY <1>0 DEF Fail
  <2>2. \A g \in DOMAIN frames : frames[g] \in Frame
    BY <1>1 DEF HostTypes
  <2> QED BY <2>1, <2>2 DEF Frame
<1>5. PICK from \in {start[f], start[f] + 1} :
        events' = [i \in DOMAIN events |-> [events[i] EXCEPT !.failed = @ \/ i >= from]]
  BY <1>0 DEF Fail
<1>6. /\ DOMAIN events' = DOMAIN events
      /\ \A i \in DOMAIN events :
           /\ events'[i].frame = events[i].frame
           /\ IsCall(events'[i]) <=> IsCall(events[i])
           /\ IsReturn(events'[i]) <=> IsReturn(events[i])
           /\ events'[i].failed <=> (events[i].failed \/ i >= from)
  <2>1. \A i \in DOMAIN events : events[i] \in Event
    BY <1>1 DEF HostTypes
  <2> QED BY <1>5, <2>1 DEF Event, IsCall, IsReturn
<1>7. Len(events') = Len(events)
  <2>1. TypeInv'
    BY HostTypeInv DEF HostStep
  <2>2. HostTypes'
    BY <2>1, HostTyped, PTL
  <2> QED BY <1>1, <1>6, <2>2 DEF HostTypes
<1>8. \A g, q : Returned(events', g, q) <=> Returned(events, g, q)
  BY <1>6 DEF Returned
<1>9. /\ Members(open') = Members(open) \ {f}
      /\ DOMAIN open' \subseteq DOMAIN open
      /\ \A i \in DOMAIN open' : open'[i] = open[i] /\ open'[i] \in Members(open')
      /\ phase' # "running" => open' = <<>>
  BY <1>0, <1>2, Popping
<1>10. unwinding' /\ (caught' <=> caught)
  BY Zenon DEF Fail
<1>11. CallsFound'
  BY <1>1, <1>2, <1>4, <1>6 DEF CallsFound
<1>12. ReturnsFound'
  BY <1>1, <1>2, <1>4, <1>6, <1>7, <1>8 DEF ReturnsFound
<1>13. OpenFrames'
  <2>1. \A i \in DOMAIN open' : open'[i] = open[i] /\ i \in DOMAIN open /\ open[i] \in DOMAIN frames
    BY <1>1, <1>9 DEF HostTypes
  <2>2. \A i, j \in DOMAIN open' : i < j => open'[i] < open'[j]
    BY <1>1, <2>1 DEF OpenFrames
  <2>3. \A i \in DOMAIN open' : frames'[open'[i]].outcome = Trapped
    BY <1>1, <1>4, <2>1 DEF OpenFrames
  <2> QED BY <1>9, <2>2, <2>3 DEF OpenFrames
<1>14. FailuresKept'
  <2>1. ASSUME NEW g \in DOMAIN frames', frames'[g].outcome = Trapped, g \notin Members(open')
        PROVE  frames'[g].undone
    <3>1. CASE g = f
      BY <1>3, <1>4, <3>1
    <3>2. CASE g # f
      BY <1>1, <1>4, <1>9, <2>1, <3>2 DEF FailuresKept
    <3> QED BY <3>1, <3>2
  <2>2. \E g \in DOMAIN frames' : frames'[g].outcome = Trapped /\ g \notin Members(open')
    BY <1>3, <1>4, <1>9
  <2> QED BY <1>10, <2>1, <2>2 DEF FailuresKept
<1>15. ASSUME ~caught' PROVE Paired'
  <2>1. Nested /\ Callers /\ Rollbacks
    BY <1>10, <1>15 DEF HostInv, Paired
  <2>2. Nested'
    BY <1>2, <1>4, <1>6, <1>8, <2>1 DEF Nested
  <2>3. Callers'
    BY <1>2, <1>4, <1>8, <2>1 DEF Callers, CalledBy
  <2>4. Rollbacks'
    <3> SUFFICES ASSUME NEW i \in DOMAIN events, IsReturn(events[i]),
                        NEW g \in DOMAIN frames, g = events[i].frame
                 PROVE  frames'[g].undone
                          <=> (events'[start[g]].failed \/ events'[i].failed)
      BY <1>2, <1>4, <1>6 DEF Rollbacks
    <3>1. /\ start[g] \in DOMAIN events /\ start[f] \in DOMAIN events
          /\ start[g] \in Nat /\ start[f] \in Nat /\ i \in Nat /\ g \in Nat /\ g # f
      BY <1>1, <1>3 DEF HostTypes, CallsFound
    <3>2. from \in Nat /\ start[f] <= from /\ from <= start[f] + 1
      BY <1>5, <3>1
    <3>3. frames[g].undone <=> (events[start[g]].failed \/ events[i].failed)
      BY <2>1 DEF Rollbacks
    <3>4. CASE g > f
      <4>1. start[g] > start[f]
        BY <1>1, <1>3, <3>4 DEF CallsFound
      <4>2. start[g] >= from
        BY <3>1, <3>2, <4>1
      <4>3. g >= f
        BY <1>3, <3>1, <3>4
      <4>4. events'[start[g]].failed /\ frames'[g].undone
        BY <1>4, <1>6, <3>1, <4>2, <4>3
      <4> QED BY <4>4
    <3>5. CASE g < f
      <4>1. start[g] < start[f]
        BY <1>1, <1>3, <3>5 DEF CallsFound
      <4>2. ~(start[f] < i)
        BY <1>3, <2>1, <3>5 DEF Nested
      <4>3. i # start[f]
        BY <1>1, <1>3, EventKinds DEF CallsFound
      <4>4. ~(start[g] >= from) /\ ~(i >= from) /\ ~(g >= f)
        BY <1>3, <3>1, <3>2, <3>5, <4>1, <4>2, <4>3
      <4> QED BY <1>4, <1>6, <3>1, <3>3, <4>4
    <3> QED BY <1>3, <3>1, <3>4, <3>5
  <2> QED BY <2>2, <2>3, <2>4 DEF Paired
<1> QED BY <1>11, <1>12, <1>13, <1>14, <1>15 DEF HostInv

LEMMA OrphanHost ==
    ASSUME TypeInv, HostInv, tracing, Orphan
    PROVE  HostInv'
<1>0. PICK p : p = Len(events) + 1
  OBVIOUS
<1>1. HostTypes /\ CallsFound /\ ReturnsFound /\ OpenFrames /\ FailuresKept
  BY HostTyped DEF HostInv
<1>2. /\ UNCHANGED <<frames, open, start, phase>>
      /\ (caught' <=> caught) /\ (unwinding' <=> unwinding)
      /\ \A f \in DOMAIN frames : frames[f].outcome = f
      /\ Emit(events, ReturnEvent(0))
  BY DEF Orphan
<1>3. p \in Nat /\ Len(events) \in Nat /\ \A f \in DOMAIN frames : f # 0
  BY <1>0, <1>1 DEF HostTypes
<1>4. ReturnEvent(0) \in Event
  BY EventsTyped DEF TypeInv
<1>5. Recorded(ReturnEvent(0))
  BY <1>1, <1>2, <1>4, Recording
<1>6. /\ IsReturn(ReturnEvent(0)) /\ ~IsCall(ReturnEvent(0))
      /\ ReturnEvent(0).frame = 0 /\ ReturnEvent(0).failed = FALSE
  BY EventKinds
<1>7. /\ DOMAIN events' = DOMAIN events \cup {p}
      /\ Len(events') = p
      /\ \A i \in DOMAIN events : i \in Nat /\ i < p /\ events'[i] = events[i]
      /\ IsReturn(events'[p]) /\ ~IsCall(events'[p])
      /\ events'[p].frame = 0 /\ events'[p].failed = FALSE
      /\ \A g : \A q \in Nat : q <= p => (Returned(events', g, q) <=> Returned(events, g, q))
      /\ \A g : Returned(events, g, p) => Returned(events', g, p + 1)
  BY <1>0, <1>5, <1>6 DEF Recorded
<1>8. \A f \in DOMAIN frames :
        /\ Returned(events, f, p) /\ frames[f].outcome # Trapped
        /\ start[f] \in Nat /\ start[f] < p /\ start[f] \in DOMAIN events
  BY <1>0, <1>1, <1>2, <1>3, <1>7 DEF ReturnsFound, CallsFound, HostTypes, Trapped
<1>9. CallsFound'
  BY <1>1, <1>2, <1>7 DEF CallsFound
<1>10. ReturnsFound'
  <2>1. ASSUME NEW i \in DOMAIN events', IsReturn(events'[i])
        PROVE  \/ /\ events'[i].frame = 0
                  /\ \A f \in DOMAIN frames' : start'[f] < i /\ Returned(events', f, i)
               \/ /\ events'[i].frame \in DOMAIN frames'
                  /\ frames'[events'[i].frame].outcome # Trapped
                  /\ start'[events'[i].frame] < i
    <3>1. CASE i = p
      BY <1>2, <1>3, <1>7, <1>8, <3>1
    <3>2. CASE i \in DOMAIN events
      <4>1. \A f : Returned(events', f, i) <=> Returned(events, f, i)
        BY <1>7, <3>2
      <4> QED BY <1>1, <1>2, <1>7, <2>1, <3>2, <4>1 DEF ReturnsFound
    <3> QED BY <1>7, <3>1, <3>2
  <2>2. ASSUME NEW i \in DOMAIN events', NEW j \in DOMAIN events',
               IsReturn(events'[i]), IsReturn(events'[j]),
               events'[i].frame = events'[j].frame, events'[i].frame # 0
        PROVE  i = j
    BY <1>1, <1>7, <2>2 DEF ReturnsFound
  <2>3. ASSUME NEW f \in DOMAIN frames', frames'[f].outcome # Trapped
        PROVE  frames'[f].outcome = f /\ Returned(events', f, Len(events') + 1)
    BY <1>2, <1>7, <1>8, <2>3
  <2> QED BY <2>1, <2>2, <2>3 DEF ReturnsFound
<1>11. OpenFrames'
  BY <1>1, <1>2 DEF OpenFrames
<1>12. FailuresKept'
  BY <1>1, <1>2, <1>7 DEF FailuresKept, Members
<1>13. ASSUME ~caught' PROVE Paired'
  <2>1. Nested /\ Callers /\ Rollbacks
    BY <1>2, <1>13 DEF HostInv, Paired
  <2>2. ASSUME NEW i \in DOMAIN events', IsReturn(events'[i]),
               events'[i].frame \in DOMAIN frames
        PROVE  /\ i \in DOMAIN events /\ events'[i] = events[i]
               /\ \A f : Returned(events', f, i) <=> Returned(events, f, i)
    BY <1>3, <1>7, <2>2
  <2>3. Nested'
    BY <1>2, <2>1, <2>2 DEF Nested
  <2>4. Callers'
    BY <1>2, <1>7, <1>8, <2>1 DEF Callers, CalledBy
  <2>5. Rollbacks'
    BY <1>2, <1>7, <1>8, <2>1, <2>2 DEF Rollbacks
  <2> QED BY <2>3, <2>4, <2>5 DEF Paired
<1> QED BY <1>9, <1>10, <1>11, <1>12, <1>13 DEF HostInv

LEMMA InitHost == Init => HostInv
<1> SUFFICES ASSUME Init PROVE CallsFound /\ ReturnsFound /\ OpenFrames /\ FailuresKept /\ Paired
  BY DEF HostInv
<1>1. events = <<>> /\ frames = <<>> /\ open = <<>> /\ start = <<>>
  BY DEF Init
<1>2. DOMAIN events = {} /\ DOMAIN frames = {} /\ DOMAIN open = {}
  BY <1>1
<1>3. ~(caught \/ unwinding)
  BY Zenon DEF Init
<1> QED BY <1>1, <1>2, <1>3 DEF CallsFound, ReturnsFound, OpenFrames, FailuresKept, Paired,
             Nested, Callers, Rollbacks

LEMMA NextHost == TypeInv /\ HostInv /\ [Next]_vars => HostInv'
<1> SUFFICES ASSUME TypeInv, HostInv, [Next]_vars PROVE HostInv'
  OBVIOUS
<1>1. CASE Invoke
  BY <1>1, InvokeHost
<1>2. ASSUME UNCHANGED <<tracing, host>>, phase' # "running" => phase # "running"
      PROVE  HostInv'
  BY <1>2 DEF HostInv, host, CallsFound, ReturnsFound, OpenFrames, FailuresKept, Members,
     Paired, Nested, Callers, CalledBy, Rollbacks
<1>3. CASE ParserStep \/ UNCHANGED vars
  BY <1>2, <1>3 DEF ParserStep, Trace, Skip, PushCall, PopReturn, SkipOrphan, Drain,
     Draining, Reading, Parsed, vars
<1>4. CASE Call \/ Return \/ Fail \/ Publish \/ Orphan
  <2>1. tracing' = tracing
    BY <1>4 DEF Call, Return, Fail, Publish, Orphan
  <2>2. CASE ~tracing
    BY <2>1, <2>2 DEF HostInv
  <2>3. CASE tracing
    BY <1>4, <2>3, CallHost, ReturnHost, FailHost, PublishHost, OrphanHost
  <2> QED BY <2>2, <2>3
<1> QED BY <1>1, <1>3, <1>4 DEF Next, HostStep

-------------------------------------------------------------------------------
(* The parser and the event buffer.                                        *)

\* The parser works on the events that the frames left behind.
Comparable == phase \in {"parsing", "parsed"} /\ tracing /\ input = events

\* The calls before next have been made nodes of, with the frame's own number.
NodesRead ==
    /\ next <= Len(input) + 1
    /\ phase = "parsed" => next = Len(input) + 1 /\ stack = <<>>
    /\ \A f \in DOMAIN frames : f \in DOMAIN nodes <=> start[f] < next
    /\ DOMAIN nodes \subseteq DOMAIN frames
    /\ \A n \in DOMAIN nodes : nodes[n].call = n

\* A result stems from a return before next, and no return is used twice.
ReturnsUsed ==
    /\ \A n \in Members(attached) :
         nodes[n].result # Trapped => Returned(events, nodes[n].result, next)
    /\ \A m, n \in Members(attached) :
         m # n /\ nodes[m].result = nodes[n].result => nodes[m].result = Trapped

\* The stack holds what has not returned before next, ...
StackOpen ==
    \A n \in Members(stack) :
      ~Returned(events, n, next) /\ nodes[n].undone = events[start[n]].failed

\* ... the tree what has; at the end, the stack is emptied from its top.
AttachedClosed ==
    \A n \in Members(attached) :
      \/ Returned(events, n, next)
      \/ next > Len(input) /\ \A m \in Members(stack) : m < n

AttachedRight ==
    /\ \A n \in Members(attached) :
         /\ nodes[n].parent = frames[n].caller
         /\ nodes[n].result = frames[n].outcome
         /\ nodes[n].undone = frames[n].undone
    /\ \A i, j \in DOMAIN attached :
         i < j /\ nodes[attached[i]].parent = nodes[attached[j]].parent =>
           attached[i] < attached[j]

Faithful == StackOpen /\ AttachedClosed /\ AttachedRight

ParseInv == Comparable => NodesRead /\ ReturnsUsed /\ (~caught => Faithful)

CallTreeInv == TreeInv /\ HostInv /\ ParseInv

\* The types of what ParseInv is about, and what the host's part says about a
\* buffer that is being read.
ParseTypes ==
    /\ HostTypes /\ CallsFound /\ ReturnsFound
    /\ input = events
    /\ nodes \in Seq(TraceNode) /\ DOMAIN nodes = 1 .. Len(nodes) /\ Len(nodes) \in Nat
    /\ stack \in Seq(Nat) /\ attached \in Seq(Nat)
    /\ next \in Nat /\ next >= 1
    /\ Members(stack) \cup Members(attached) = DOMAIN nodes
    /\ \A n \in Members(stack) : n \notin Members(attached)
    /\ \A f \in DOMAIN frames : frames[f].outcome = Trapped => frames[f].undone = TRUE
    /\ \A f \in DOMAIN frames : f \in Nat /\ f # 0
    /\ \A i \in DOMAIN events : i \in Nat
    /\ \A f \in DOMAIN frames :
         frames[f].outcome = Trapped => \A p : ~Returned(events, f, p)

LEMMA ParseTyped ==
    ASSUME TreeInv, HostInv, Comparable
    PROVE  ParseTypes
<1>1. HostTypes /\ CallsFound /\ ReturnsFound /\ OpenFrames /\ FailuresKept
  BY HostTyped DEF TreeInv, HostInv, Comparable
<1>2. /\ nodes \in Seq(TraceNode) /\ stack \in Seq(Nat) /\ attached \in Seq(Nat)
      /\ next \in Nat /\ next >= 1
  BY DEF TreeInv, TypeInv, TypeOK
<1>3. DOMAIN nodes = 1 .. Len(nodes) /\ Len(nodes) \in Nat
  BY <1>2
<1>4. Members(stack) \cup Members(attached) = DOMAIN nodes
  BY DEF TreeInv, EachCallOnce
<1>5. \A n \in Members(stack) : n \notin Members(attached)
  BY DEF TreeInv, Apart, Members
<1>6. /\ \A f \in DOMAIN frames : f \in Nat /\ f # 0 /\ frames[f].undone \in BOOLEAN
      /\ \A i \in DOMAIN events : i \in Nat
  BY <1>1 DEF HostTypes
<1>7. ASSUME NEW f \in DOMAIN frames, frames[f].outcome = Trapped
      PROVE  frames[f].undone = TRUE
  <2>1. open = <<>>
    BY <1>1 DEF OpenFrames, Comparable
  <2>2. f \notin Members(open)
    BY <2>1 DEF Members
  <2>3. frames[f].undone
    BY <1>1, <1>7, <2>2 DEF FailuresKept
  <2> QED BY <1>6, <2>3
<1>8. ASSUME NEW f \in DOMAIN frames, frames[f].outcome = Trapped, NEW p,
             Returned(events, f, p)
      PROVE  FALSE
  BY <1>1, <1>6, <1>8 DEF Returned, ReturnsFound
<1>9. input = events
  BY DEF Comparable
<1> QED BY <1>1, <1>2, <1>3, <1>4, <1>5, <1>6, <1>7, <1>8, <1>9 DEF ParseTypes

\* What is read next is about a frame that has been called.
LEMMA NextRead ==
    ASSUME ParseTypes, Reading
    PROVE  /\ next \in DOMAIN events /\ input[next] = events[next]
           /\ next + 1 \in Nat /\ next < next + 1 /\ next + 1 <= Len(input) + 1
           /\ phase = "parsing"
           /\ ~IsCall(events[next]) =>
                \A f \in DOMAIN frames : start[f] < next + 1 <=> start[f] < next
           /\ \A f : Returned(events, f, next) => Returned(events, f, next + 1)
           /\ ~IsReturn(events[next]) =>
                \A f : Returned(events, f, next + 1) => Returned(events, f, next)
<1>1. /\ next \in DOMAIN events /\ input[next] = events[next]
      /\ next + 1 \in Nat /\ next < next + 1 /\ next + 1 <= Len(input) + 1
      /\ phase = "parsing"
  BY DEF ParseTypes, HostTypes, Reading
<1>2. ASSUME ~IsCall(events[next]), NEW f \in DOMAIN frames
      PROVE  start[f] < next + 1 <=> start[f] < next
  <2>1. start[f] # next /\ start[f] \in Nat
    BY <1>2 DEF ParseTypes, CallsFound, HostTypes
  <2> QED BY <1>1, <2>1 DEF ParseTypes
<1>3. \A f : Returned(events, f, next) => Returned(events, f, next + 1)
  BY ReturnedLater, <1>1 DEF ParseTypes, HostTypes
<1>4. ASSUME ~IsReturn(events[next]), NEW f, Returned(events, f, next + 1)
      PROVE  Returned(events, f, next)
  <2>1. PICK i \in DOMAIN events : i < next + 1 /\ IsReturn(events[i]) /\ events[i].frame = f
    BY <1>4 DEF Returned
  <2>2. i # next /\ i \in Nat
    BY <1>4, <2>1 DEF ParseTypes
  <2>3. i < next
    BY <1>1, <2>1, <2>2 DEF ParseTypes
  <2> QED BY <2>1, <2>3 DEF Returned
<1> QED BY <1>1, <1>2, <1>3, <1>4

LEMMA LastMember ==
    ASSUME NEW s \in Seq(Nat), s # <<>>
    PROVE  /\ Last(s) = s[Len(s)] /\ Len(s) \in DOMAIN s /\ DOMAIN s = 1 .. Len(s)
           /\ Last(s) \in Members(s)
<1>1. Last(s) = s[Len(s)] /\ Len(s) \in DOMAIN s
  BY FrontLast
<1> QED BY <1>1 DEF Members

\* Given what the parser has done so far, the frame on top of the stack is about
\* to be closed rightly.
Innermost(n) ==
    /\ n = Last(stack) /\ n \in Members(stack) /\ n \in DOMAIN nodes /\ n \in DOMAIN frames
    /\ start[n] < next /\ ~Returned(events, n, next)
    /\ \A m \in Members(stack) : m # n => m < n
    /\ stack # <<>>

LEMMA InnermostFacts ==
    ASSUME TreeInv, ParseTypes, NodesRead, Faithful, stack # <<>>
    PROVE  Innermost(Last(stack))
<1> DEFINE n == Last(stack)
<1>1. /\ n = stack[Len(stack)] /\ Len(stack) \in DOMAIN stack /\ DOMAIN stack = 1 .. Len(stack)
      /\ n \in Members(stack)
  BY LastMember DEF ParseTypes
<1>2. n \in Members(stack)
  BY <1>1
<1>3. n \in DOMAIN nodes /\ n \in DOMAIN frames
  BY <1>2 DEF ParseTypes, NodesRead
<1>4. start[n] < next /\ ~Returned(events, n, next)
  BY <1>2, <1>3 DEF NodesRead, Faithful, StackOpen
<1>5. ASSUME NEW m \in Members(stack), m # n PROVE m < n
  <2>1. PICK i \in DOMAIN stack : stack[i] = m
    BY DEF Members
  <2>2. i < Len(stack)
    BY <1>1, <1>5, <2>1
  <2> QED BY <1>1, <2>1, <2>2 DEF TreeInv, Ordered
<1> QED BY <1>2, <1>3, <1>4, <1>5 DEF Innermost

\* Its parent is its caller: below it on the stack is the last frame before it
\* that has not returned.
LEMMA ParentIsCaller ==
    ASSUME TreeInv, ParseTypes, NodesRead, Faithful, Nested, Callers,
           NEW n, Innermost(n)
    PROVE  Top(Front(stack)) = frames[n].caller
<1> DEFINE c == frames[n].caller
<1>1. /\ n \in DOMAIN frames /\ n \in Nat /\ c \in Nat /\ c < n
      /\ start[n] \in DOMAIN events /\ start[n] \in Nat
      /\ IsCall(events[start[n]])
      /\ c # Nobody => ~Returned(events, c, start[n])
      /\ \A h \in DOMAIN frames : c < h /\ h < n => Returned(events, h, start[n])
  BY DEF Innermost, Callers, CalledBy, ParseTypes, HostTypes, CallsFound
<1>2. /\ Members(stack) = Members(Front(stack)) \cup {n}
      /\ Front(stack) \in Seq(Nat)
      /\ \A i \in DOMAIN Front(stack) : i < Len(stack) /\ i \in DOMAIN stack
                                     /\ Front(stack)[i] = stack[i]
      /\ n = stack[Len(stack)] /\ Len(stack) \in DOMAIN stack
  <2>1. stack \in Seq(Nat) /\ stack # <<>> /\ n = Last(stack)
    BY DEF ParseTypes, Innermost
  <2>2. Members(stack) = Members(Front(stack)) \cup {n}
    BY <2>1, MembersFront
  <2>3. /\ Front(stack) \in Seq(Nat) /\ Len(stack) \in DOMAIN stack /\ n = stack[Len(stack)]
        /\ DOMAIN Front(stack) = DOMAIN stack \ {Len(stack)}
        /\ \A i \in DOMAIN Front(stack) : i < Len(stack) /\ Front(stack)[i] = stack[i]
    BY <2>1, FrontLast
  <2> QED BY <2>2, <2>3
<1>3. \A m \in Members(Front(stack)) : m < n /\ m \in DOMAIN frames
  <2>1. \A i \in DOMAIN Front(stack) : Front(stack)[i] < n
    BY <1>2 DEF TreeInv, Ordered
  <2>2. \A m \in Members(Front(stack)) : m < n
    BY <2>1 DEF Members
  <2> QED BY <1>2, <2>2 DEF ParseTypes, NodesRead
<1>4. \A m \in Members(Front(stack)) : m \in Nat /\ ~(c < m)
  <2> SUFFICES ASSUME NEW m \in Members(Front(stack)), c < m PROVE FALSE
    BY <1>3 DEF ParseTypes
  <2>1. Returned(events, m, start[n])
    BY <1>1, <1>3
  <2>2. Returned(events, m, next)
    BY <1>1, <2>1, ReturnedLater DEF ParseTypes, HostTypes, Innermost
  <2> QED BY <1>2, <2>2 DEF Faithful, StackOpen
<1>5. CASE c = Nobody
  <2>1. Front(stack) = <<>>
    <3> SUFFICES ASSUME Front(stack) # <<>> PROVE FALSE
      OBVIOUS
    <3>1. Last(Front(stack)) \in Members(Front(stack))
      BY <1>2, FrontLast DEF Members
    <3>2. c < Last(Front(stack))
      BY <1>3, <1>5, <3>1 DEF ParseTypes, Nobody
    <3> QED BY <1>4, <3>1, <3>2
  <2> QED BY <1>5, <2>1 DEF Top
<1>6. CASE c # Nobody
  <2>1. c \in DOMAIN frames
    BY <1>1, <1>6 DEF ParseTypes, HostTypes, Nobody
  <2>2. start[c] < start[n] /\ start[c] \in Nat
    BY <1>1, <2>1 DEF ParseTypes, HostTypes, CallsFound
  <2>3. c \in DOMAIN nodes
    BY <1>1, <2>1, <2>2 DEF Innermost, NodesRead, ParseTypes
  <2>4. ~Returned(events, c, next)
    <3> SUFFICES ASSUME Returned(events, c, next) PROVE FALSE
      OBVIOUS
    <3>1. PICK j \in DOMAIN events : j < next /\ IsReturn(events[j]) /\ events[j].frame = c
      BY DEF Returned
    <3>2. ~(j < start[n])
      BY <1>1, <1>6, <3>1 DEF Returned
    <3>3. j # start[n]
      BY <1>1, <3>1, EventKinds
    <3>4. start[n] < j /\ j \in Nat
      BY <1>1, <3>2, <3>3 DEF ParseTypes
    <3>5. Returned(events, n, j)
      BY <1>1, <2>1, <3>1, <3>4 DEF Nested
    <3>6. Returned(events, n, next)
      BY <3>1, <3>4, <3>5, ReturnedLater DEF ParseTypes, HostTypes
    <3> QED BY <3>6 DEF Innermost
  <2>5. c \in Members(stack)
    <3> SUFFICES ASSUME c \in Members(attached) PROVE FALSE
      BY <2>3 DEF ParseTypes
    <3>1. n < c
      BY <2>4 DEF Faithful, AttachedClosed, Innermost
    <3> QED BY <1>1, <3>1
  <2>6. c \in Members(Front(stack))
    BY <1>1, <1>2, <2>5
  <2>7. Front(stack) # <<>>
    BY <2>6 DEF Members
  <2> DEFINE l == Last(Front(stack))
  <2>8. l \in Members(Front(stack)) /\ l = Front(stack)[Len(Front(stack))]
        /\ Len(Front(stack)) \in DOMAIN Front(stack)
        /\ DOMAIN Front(stack) = 1 .. Len(Front(stack))
    BY <1>2, <2>7, LastMember
  <2>9. PICK i \in DOMAIN Front(stack) : Front(stack)[i] = c
    BY <2>6 DEF Members
  <2>10. i = Len(Front(stack)) \/ i < Len(Front(stack))
    BY <2>8
  <2>11. c <= l
    <3>1. CASE i = Len(Front(stack))
      BY <1>1, <2>8, <2>9, <3>1
    <3>2. CASE i < Len(Front(stack))
      <4>1. stack[i] < stack[Len(Front(stack))]
        BY <1>2, <2>8, <3>2 DEF TreeInv, Ordered
      <4> QED BY <1>1, <1>2, <1>4, <2>8, <2>9, <4>1
    <3> QED BY <2>10, <3>1, <3>2
  <2>12. l = c
    BY <1>1, <1>4, <2>8, <2>11
  <2> QED BY <2>7, <2>12 DEF Top
<1> QED BY <1>5, <1>6

\* The next return is its own.
LEMMA ReturnIsOwn ==
    ASSUME ParseTypes, NodesRead, Faithful, Nested, Reading, IsReturn(events[next]),
           NEW n, Innermost(n)
    PROVE  events[next].frame = n
<1> DEFINE g == events[next].frame
<1>1. next \in DOMAIN events
  BY NextRead
<1>2. ~(g = 0 /\ \A f \in DOMAIN frames : start[f] < next /\ Returned(events, f, next))
  BY DEF Innermost
<1>3. g \in DOMAIN frames /\ start[g] < next /\ g # 0 /\ g \in Nat
  BY <1>1, <1>2 DEF ParseTypes, ReturnsFound
<1>4. ~Returned(events, g, next)
  <2> SUFFICES ASSUME NEW i \in DOMAIN events, i < next, IsReturn(events[i]),
                      events[i].frame = g
               PROVE  FALSE
    BY DEF Returned
  <2>1. i = next
    BY <1>1, <1>3 DEF ParseTypes, ReturnsFound
  <2> QED BY <2>1 DEF ParseTypes
<1>5. g \in DOMAIN nodes
  BY <1>3 DEF NodesRead
<1>6. g \notin Members(attached)
  BY <1>4 DEF Faithful, AttachedClosed, Reading, ParseTypes, HostTypes
<1>7. g \in Members(stack)
  BY <1>5, <1>6 DEF ParseTypes
<1>8. ~(g < n)
  BY <1>1, <1>3 DEF Nested, Innermost
<1> QED BY <1>7, <1>8 DEF Innermost

\* It joins its parent's children last, and was called last of those that are there.
LEMMA YoungestChild ==
    ASSUME ParseTypes, NodesRead, Faithful, Callers, NEW n, Innermost(n),
           NEW m \in Members(attached), frames[m].caller = frames[n].caller
    PROVE  m < n
<1>1. /\ m \in DOMAIN nodes /\ m \in DOMAIN frames /\ m # n /\ m \in Nat /\ n \in Nat
      /\ n \in DOMAIN frames
  BY DEF ParseTypes, Innermost, NodesRead
<1>2. ~(n < m)
  <2> SUFFICES ASSUME n < m PROVE FALSE
    OBVIOUS
  <2>1. frames[n].caller < n
    BY <1>1 DEF Callers, CalledBy
  <2>2. Returned(events, n, start[m])
    BY <1>1, <2>1 DEF Callers, CalledBy
  <2>3. start[m] < next /\ start[m] \in Nat
    BY <1>1 DEF NodesRead, ParseTypes, HostTypes
  <2>4. Returned(events, n, next)
    BY <2>2, <2>3, ReturnedLater DEF ParseTypes, HostTypes
  <2> QED BY <2>4 DEF Innermost
<1> QED BY <1>1, <1>2

-------------------------------------------------------------------------------
(* The parser's steps.                                                     *)

\* What Attach does, field by field.
Attached(n, result, undone) ==
    /\ n = Last(stack) /\ n \in Members(stack) /\ n \in DOMAIN nodes
    /\ DOMAIN nodes' = DOMAIN nodes
    /\ nodes'[n].call = nodes[n].call
    /\ nodes'[n].parent = Top(Front(stack))
    /\ nodes'[n].result = result
    /\ nodes'[n].undone = (nodes[n].undone \/ undone)
    /\ \A m \in DOMAIN nodes : m # n => nodes'[m] = nodes[m]
    /\ Members(stack) = Members(stack') \cup {n}
    /\ n \notin Members(stack')
    /\ Members(attached') = Members(attached) \cup {n}
    /\ DOMAIN attached' = DOMAIN attached \cup {Len(attached) + 1}
    /\ \A i \in DOMAIN attached : i < Len(attached) + 1 /\ attached'[i] = attached[i]
    /\ attached'[Len(attached) + 1] = n
    /\ Len(attached) \in Nat /\ \A i \in DOMAIN attached : i \in Nat

LEMMA AttachFields ==
    ASSUME TreeInv, stack # <<>>, NEW result \in Nat, NEW undone \in BOOLEAN,
           Attach(result, undone)
    PROVE  Attached(Last(stack), result, undone)
<1>0. PICK n : n = Last(stack)
  OBVIOUS
<1>1. TypeOK /\ nodes \in Seq(TraceNode) /\ stack \in Seq(Nat) /\ attached \in Seq(Nat)
  BY DEF TreeInv, TypeInv, TypeOK
<1>2. /\ DOMAIN nodes' = DOMAIN nodes /\ n \in DOMAIN nodes
      /\ \A m \in DOMAIN nodes : m # n => nodes'[m] = nodes[m]
      /\ stack' = Front(stack) /\ attached' = Append(attached, n)
  BY <1>0, <1>1, Attaching
<1>3. /\ n = stack[Len(stack)] /\ Len(stack) \in DOMAIN stack /\ n \in Members(stack) /\ n \in Nat
      /\ DOMAIN stack = 1 .. Len(stack)
  BY <1>0, <1>1, LastMember, FrontLast
<1>4. Members(stack) = Members(stack') \cup {n}
  BY <1>0, <1>1, <1>2, MembersFront
<1>5. n \notin Members(stack')
  <2> SUFFICES ASSUME NEW i \in DOMAIN stack', stack'[i] = n PROVE FALSE
    BY DEF Members
  <2>1. i \in DOMAIN stack /\ i < Len(stack) /\ stack[i] = n
    BY <1>1, <1>2, FrontLast
  <2>2. stack[i] < stack[Len(stack)]
    BY <1>3, <2>1 DEF TreeInv, Ordered
  <2> QED BY <1>3, <2>1, <2>2
<1>6. Members(attached') = Members(attached) \cup {n}
  BY <1>1, <1>2, <1>3, MembersAppend
<1>7. /\ DOMAIN attached' = DOMAIN attached \cup {Len(attached) + 1}
      /\ \A i \in DOMAIN attached : i < Len(attached) + 1 /\ attached'[i] = attached[i]
      /\ attached'[Len(attached) + 1] = n
      /\ Len(attached) \in Nat /\ \A i \in DOMAIN attached : i \in Nat
  BY <1>1, <1>2, <1>3, AppendFacts
<1>8. nodes' = [nodes EXCEPT ![n] = [nodes[n] EXCEPT !.parent = Top(Front(stack)),
                                       !.result = result, !.undone = @ \/ undone]]
  BY <1>0, <1>1, <1>2 DEF Attach
<1>9. nodes[n] \in TraceNode
  BY <1>1, <1>2
<1>10. /\ nodes'[n].call = nodes[n].call
       /\ nodes'[n].parent = Top(Front(stack))
       /\ nodes'[n].result = result
       /\ nodes'[n].undone = (nodes[n].undone \/ undone)
  BY <1>1, <1>2, <1>8, <1>9 DEF TraceNode
<1> QED BY <1>0, <1>2, <1>3, <1>4, <1>5, <1>6, <1>7, <1>10 DEF Attached

\* The facts about the frame on top carry over when it is attached, with the
\* frame's own values.
LEMMA AttachFaithful ==
    ASSUME TreeInv, ParseTypes, NodesRead, Faithful, Callers,
           NEW n, Innermost(n), NEW result, NEW undone, Attached(n, result, undone),
           UNCHANGED <<input, host>>, NEW p \in Nat, next' = p, next <= p,
           Top(Front(stack)) = frames[n].caller,
           result = frames[n].outcome,
           (nodes[n].undone \/ undone) = frames[n].undone,
           \A m \in DOMAIN frames : m # n =>
             (Returned(events, m, p) <=> Returned(events, m, next)),
           Returned(events, n, p) \/ p > Len(input)
    PROVE  Faithful'
<1>1. UNCHANGED <<events, frames, start, input>>
  BY DEF host
<1>2. /\ Members(stack') \subseteq Members(stack) \ {n}
      /\ Members(stack) \subseteq DOMAIN nodes /\ DOMAIN nodes \subseteq DOMAIN frames
      /\ Members(attached) \subseteq DOMAIN nodes
      /\ n \notin Members(attached)
      /\ \A m \in DOMAIN nodes : m # n => nodes'[m] = nodes[m]
      /\ Members(attached') = Members(attached) \cup {n}
  BY DEF Attached, ParseTypes, NodesRead, Innermost
<1>3. StackOpen'
  BY <1>1, <1>2 DEF Faithful, StackOpen
<1>4. AttachedClosed'
  <2> SUFFICES ASSUME NEW m \in Members(attached')
               PROVE  \/ Returned(events, m, p)
                      \/ p > Len(input) /\ \A k \in Members(stack') : k < m
    BY <1>1 DEF AttachedClosed
  <2>1. CASE m = n
    BY <1>2, <2>1 DEF Innermost
  <2>2. CASE m # n
    <3>1. m \in Members(attached) /\ m \in DOMAIN frames
      BY <1>2, <2>2
    <3>2. Len(input) \in Nat /\ next \in Nat
      BY DEF ParseTypes, HostTypes
    <3> QED BY <1>2, <2>2, <3>1, <3>2 DEF Faithful, AttachedClosed
  <2> QED BY <2>1, <2>2
<1>5. AttachedRight'
  <2>1. ASSUME NEW m \in Members(attached')
        PROVE  /\ nodes'[m].parent = frames[m].caller
               /\ nodes'[m].result = frames[m].outcome
               /\ nodes'[m].undone = frames[m].undone
    <3>1. CASE m = n
      BY <3>1 DEF Attached
    <3>2. CASE m # n
      BY <1>2, <3>2 DEF Faithful, AttachedRight
    <3> QED BY <3>1, <3>2
  <2>2. ASSUME NEW i \in DOMAIN attached', NEW j \in DOMAIN attached', i < j,
               nodes'[attached'[i]].parent = nodes'[attached'[j]].parent
        PROVE  attached'[i] < attached'[j]
    <3>1. i \in DOMAIN attached /\ attached'[i] = attached[i] /\ attached[i] \in Members(attached)
      BY <2>2 DEF Attached, Members
    <3>2. CASE j = Len(attached) + 1
      <4>1. attached'[j] = n /\ frames[attached[i]].caller = frames[n].caller
        BY <1>2, <2>1, <2>2, <3>1, <3>2 DEF Attached
      <4> QED BY <3>1, <4>1, YoungestChild
    <3>3. CASE j \in DOMAIN attached
      <4>1. attached'[j] = attached[j] /\ attached[j] \in Members(attached)
        BY <3>3 DEF Attached, Members
      <4>2. nodes[attached[i]].parent = nodes[attached[j]].parent
        BY <1>2, <2>2, <3>1, <4>1
      <4> QED BY <2>2, <3>1, <3>3, <4>1, <4>2 DEF Faithful, AttachedRight
    <3> QED BY <3>2, <3>3 DEF Attached
  <2> QED BY <1>1, <2>1, <2>2 DEF AttachedRight
<1> QED BY <1>3, <1>4, <1>5 DEF Faithful

\* Neither a call nor an own return: the parser moves on.
LEMMA MoveOn ==
    ASSUME ParseTypes, NodesRead, ReturnsUsed, ~caught => Faithful, Reading,
           ~IsCall(events[next]), IsReturn(events[next]) => stack = <<>>,
           next' = next + 1, UNCHANGED <<phase, tracing, host, input, nodes, stack, attached>>
    PROVE  NodesRead' /\ ReturnsUsed' /\ (~caught' => Faithful')
<1>1. UNCHANGED <<events, frames, start, caught>>
  BY DEF host
<1>2. /\ next + 1 \in Nat /\ next + 1 <= Len(input) + 1 /\ phase = "parsing"
      /\ \A f \in DOMAIN frames : start[f] < next + 1 <=> start[f] < next
      /\ \A f : Returned(events, f, next) => Returned(events, f, next + 1)
      /\ ~IsReturn(events[next]) =>
           \A f : Returned(events, f, next + 1) => Returned(events, f, next)
  BY NextRead
<1>3. NodesRead'
  BY <1>1, <1>2 DEF NodesRead
<1>4. ReturnsUsed'
  BY <1>1, <1>2 DEF ReturnsUsed, Members
<1>5. ASSUME ~caught PROVE Faithful'
  <2>1. Faithful
    BY <1>5
  <2>2. StackOpen'
    <3>1. CASE stack = <<>>
      BY <3>1 DEF StackOpen, Members
    <3>2. CASE stack # <<>>
      BY <1>1, <1>2, <2>1, <3>2 DEF Faithful, StackOpen, Members
    <3> QED BY <3>1, <3>2
  <2>3. AttachedClosed'
    <3>1. ~(next > Len(input))
      BY DEF Reading, ParseTypes, HostTypes
    <3> QED BY <1>1, <1>2, <2>1, <3>1 DEF Faithful, AttachedClosed, Members
  <2>4. AttachedRight'
    BY <1>1, <2>1 DEF Faithful, AttachedRight, Members
  <2> QED BY <2>2, <2>3, <2>4 DEF Faithful
<1> QED BY <1>1, <1>3, <1>4, <1>5

LEMMA PushParse ==
    ASSUME TreeInv, ParseTypes, NodesRead, ReturnsUsed, ~caught => Faithful, PushCall
    PROVE  NodesRead' /\ ReturnsUsed' /\ (~caught' => Faithful')
<1>0. PICK n : n = Len(nodes) + 1
  OBVIOUS
<1>1. Reading /\ IsCall(input[next]) /\ next' = next + 1
      /\ UNCHANGED <<phase, tracing, host, input, attached>>
  BY DEF PushCall
<1>2. UNCHANGED <<events, frames, start, caught>>
  BY <1>1 DEF host
<1>3. /\ next \in DOMAIN events /\ input[next] = events[next] /\ IsCall(events[next])
      /\ next + 1 \in Nat /\ next + 1 <= Len(input) + 1 /\ next \in Nat /\ next < next + 1
      /\ phase = "parsing"
      /\ ~IsReturn(events[next])
      /\ \A f : Returned(events, f, next + 1) <=> Returned(events, f, next)
  <2>1. IsCall(events[next]) /\ ~IsReturn(events[next])
    BY <1>1, NextRead, EventKinds
  <2> QED BY <1>1, <2>1, NextRead DEF ParseTypes
<1>4. TypeOK
  BY DEF TreeInv, TypeInv
<1>5. /\ DOMAIN nodes' = DOMAIN nodes \cup {n} /\ n \notin DOMAIN nodes
      /\ \A m \in DOMAIN nodes : m < n /\ nodes'[m] = nodes[m]
      /\ Members(stack') = Members(stack) \cup {n}
  BY <1>0, <1>4, Pushing
<1>6. nodes'[n].call = events[next].frame /\ nodes'[n].undone = events[next].failed
  <2> DEFINE new == [call |-> input[next].frame, parent |-> Nobody,
                     result |-> Trapped, undone |-> input[next].failed]
  <2>1. nodes' = Append(nodes, new)
    BY DEF PushCall
  <2> HIDE DEF new
  <2>2. nodes'[n] = new
    BY <1>0, <2>1 DEF ParseTypes
  <2> QED BY <1>3, <2>2 DEF new
<1>7. PICK f \in DOMAIN frames : f = events[next].frame /\ start[f] = next
  BY <1>3 DEF ParseTypes, CallsFound
<1>8. \A g \in DOMAIN frames : /\ g < f => start[g] < next
                               /\ g > f => ~(start[g] < next + 1)
                               /\ g \in Nat /\ start[g] \in Nat
  <2>1. \A g \in DOMAIN frames : g \in Nat /\ start[g] \in Nat
    BY DEF ParseTypes, HostTypes
  <2>2. \A g \in DOMAIN frames : (g < f => start[g] < start[f]) /\ (f < g => start[f] < start[g])
    BY <1>7 DEF ParseTypes, CallsFound
  <2> QED BY <1>3, <1>7, <2>1, <2>2
<1>9. f = n
  <2>1. f \notin DOMAIN nodes /\ f \in Nat /\ f >= 1
    BY <1>3, <1>7 DEF NodesRead, ParseTypes, HostTypes
  <2>2. ~(f > n)
    <3> SUFFICES ASSUME f > n PROVE FALSE
      OBVIOUS
    <3>1. n \in DOMAIN frames /\ n < f
      BY <1>0, <1>7, <2>1 DEF ParseTypes, HostTypes
    <3>2. n \in DOMAIN nodes
      BY <1>8, <3>1 DEF NodesRead
    <3> QED BY <1>5, <3>2
  <2>3. ~(f < n)
    BY <1>0, <2>1 DEF ParseTypes
  <2> QED BY <1>0, <2>1, <2>2, <2>3 DEF ParseTypes
<1>10. NodesRead'
  <2>1. ASSUME NEW g \in DOMAIN frames PROVE g \in DOMAIN nodes' <=> start[g] < next + 1
    <3>1. CASE g = n
      BY <1>3, <1>5, <1>7, <1>9, <3>1
    <3>2. CASE g < n
      <4>1. start[g] < next
        BY <1>8, <1>9, <3>2
      <4> QED BY <1>3, <1>5, <1>8, <4>1 DEF NodesRead
    <3>3. CASE g > n
      <4>1. ~(start[g] < next + 1) /\ ~(start[g] < next)
        BY <1>3, <1>8, <1>9, <3>3
      <4>2. g \notin DOMAIN nodes /\ g # n
        BY <1>0, <1>8, <3>3, <4>1 DEF NodesRead, ParseTypes
      <4> QED BY <1>5, <4>1, <4>2
    <3> QED BY <1>0, <1>8, <3>1, <3>2, <3>3 DEF ParseTypes
  <2>2. \A m \in DOMAIN nodes' : nodes'[m].call = m
    BY <1>5, <1>6, <1>7, <1>9 DEF NodesRead
  <2>3. DOMAIN nodes' \subseteq DOMAIN frames
    BY <1>5, <1>9 DEF NodesRead
  <2> QED BY <1>1, <1>2, <1>3, <2>1, <2>2, <2>3 DEF NodesRead
<1>11. Members(attached') = Members(attached) /\ Members(attached) \subseteq DOMAIN nodes
       /\ Members(stack) \subseteq DOMAIN nodes
  BY <1>1 DEF ParseTypes
<1>12. ReturnsUsed'
  BY <1>1, <1>2, <1>3, <1>5, <1>11 DEF ReturnsUsed
<1>13. ASSUME ~caught PROVE Faithful'
  <2>1. Faithful
    BY <1>13
  <2>2. ~Returned(events, n, next + 1)
    <3> SUFFICES ASSUME NEW i \in DOMAIN events, i < next, IsReturn(events[i]), events[i].frame = n
                 PROVE  FALSE
      BY <1>3 DEF Returned
    <3>1. start[n] < i
      BY <1>9 DEF ParseTypes, ReturnsFound
    <3> QED BY <1>3, <1>7, <1>9, <3>1 DEF ParseTypes
  <2>3. StackOpen'
    BY <1>1, <1>2, <1>3, <1>5, <1>6, <1>7, <1>9, <1>11, <2>1, <2>2 DEF Faithful, StackOpen
  <2>4. AttachedClosed'
    <3>1. ~(next > Len(input))
      BY <1>1 DEF Reading, ParseTypes, HostTypes
    <3> QED BY <1>1, <1>2, <1>3, <1>11, <2>1, <3>1 DEF Faithful, AttachedClosed
  <2>5. AttachedRight'
    BY <1>1, <1>2, <1>5, <1>11, <2>1 DEF Faithful, AttachedRight, Members
  <2> QED BY <2>3, <2>4, <2>5 DEF Faithful
<1> QED BY <1>2, <1>10, <1>12, <1>13

\* A result that is set, whatever was caught.
LEMMA UsingReturn ==
    ASSUME ParseTypes, NodesRead, ReturnsUsed, NEW n, NEW r, NEW undone,
           Attached(n, r, undone), UNCHANGED <<phase, input, host>>,
           NEW p \in Nat, next' = p, next <= p, p <= Len(input) + 1,
           phase = "parsing",
           \A f \in DOMAIN frames : start[f] < p <=> start[f] < next,
           r # Trapped => Returned(events, r, p) /\ ~Returned(events, r, next)
    PROVE  NodesRead' /\ ReturnsUsed'
<1>1. UNCHANGED <<events, frames, start>>
  BY DEF host
<1>2. NodesRead'
  BY <1>1 DEF NodesRead, Attached
<1>3. \A f : Returned(events, f, next) => Returned(events, f, p)
  BY ReturnedLater DEF ParseTypes, HostTypes
<1>4. /\ Members(attached') = Members(attached) \cup {n}
      /\ \A m \in Members(attached) : m # n => nodes'[m] = nodes[m]
      /\ nodes'[n].result = r /\ n \notin Members(attached)
  BY DEF Attached, ParseTypes
<1>5. ReturnsUsed'
  BY <1>1, <1>3, <1>4 DEF ReturnsUsed
<1> QED BY <1>2, <1>5

LEMMA PopParse ==
    ASSUME TreeInv, HostInv, Comparable, ParseInv, PopReturn
    PROVE  NodesRead' /\ ReturnsUsed' /\ (~caught' => Faithful')
<1>0. PICK n, p : n = Last(stack) /\ p = next + 1
  OBVIOUS
<1>1. ParseTypes /\ NodesRead /\ ReturnsUsed /\ (~caught => Faithful)
  BY ParseTyped DEF ParseInv
<1>2. /\ Reading /\ IsReturn(input[next]) /\ stack # <<>> /\ next' = p
      /\ Attach(input[next].frame, input[next].failed)
      /\ UNCHANGED <<phase, tracing, host, input>>
  BY <1>0 DEF PopReturn
<1>3. UNCHANGED <<events, frames, start, caught>>
  BY <1>2 DEF host
<1>4. /\ next \in DOMAIN events /\ input[next] = events[next] /\ IsReturn(events[next])
      /\ p \in Nat /\ next < p /\ next <= p /\ p <= Len(input) + 1 /\ phase = "parsing"
      /\ \A f \in DOMAIN frames : start[f] < p <=> start[f] < next
  <2>1. /\ next \in DOMAIN events /\ input[next] = events[next]
        /\ next + 1 \in Nat /\ next < next + 1 /\ next + 1 <= Len(input) + 1
        /\ phase = "parsing"
        /\ ~IsCall(events[next]) =>
             \A f \in DOMAIN frames : start[f] < next + 1 <=> start[f] < next
    BY <1>1, <1>2, NextRead
  <2>2. IsReturn(events[next]) /\ ~IsCall(events[next])
    BY <1>2, <2>1, EventKinds
  <2>3. next <= next + 1
    BY <1>1 DEF ParseTypes
  <2> QED BY <1>0, <2>1, <2>2, <2>3
<1>5. events[next].frame \in Nat /\ events[next].failed \in BOOLEAN /\ next \in Nat
  BY <1>1, <1>4 DEF ParseTypes, HostTypes
<1>6. Attached(n, events[next].frame, events[next].failed)
  BY <1>0, <1>2, <1>4, <1>5, AttachFields
<1>7. \A f : Returned(events, f, p) <=> Returned(events, f, next) \/ f = events[next].frame
  BY <1>0, <1>1, <1>4, <1>5 DEF Returned, ParseTypes
<1>8. events[next].frame # 0 => ~Returned(events, events[next].frame, next)
  <2> SUFFICES ASSUME events[next].frame # 0, NEW i \in DOMAIN events, i < next,
                      IsReturn(events[i]), events[i].frame = events[next].frame
               PROVE  FALSE
    BY DEF Returned
  <2>1. i = next
    BY <1>1, <1>4 DEF ParseTypes, ReturnsFound
  <2> QED BY <1>5, <2>1
<1>9. NodesRead' /\ ReturnsUsed'
  BY <1>1, <1>2, <1>4, <1>6, <1>7, <1>8, UsingReturn DEF Trapped
<1>10. ASSUME ~caught PROVE Faithful'
  <2>1. Faithful /\ Nested /\ Callers /\ Rollbacks
    BY <1>1, <1>10 DEF HostInv, Paired, Comparable
  <2>2. Innermost(n)
    BY <1>0, <1>1, <1>2, <2>1, InnermostFacts
  <2>3. events[next].frame = n
    BY <1>1, <1>2, <1>4, <2>1, <2>2, ReturnIsOwn
  <2>4. Top(Front(stack)) = frames[n].caller
    BY <1>1, <2>1, <2>2, ParentIsCaller
  <2>5. n \in DOMAIN frames /\ n \in Members(stack) /\ n # 0
    BY <1>1, <2>2 DEF Innermost, ParseTypes
  <2>6. frames[n].outcome = n
    BY <1>1, <1>4, <2>3, <2>5 DEF ParseTypes, ReturnsFound
  <2>7. (nodes[n].undone \/ events[next].failed) = frames[n].undone
    <3>1. nodes[n].undone = events[start[n]].failed
      BY <2>1, <2>5 DEF Faithful, StackOpen
    <3>2. frames[n].undone <=> (events[start[n]].failed \/ events[next].failed)
      BY <1>4, <2>1, <2>3, <2>5 DEF Rollbacks
    <3>3. frames[n].undone \in BOOLEAN
      BY <1>1, <2>5 DEF ParseTypes, HostTypes
    <3> QED BY <3>1, <3>2, <3>3
  <2>8. \A m \in DOMAIN frames : m # n =>
          (Returned(events, m, p) <=> Returned(events, m, next))
    BY <1>7, <2>3
  <2>9. Returned(events, n, p) \/ p > Len(input)
    BY <1>7, <2>3
  <2>10. Attached(n, n, events[next].failed)
    BY <1>6, <2>3
  <2> QED BY <1>1, <1>2, <1>4, <2>1, <2>2, <2>4, <2>6, <2>7, <2>8, <2>9, <2>10,
             AttachFaithful
<1> QED BY <1>3, <1>9, <1>10

LEMMA DrainParse ==
    ASSUME TreeInv, HostInv, Comparable, ParseInv, Drain
    PROVE  NodesRead' /\ ReturnsUsed' /\ (~caught' => Faithful')
<1>0. PICK n, p : n = Last(stack) /\ p = next
  OBVIOUS
<1>1. ParseTypes /\ NodesRead /\ ReturnsUsed /\ (~caught => Faithful)
  BY ParseTyped DEF ParseInv
<1>2. /\ phase = "parsing" /\ next > Len(input) /\ stack # <<>> /\ next' = p
      /\ Attach(Trapped, TRUE)
      /\ UNCHANGED <<phase, tracing, host, input>>
  BY <1>0 DEF Drain, Draining
<1>3. UNCHANGED <<events, frames, start, caught>>
  BY <1>2 DEF host
<1>4. p \in Nat /\ next <= p /\ p <= Len(input) + 1 /\ Trapped \in Nat /\ p > Len(input)
  BY <1>0, <1>1, <1>2 DEF ParseTypes, NodesRead, Trapped
<1>5. Attached(n, Trapped, TRUE)
  BY <1>0, <1>2, <1>4, AttachFields
<1>6. NodesRead' /\ ReturnsUsed'
  BY <1>0, <1>1, <1>2, <1>4, <1>5, UsingReturn
<1>7. ASSUME ~caught PROVE Faithful'
  <2>1. Faithful /\ Nested /\ Callers
    BY <1>1, <1>7 DEF HostInv, Paired, Comparable
  <2>2. Innermost(n)
    BY <1>0, <1>1, <1>2, <2>1, InnermostFacts
  <2>3. Top(Front(stack)) = frames[n].caller
    BY <1>1, <2>1, <2>2, ParentIsCaller
  <2>4. n \in DOMAIN frames
    BY <2>2 DEF Innermost
  <2>5. frames[n].outcome = Trapped
    <3> SUFFICES ASSUME frames[n].outcome # Trapped PROVE FALSE
      OBVIOUS
    <3>1. Returned(events, n, Len(events) + 1)
      BY <1>1, <2>4 DEF ParseTypes, ReturnsFound
    <3>2. Len(events) + 1 <= next /\ Len(events) + 1 \in Nat /\ next \in Nat
      BY <1>1, <1>2 DEF ParseTypes, HostTypes
    <3>3. Returned(events, n, next)
      BY <1>1, <3>1, <3>2, ReturnedLater DEF ParseTypes, HostTypes
    <3> QED BY <2>2, <3>3 DEF Innermost
  <2>6. (nodes[n].undone \/ TRUE) = frames[n].undone
    BY <1>1, <2>4, <2>5 DEF ParseTypes
  <2> QED BY <1>0, <1>1, <1>2, <1>4, <1>5, <2>1, <2>2, <2>3, <2>5, <2>6, AttachFaithful
<1> QED BY <1>3, <1>6, <1>7

LEMMA NextParse ==
    ASSUME TreeInv, HostInv, ParseInv, [Next]_vars
    PROVE  ParseInv'
<1> SUFFICES ASSUME Comparable' PROVE NodesRead' /\ ReturnsUsed' /\ (~caught' => Faithful')
  BY DEF ParseInv
<1>1. CASE HostStep
  <2>1. phase' \notin {"parsing", "parsed"}
    BY <1>1 DEF HostStep, Invoke, Call, Return, Fail, Publish, Orphan, GoOn, PopFrame
  <2> QED BY <2>1 DEF Comparable
<1>2. CASE Trace
  <2>1. /\ next' = 1 /\ nodes' = <<>> /\ stack' = <<>> /\ attached' = <<>>
        /\ phase' = "parsing" /\ UNCHANGED <<tracing, host>>
    BY <1>2 DEF Trace
  <2>2. UNCHANGED <<events, frames, start>> /\ tracing /\ input' = events
    BY <2>1 DEF host, Comparable
  <2>3. HostTypes /\ CallsFound
    BY <2>2, HostTyped DEF TreeInv, HostInv
  <2>4. \A f \in DOMAIN frames : ~(start[f] < 1)
    BY <2>3 DEF HostTypes, CallsFound
  <2>5. 1 <= Len(input') + 1
    BY <2>2, <2>3 DEF HostTypes
  <2>6. NodesRead'
    BY <2>1, <2>2, <2>4, <2>5 DEF NodesRead
  <2>7. ReturnsUsed' /\ Faithful'
    BY <2>1 DEF ReturnsUsed, Faithful, StackOpen, AttachedClosed, AttachedRight, Members
  <2> QED BY <2>6, <2>7
<1>3. ASSUME UNCHANGED <<tracing, host, input>>, phase \in {"parsing", "parsed"}
      PROVE  Comparable /\ ParseTypes /\ NodesRead /\ ReturnsUsed /\ (~caught => Faithful)
  BY <1>3, ParseTyped DEF ParseInv, Comparable, host
<1>4. CASE Skip \/ SkipOrphan
  <2>1. /\ Reading /\ ~IsCall(input[next]) /\ next' = next + 1
        /\ IsReturn(input[next]) => stack = <<>>
        /\ UNCHANGED <<phase, tracing, host, input, nodes, stack, attached>>
    BY <1>4, EventKinds DEF Skip, SkipOrphan
  <2>2. ParseTypes /\ NodesRead /\ ReturnsUsed /\ (~caught => Faithful) /\ input = events
    BY <1>3, <2>1 DEF Reading, ParseTypes
  <2> QED BY <2>1, <2>2, MoveOn
<1>5. CASE PushCall
  <2>1. UNCHANGED <<tracing, host, input>> /\ phase = "parsing"
    BY <1>5 DEF PushCall, Reading
  <2> QED BY <1>3, <1>5, <2>1, PushParse
<1>6. CASE PopReturn
  <2>1. UNCHANGED <<tracing, host, input>> /\ phase = "parsing"
    BY <1>6 DEF PopReturn, Reading
  <2> QED BY <1>3, <1>6, <2>1, PopParse
<1>7. CASE Drain
  <2>1. UNCHANGED <<tracing, host, input>> /\ phase = "parsing"
    BY <1>7 DEF Drain, Draining
  <2> QED BY <1>3, <1>7, <2>1, DrainParse
<1>8. CASE Parsed
  <2>1. /\ phase = "parsing" /\ next > Len(input) /\ stack = <<>> /\ phase' = "parsed"
        /\ UNCHANGED <<tracing, host, parser>>
    BY <1>8 DEF Parsed
  <2>2. ParseTypes /\ NodesRead /\ ReturnsUsed /\ (~caught => Faithful)
    BY <1>3, <2>1 DEF parser
  <2>3. next = Len(input) + 1
    BY <2>1, <2>2 DEF ParseTypes, HostTypes, NodesRead
  <2>4. UNCHANGED <<events, frames, start, caught, input, next, nodes, stack, attached>>
    BY <2>1 DEF host, parser
  <2>5. NodesRead'
    BY <2>1, <2>2, <2>3, <2>4 DEF NodesRead
  <2> QED BY <2>2, <2>4, <2>5 DEF ReturnsUsed, Faithful, StackOpen, AttachedClosed,
             AttachedRight, Members
<1>9. CASE UNCHANGED vars
  BY <1>9 DEF vars, host, parser, ParseInv, Comparable, NodesRead, ReturnsUsed, Faithful,
     StackOpen, AttachedClosed, AttachedRight, Members
<1> QED BY <1>1, <1>2, <1>4, <1>5, <1>6, <1>7, <1>8, <1>9 DEF Next, ParserStep

LEMMA InitCallTreeInv == Init => CallTreeInv
<1> SUFFICES ASSUME Init PROVE ParseInv
  BY InitTreeInv, InitHost DEF CallTreeInv
<1> QED BY DEF Init, ParseInv, Comparable

LEMMA NextCallTreeInv == CallTreeInv /\ [Next]_vars => CallTreeInv'
BY NextTreeInv, NextHost, NextParse DEF CallTreeInv, TreeInv

-------------------------------------------------------------------------------
(* What the finished tree says.                                            *)

LEMMA Finished ==
    ASSUME CallTreeInv, Complete
    PROVE  /\ ParseTypes /\ NodesRead /\ ReturnsUsed
           /\ ~caught => Faithful
           /\ DOMAIN nodes = DOMAIN frames /\ Len(nodes) = Len(frames)
           /\ Members(attached) = DOMAIN frames
<1>1. Comparable
  BY DEF Complete, Comparable
<1>2. ParseTypes /\ NodesRead /\ ReturnsUsed /\ (~caught => Faithful)
  BY <1>1, ParseTyped DEF CallTreeInv, ParseInv
<1>3. next = Len(events) + 1 /\ stack = <<>>
  BY <1>2 DEF NodesRead, Complete
<1>4. \A f \in DOMAIN frames : start[f] < next
  BY <1>2, <1>3 DEF ParseTypes, CallsFound, HostTypes
<1>5. DOMAIN nodes = DOMAIN frames
  BY <1>2, <1>4 DEF NodesRead
<1>6. Len(nodes) = Len(frames)
  <2>1. PICK k, l : k = Len(nodes) /\ l = Len(frames)
    OBVIOUS
  <2>2. k \in Nat /\ l \in Nat /\ DOMAIN nodes = 1 .. k /\ DOMAIN frames = 1 .. l
    BY <1>2, <2>1 DEF ParseTypes, HostTypes
  <2>3. \A i : i \in 1 .. k <=> i \in 1 .. l
    BY <1>5, <2>2, Zenon
  <2>4. (k # 0 => k \in 1 .. l) /\ (l # 0 => l \in 1 .. k)
    BY <2>2, <2>3
  <2> QED BY <2>1, <2>2, <2>4
<1>7. Members(attached) = DOMAIN frames
  <2>1. Members(stack) = {}
    BY <1>3 DEF Members
  <2> QED BY <1>2, <1>5, <2>1 DEF ParseTypes
<1> QED BY <1>2, <1>5, <1>6, <1>7

\* The tree is that of the calls that were made: callers, results, what was rolled
\* back and the order of the children, as long as no failure was caught.
THEOREM SpecTreeIsCallTree == Spec => []TreeIsCallTree
<1>1. CallTreeInv => TreeIsCallTree
  <2> SUFFICES ASSUME CallTreeInv, Complete, ~caught
               PROVE  /\ Len(nodes) = Len(frames)
                      /\ \A f \in DOMAIN frames :
                           nodes[f] = [call |-> f, parent |-> frames[f].caller,
                                       result |-> frames[f].outcome,
                                       undone |-> frames[f].undone]
                      /\ \A i, j \in DOMAIN attached :
                           i < j /\ nodes[attached[i]].parent = nodes[attached[j]].parent =>
                             attached[i] < attached[j]
    BY DEF TreeIsCallTree
  <2>1. /\ ParseTypes /\ NodesRead /\ AttachedRight
        /\ DOMAIN nodes = DOMAIN frames /\ Len(nodes) = Len(frames)
        /\ Members(attached) = DOMAIN frames
    BY Finished DEF Faithful
  <2>2. ASSUME NEW f \in DOMAIN frames
        PROVE  nodes[f] = [call |-> f, parent |-> frames[f].caller,
                           result |-> frames[f].outcome, undone |-> frames[f].undone]
    <3>1. nodes[f] \in TraceNode
      BY <2>1 DEF ParseTypes
    <3>2. /\ nodes[f].call = f /\ nodes[f].parent = frames[f].caller
          /\ nodes[f].result = frames[f].outcome /\ nodes[f].undone = frames[f].undone
      BY <2>1 DEF NodesRead, AttachedRight
    <3> QED BY <3>1, <3>2 DEF TraceNode
  <2> QED BY <2>1, <2>2 DEF AttachedRight
<1> QED BY <1>1, InitCallTreeInv, NextCallTreeInv, PTL DEF Spec

\* If all results are those of returns, every frame has returned: a result for
\* each frame, no two of them the same.
LEMMA AllUsed ==
    ASSUME CallTreeInv, Complete, \A n \in DOMAIN frames : nodes[n].result # Trapped,
           NEW f \in DOMAIN frames
    PROVE  frames[f].outcome # Trapped
<1>1. /\ ParseTypes /\ NodesRead /\ ReturnsUsed /\ DOMAIN nodes = DOMAIN frames
      /\ Members(attached) = DOMAIN frames
  BY Finished
<1> DEFINE D == DOMAIN frames
           r == [n \in D |-> nodes[n].result]
<1>2. IsFiniteSet(D)
  BY <1>1, FS_Interval DEF ParseTypes, HostTypes
<1>3. \A n \in D : Returned(events, nodes[n].result, next) /\ nodes[n].result # 0
  BY <1>1 DEF ReturnsUsed, Trapped
<1>4. ASSUME NEW n \in D PROVE nodes[n].result \in D /\ frames[nodes[n].result].outcome # Trapped
  <2>1. PICK i \in DOMAIN events : IsReturn(events[i]) /\ events[i].frame = nodes[n].result
    BY <1>3 DEF Returned
  <2> QED BY <1>1, <1>3, <2>1 DEF ParseTypes, ReturnsFound
<1>5. r \in [D -> D]
  BY <1>4
<1>6. \A m, n \in D : r[m] = r[n] => m = n
  BY <1>1 DEF ReturnsUsed
<1>7. r \in Injection(D, D)
  BY <1>5, <1>6 DEF Injection, IsInjective
<1>8. r \in Surjection(D, D)
  BY <1>2, <1>7, FS_Injection
<1>9. PICK n \in D : r[n] = f
  BY <1>8 DEF Surjection
<1> QED BY <1>4, <1>9

\* had_failures says that something failed exactly if something did, whatever was
\* caught on the way.
THEOREM SpecFailuresNoticed == Spec => []FailuresNoticed
<1>1. CallTreeInv => FailuresNoticed
  <2> SUFFICES ASSUME CallTreeInv, Complete
               PROVE  HadFailures <=> \E f \in DOMAIN frames : frames[f].outcome = Trapped
    BY DEF FailuresNoticed
  <2>1. /\ ParseTypes /\ (~caught => Faithful) /\ Members(attached) = DOMAIN frames
    BY Finished
  <2>2. FailuresKept /\ OpenFrames
    BY DEF CallTreeInv, HostInv, Complete
  <2>3. ASSUME NEW f \in DOMAIN frames, frames[f].outcome = Trapped PROVE HadFailures
    <3>1. PICK n \in DOMAIN frames : nodes[n].result = Trapped
      BY <2>3, AllUsed
    <3> QED BY <2>1, <3>1 DEF HadFailures
  <2>4. ASSUME \A f \in DOMAIN frames : frames[f].outcome # Trapped PROVE ~HadFailures
    <3>1. ~(caught \/ unwinding)
      BY <2>2, <2>4 DEF FailuresKept
    <3>2. AttachedRight /\ \A f \in DOMAIN frames : frames[f].undone = FALSE
      BY <2>1, <2>2, <3>1 DEF FailuresKept, Faithful
    <3>3. \A n \in Members(attached) : nodes[n].result # Trapped /\ nodes[n].undone = FALSE
      BY <2>1, <2>4, <3>2 DEF AttachedRight
    <3> QED BY <3>3 DEF HadFailures
  <2> QED BY <2>3, <2>4
<1> QED BY <1>1, InitCallTreeInv, NextCallTreeInv, PTL DEF Spec

\* A frame is reported to have trapped exactly if it never returned, unless a
\* failure was caught: nothing else makes the parser pair calls and returns wrongly.
THEOREM SpecTrappedNeverReturned == Spec => [](~caught => TrappedNeverReturned)
<1>1. CallTreeInv => (~caught => TrappedNeverReturned)
  <2> SUFFICES ASSUME CallTreeInv, Complete, ~caught, NEW f \in DOMAIN nodes
               PROVE  nodes[f].result = Trapped <=> frames[nodes[f].call].outcome = Trapped
    BY DEF TrappedNeverReturned
  <2>1. NodesRead /\ AttachedRight /\ f \in DOMAIN frames /\ f \in Members(attached)
    BY Finished DEF Faithful
  <2> QED BY <2>1 DEF NodesRead, AttachedRight
<1> QED BY <1>1, InitCallTreeInv, NextCallTreeInv, PTL DEF Spec

===============================================================================
