------------------------------ MODULE ActorProofs ------------------------------
(***************************************************************************)
(* Theorems about Actor, for any number of requests and commands and a     *)
(* mailbox of any size.                                                    *)
(*                                                                         *)
(* What a handler waits for decides where its request can be: among the    *)
(* blocked senders while it waits for room, in the mailbox or with the     *)
(* worker while it waits for a reply, and there for one more command too   *)
(* when its client has hung up (Orderly).  With the number of commands     *)
(* that are left to each (Counted) this carries the step from the mailbox  *)
(* to the service it implements.                                           *)
(***************************************************************************)
EXTENDS Actor, SequenceTheorems, TLAPS

Distinct(s) == \A i, j \in DOMAIN s : s[i] = s[j] => i = j

Orderly ==
    /\ Distinct(blocked)
    /\ \A i \in DOMAIN blocked : stage[blocked[i]] = "blocked"
    /\ \A i \in DOMAIN mailbox : stage[mailbox[i]] \in {"queued", "cancelled"}
    /\ current # NoRequest => stage[current] \in {"queued", "cancelled"}

Counted ==
    \A r \in Requests :
        /\ stage[r] = "new" => done[r] = 0
        /\ stage[r] \in {"blocked", "queued"} => done[r] < total[r]
        /\ stage[r] = "replied" => done[r] <= total[r]

\* Nobody is served before the environment is there.
BuiltFirst ==
    /\ worker = "building" => server = "starting"
    /\ server = "starting" => \A r \in Requests : stage[r] = "new"

Inv == /\ TypeOK /\ FailureMeansNoWorker /\ WaitingIsQueued
       /\ Orderly /\ Counted /\ BuiltFirst

-------------------------------------------------------------------------------
(* Facts about sequences.                                                  *)

LEMMA HeadTailFacts ==
    ASSUME NEW S, NEW s \in Seq(S), s # <<>>
    PROVE  /\ Head(s) \in S /\ Tail(s) \in Seq(S)
           /\ 1 \in DOMAIN s /\ Head(s) = s[1]
           /\ Len(Tail(s)) = Len(s) - 1
           /\ \A i \in DOMAIN Tail(s) : i + 1 \in DOMAIN s /\ i + 1 # 1
                                        /\ Tail(s)[i] = s[i + 1]
           /\ \A i \in DOMAIN s : i = 1 \/ (i - 1 \in DOMAIN Tail(s) /\ s[i] = Tail(s)[i - 1])
<1>1. Len(s) \in Nat /\ Len(s) # 0 /\ DOMAIN s = 1 .. Len(s)
  BY EmptySeq
<1>2. /\ Tail(s) \in Seq(S) /\ Len(Tail(s)) = Len(s) - 1
      /\ \A i \in 1 .. Len(s) - 1 : Tail(s)[i] = s[i + 1]
  BY <1>1, HeadTailProperties
<1>3. DOMAIN Tail(s) = 1 .. Len(s) - 1
  BY <1>1, <1>2
<1> QED BY <1>1, <1>2, <1>3

LEMMA TailDistinct ==
    ASSUME NEW S, NEW s \in Seq(S), s # <<>>, Distinct(s)
    PROVE  /\ Distinct(Tail(s))
           /\ \A i \in DOMAIN Tail(s) : Tail(s)[i] # Head(s)
<1>1. /\ 1 \in DOMAIN s /\ Head(s) = s[1]
      /\ \A i \in DOMAIN Tail(s) : i + 1 \in DOMAIN s /\ i + 1 # 1 /\ Tail(s)[i] = s[i + 1]
  BY HeadTailFacts
<1>2. DOMAIN Tail(s) \subseteq Int
  <2>1. Tail(s) \in Seq(S)
    BY HeadTailFacts
  <2> QED BY <2>1
<1>3. \A i \in DOMAIN Tail(s) : Tail(s)[i] # Head(s)
  BY <1>1 DEF Distinct
<1>4. ASSUME NEW i \in DOMAIN Tail(s), NEW j \in DOMAIN Tail(s), Tail(s)[i] = Tail(s)[j]
      PROVE  i = j
  <2>1. i + 1 = j + 1
    BY <1>1, <1>4 DEF Distinct
  <2> QED BY <1>2, <2>1
<1> QED BY <1>3, <1>4 DEF Distinct

LEMMA AppendFacts ==
    ASSUME NEW S, NEW s \in Seq(S), NEW e \in S
    PROVE  /\ Append(s, e) \in Seq(S)
           /\ Len(Append(s, e)) = Len(s) + 1
           /\ DOMAIN Append(s, e) = DOMAIN s \cup {Len(s) + 1}
           /\ Len(s) + 1 \notin DOMAIN s
           /\ \A i \in DOMAIN s : Append(s, e)[i] = s[i]
           /\ Append(s, e)[Len(s) + 1] = e
OBVIOUS

LEMMA AppendDistinct ==
    ASSUME NEW S, NEW s \in Seq(S), NEW e \in S, Distinct(s),
           \A i \in DOMAIN s : s[i] # e
    PROVE  Distinct(Append(s, e))
BY AppendFacts DEF Distinct

LEMMA WithoutFacts ==
    ASSUME NEW S, NEW s \in Seq(S), Distinct(s), NEW r
    PROVE  /\ Without(s, r) \in Seq(S)
           /\ Distinct(Without(s, r))
           /\ \A i \in DOMAIN Without(s, r) :
                 /\ Without(s, r)[i] # r
                 /\ \E j \in DOMAIN s : Without(s, r)[i] = s[j]
<1> DEFINE t == Without(s, r)
<1>1. CASE \A i \in DOMAIN s : s[i] # r
  <2>1. t = s
    BY <1>1 DEF Without
  <2> QED BY <1>1, <2>1, Zenon
<1>2. CASE \E i \in DOMAIN s : s[i] = r
  <2> DEFINE p == CHOOSE i \in DOMAIN s : s[i] = r
  <2>1. p \in DOMAIN s /\ s[p] = r
    BY <1>2
  <2>2. t = [i \in 1 .. Len(s) - 1 |-> IF i < p THEN s[i] ELSE s[i + 1]]
    BY <1>2 DEF Without
  <2> DEFINE from(i) == IF i < p THEN i ELSE i + 1
  <2>3. Len(s) \in Nat /\ DOMAIN s = 1 .. Len(s) /\ p \in 1 .. Len(s)
    BY <2>1
  <2>4. ASSUME NEW i \in 1 .. Len(s) - 1
        PROVE  /\ from(i) \in DOMAIN s /\ from(i) # p /\ t[i] = s[from(i)]
    <3> HIDE DEF p
    <3> QED BY <2>2, <2>3
  <2>5. t \in Seq(S) /\ DOMAIN t = 1 .. Len(s) - 1
    <3>1. t \in [1 .. Len(s) - 1 -> S]
      BY <2>2, <2>4
    <3>2. Len(s) - 1 \in Nat
      BY <2>3
    <3> QED BY <3>1, <3>2, IsASeq
  <2>6. \A i \in DOMAIN t : t[i] # r
    BY <2>1, <2>4, <2>5 DEF Distinct
  <2>7. \A i \in DOMAIN t : \E j \in DOMAIN s : t[i] = s[j]
    BY <2>4, <2>5
  <2>8. ASSUME NEW i \in DOMAIN t, NEW j \in DOMAIN t, t[i] = t[j]
        PROVE  i = j
    <3>1. from(i) = from(j)
      <4> HIDE DEF from
      <4> QED BY <2>4, <2>5, <2>8 DEF Distinct
    <3>2. i \in Int /\ j \in Int /\ p \in Int
      BY <2>3, <2>5
    <3> HIDE DEF p
    <3> QED BY <3>1, <3>2
  <2>9. Distinct(t)
    BY <2>8 DEF Distinct
  <2> QED BY <2>5, <2>6, <2>7, <2>9
<1> QED BY <1>1, <1>2

-------------------------------------------------------------------------------
(* The invariant.                                                          *)

LEMMA InitInv == Init => Inv
<1> SUFFICES ASSUME Init PROVE Inv
  OBVIOUS
<1>1. mailbox = <<>> /\ blocked = <<>> /\ current = NoRequest /\ worker = "building"
  BY DEF Init
<1>2. stage = [r \in Requests |-> "new"] /\ asked = FALSE /\ save = "pending"
  BY DEF Init
<1>3. TypeOK
  <2>1. asked \in BOOLEAN /\ save \in {"pending", "done", "nothing", "failed"}
    BY <1>2, Zenon
  <2>2. mailbox \in Seq(Requests) /\ blocked \in Seq(Requests) /\ Len(mailbox) <= Capacity
    BY <1>1, CapacityAssumption
  <2>3. /\ stage \in [Requests -> Active \cup {"new", "ok", "failed", "cancelled"}]
        /\ total \in [Requests -> 0 .. MaxCommands]
        /\ done \in [Requests -> Nat]
    BY <1>2, CommandsAssumption DEF Init
  <2> QED BY <1>1, <2>1, <2>2, <2>3 DEF Init, TypeOK
<1>4. FailureMeansNoWorker /\ WaitingIsQueued
  BY <1>1, <1>2 DEF FailureMeansNoWorker, WaitingIsQueued, Queued
<1>5. Orderly /\ Counted /\ BuiltFirst
  BY <1>1, <1>2 DEF Init, Orderly, Counted, BuiltFirst, Distinct
<1> QED BY <1>3, <1>4, <1>5 DEF Inv

\* Steps of the server task, of main and of the build.
LEMMA LifecycleInv ==
    ASSUME Inv,
           \/ BuildSucceeds \/ BuildFails \/ Bind \/ Refuse
           \/ Shutdown \/ DropHandle \/ Stop \/ Exit \/ DropEnv
    PROVE  Inv'
<1> USE DEF Inv
<1>1. UNCHANGED <<mailbox, current, blocked, requests>>
  BY DEF BuildSucceeds, BuildFails, Bind, Refuse, Shutdown, DropHandle, Stop, Exit,
         DropEnv, lifecycle
<1>2. worker' = worker \/ (worker' \in {"idle", "gone"} /\ worker \in {"building", "unwinding", "closing"})
  BY DEF BuildSucceeds, BuildFails, Bind, Refuse, Shutdown, DropHandle, Stop, Exit,
         DropEnv, lifecycle
<1>3. ReceiverAlive' => ReceiverAlive
  BY DEF BuildSucceeds, BuildFails, Bind, Refuse, Shutdown, DropHandle, Stop, Exit,
         DropEnv, lifecycle, ReceiverAlive
<1>4. asked' \in BOOLEAN
  BY Zenon DEF BuildSucceeds, BuildFails, Bind, Refuse, Shutdown, DropHandle, Stop, Exit,
         DropEnv, lifecycle, TypeOK
<1>10. save' \in {"pending", "done", "nothing", "failed"}
  BY DEF BuildSucceeds, BuildFails, Bind, Refuse, Shutdown, DropHandle, Stop, Exit,
         DropEnv, lifecycle, TypeOK
<1>5. server' \in {"starting", "serving", "draining", "stopped", "refused"}
      /\ process' \in {"running", "exited"}
  BY DEF BuildSucceeds, BuildFails, Bind, Refuse, Shutdown, DropHandle, Stop, Exit,
         DropEnv, lifecycle, TypeOK
<1>6. TypeOK'
  BY <1>1, <1>2, <1>4, <1>5, <1>10 DEF TypeOK, requests
<1>7. FailureMeansNoWorker' /\ WaitingIsQueued'
  BY <1>1, <1>3 DEF FailureMeansNoWorker, WaitingIsQueued, Queued, requests
<1>8. Orderly' /\ Counted'
  BY <1>1 DEF Orderly, Counted, requests
<1>9. BuiltFirst'
  BY <1>1 DEF BuiltFirst, BuildSucceeds, BuildFails, Bind, Refuse, Shutdown, DropHandle,
              Stop, Exit, DropEnv, lifecycle, requests
<1> QED BY <1>6, <1>7, <1>8, <1>9

LEMMA ArriveInv ==
    ASSUME Inv, NEW r \in Requests, Arrive(r)
    PROVE  Inv'
<1> USE DEF Inv
<1>1. PICK n \in 1 .. MaxCommands : total' = [total EXCEPT ![r] = n]
  BY DEF Arrive
<1>2. /\ server = "serving" /\ stage[r] = "new"
      /\ stage' = [stage EXCEPT ![r] = "blocked"]
      /\ blocked' = Append(blocked, r)
      /\ UNCHANGED <<lifecycle, worker, mailbox, current, done>>
  BY DEF Arrive
<1>3. blocked \in Seq(Requests) /\ \A i \in DOMAIN blocked : blocked[i] # r
  BY <1>2 DEF TypeOK, Orderly
<1>4. blocked' \in Seq(Requests) /\ Distinct(blocked')
  BY <1>2, <1>3, AppendFacts, AppendDistinct DEF Orderly
<1>5. TypeOK'
  BY <1>1, <1>2, <1>4, CommandsAssumption DEF TypeOK, lifecycle, Active
<1>6. FailureMeansNoWorker' /\ WaitingIsQueued'
  BY <1>2 DEF FailureMeansNoWorker, WaitingIsQueued, Queued, TypeOK, ReceiverAlive
<1>7. Orderly'
  <2>1. \A i \in DOMAIN blocked' : stage'[blocked'[i]] = "blocked"
    BY <1>2, <1>3, AppendFacts DEF Orderly, TypeOK
  <2>2. \A i \in DOMAIN mailbox : stage'[mailbox[i]] \in {"queued", "cancelled"}
    BY <1>2 DEF Orderly, TypeOK
  <2>3. current # NoRequest => stage'[current] \in {"queued", "cancelled"}
    BY <1>2 DEF Orderly, TypeOK
  <2> QED BY <1>2, <1>4, <2>1, <2>2, <2>3 DEF Orderly
<1>8. Counted'
  BY <1>1, <1>2, CommandsAssumption DEF Counted, TypeOK
<1>9. BuiltFirst'
  BY <1>2 DEF BuiltFirst, lifecycle
<1> QED BY <1>5, <1>6, <1>7, <1>8, <1>9

LEMMA AdmitInv ==
    ASSUME Inv, Admit
    PROVE  Inv'
<1> USE DEF Inv
<1> DEFINE r == Head(blocked)
<1>1. /\ blocked # <<>> /\ ReceiverAlive /\ Len(mailbox) < Capacity
      /\ mailbox' = Append(mailbox, r)
      /\ stage' = [stage EXCEPT ![r] = "queued"]
      /\ blocked' = Tail(blocked)
      /\ UNCHANGED <<lifecycle, worker, current, total, done>>
  BY DEF Admit
<1>2. blocked \in Seq(Requests) /\ mailbox \in Seq(Requests)
  BY DEF TypeOK
<1>3. /\ r \in Requests /\ Tail(blocked) \in Seq(Requests)
      /\ 1 \in DOMAIN blocked /\ r = blocked[1]
      /\ \A i \in DOMAIN Tail(blocked) : i + 1 \in DOMAIN blocked
                                         /\ Tail(blocked)[i] = blocked[i + 1]
  BY <1>1, <1>2, HeadTailFacts
<1>4. stage[r] = "blocked"
  BY <1>3 DEF Orderly
<1>5. \A i \in DOMAIN mailbox : mailbox[i] # r
  BY <1>4 DEF Orderly
<1>6. current # r
  BY <1>3, <1>4, NoRequestAssumption DEF Orderly
<1>7. /\ mailbox' \in Seq(Requests) /\ Distinct(mailbox')
      /\ Len(mailbox') = Len(mailbox) + 1
      /\ DOMAIN mailbox' = DOMAIN mailbox \cup {Len(mailbox) + 1}
      /\ \A i \in DOMAIN mailbox : mailbox'[i] = mailbox[i]
      /\ mailbox'[Len(mailbox) + 1] = r
  <2>1. Distinct(mailbox)
    BY DEF WaitingIsQueued, Distinct
  <2>2. Distinct(Append(mailbox, r))
    BY <1>2, <1>3, <1>5, <2>1, AppendDistinct
  <2> HIDE DEF r
  <2> QED BY <1>1, <1>2, <1>3, <2>2, AppendFacts
<1>8. Distinct(blocked') /\ \A i \in DOMAIN blocked' : blocked'[i] # r
  BY <1>1, <1>2, TailDistinct DEF Orderly
<1> HIDE DEF r
<1>9. TypeOK'
  <2>1. Len(mailbox') <= Capacity
    BY <1>1, <1>2, <1>7, CapacityAssumption
  <2> QED BY <1>1, <1>3, <1>7, <2>1 DEF TypeOK, lifecycle, Active
<1>10. FailureMeansNoWorker'
  BY <1>1, <1>3 DEF FailureMeansNoWorker, TypeOK, ReceiverAlive
<1>11. WaitingIsQueued'
  <2>1. ASSUME NEW x \in Requests, stage'[x] = "queued", ReceiverAlive'
        PROVE  Queued(x)'
    <3>1. CASE x = r
      BY <1>7, <3>1 DEF Queued
    <3>2. CASE x # r
      <4>1. Queued(x)
        BY <1>1, <2>1, <3>2 DEF WaitingIsQueued, TypeOK
      <4> QED BY <1>1, <1>7, <4>1 DEF Queued
    <3> QED BY <3>1, <3>2
  <2>2. \A i \in DOMAIN mailbox' : mailbox'[i] # current'
    BY <1>1, <1>6, <1>7 DEF WaitingIsQueued
  <2> QED BY <1>7, <2>1, <2>2 DEF WaitingIsQueued, Distinct
<1>12. Orderly'
  <2>1. \A i \in DOMAIN blocked' : stage'[blocked'[i]] = "blocked"
    <3> SUFFICES ASSUME NEW i \in DOMAIN blocked' PROVE stage'[blocked'[i]] = "blocked"
      OBVIOUS
    <3>1. stage[blocked'[i]] = "blocked" /\ blocked'[i] \in Requests
      BY <1>1, <1>2, <1>3 DEF Orderly, TypeOK
    <3> QED BY <1>1, <1>8, <3>1 DEF TypeOK
  <2>2. \A i \in DOMAIN mailbox' : stage'[mailbox'[i]] \in {"queued", "cancelled"}
    BY <1>1, <1>2, <1>3, <1>5, <1>7 DEF Orderly, TypeOK
  <2>3. current # NoRequest => stage'[current] \in {"queued", "cancelled"}
    BY <1>1, <1>6 DEF Orderly, TypeOK
  <2> QED BY <1>1, <1>8, <2>1, <2>2, <2>3 DEF Orderly
<1>13. Counted'
  BY <1>1, <1>3, <1>4 DEF Counted, TypeOK
<1>14. BuiltFirst'
  <2>1. stage[r] # "new"
    BY <1>4
  <2> QED BY <1>1, <1>3, <2>1 DEF BuiltFirst, lifecycle
<1> QED BY <1>9, <1>10, <1>11, <1>12, <1>13, <1>14

\* The handler leaves the queue of senders for good: refused, or hung up.
LEMMA LeavesInv ==
    ASSUME Inv, NEW r \in Requests, NEW outcome \in {"failed", "cancelled"},
           stage[r] \in Active,
           outcome = "failed" => stage[r] = "blocked" /\ ~ReceiverAlive,
           stage' = [stage EXCEPT ![r] = outcome],
           blocked' = Without(blocked, r),
           UNCHANGED <<lifecycle, worker, mailbox, current, total, done>>
    PROVE  Inv'
<1> USE DEF Inv
<1>1. /\ blocked' \in Seq(Requests) /\ Distinct(blocked')
      /\ \A i \in DOMAIN blocked' : blocked'[i] # r /\ \E j \in DOMAIN blocked : blocked'[i] = blocked[j]
  BY WithoutFacts DEF TypeOK, Orderly
<1>2. stage' \in [Requests -> Active \cup {"new", "ok", "failed", "cancelled"}]
      /\ stage'[r] = outcome /\ \A x \in Requests : x # r => stage'[x] = stage[x]
  BY DEF TypeOK
<1>3. TypeOK'
  BY <1>1, <1>2 DEF TypeOK, lifecycle
<1>4. FailureMeansNoWorker' /\ WaitingIsQueued'
  <2>1. FailureMeansNoWorker'
    BY <1>2 DEF FailureMeansNoWorker, ReceiverAlive
  <2>2. \A x \in Requests : stage'[x] = "queued" => stage[x] = "queued"
    BY <1>2
  <2> QED BY <2>1, <2>2 DEF WaitingIsQueued, Queued, ReceiverAlive
<1>5. Orderly'
  <2>1. \A i \in DOMAIN blocked' : stage'[blocked'[i]] = "blocked"
    <3> SUFFICES ASSUME NEW i \in DOMAIN blocked' PROVE stage'[blocked'[i]] = "blocked"
      OBVIOUS
    <3>1. PICK j \in DOMAIN blocked : blocked'[i] = blocked[j]
      BY <1>1
    <3>2. blocked[j] \in Requests
      BY DEF TypeOK
    <3> QED BY <1>1, <1>2, <3>1, <3>2 DEF Orderly
  <2>2. \A i \in DOMAIN mailbox : mailbox[i] \in Requests
    BY DEF TypeOK
  <2>3. \A i \in DOMAIN mailbox : stage'[mailbox[i]] \in {"queued", "cancelled"}
    <3> SUFFICES ASSUME NEW i \in DOMAIN mailbox
                 PROVE  stage'[mailbox[i]] \in {"queued", "cancelled"}
      OBVIOUS
    <3>1. stage[mailbox[i]] \in {"queued", "cancelled"}
      BY DEF Orderly
    <3> QED BY <1>2, <2>2, <3>1
  <2>4. current # NoRequest => stage'[current] \in {"queued", "cancelled"}
    BY <1>2 DEF Orderly, TypeOK
  <2> QED BY <1>1, <2>1, <2>3, <2>4 DEF Orderly
<1>6. Counted'
  BY <1>2 DEF Counted
<1>7. BuiltFirst'
  <2>1. stage[r] # "new"
    BY DEF Active
  <2> QED BY <2>1 DEF BuiltFirst, lifecycle
<1> QED BY <1>3, <1>4, <1>5, <1>6, <1>7

LEMMA SendFailsInv ==
    ASSUME Inv, NEW r \in Requests, SendFails(r) PROVE Inv'
BY LeavesInv, Zenon DEF SendFails, Active

LEMMA CancelInv ==
    ASSUME Inv, NEW r \in Requests, Cancel(r) PROVE Inv'
BY LeavesInv, Zenon DEF Cancel

LEMMA ReplyLostInv ==
    ASSUME Inv, NEW r \in Requests, ReplyLost(r) PROVE Inv'
<1> USE DEF Inv
<1>1. /\ stage[r] = "queued" /\ ~Queued(r)
      /\ stage' = [stage EXCEPT ![r] = "failed"]
      /\ UNCHANGED <<lifecycle, worker, mailbox, current, blocked, total, done>>
  BY DEF ReplyLost
<1>2. ~ReceiverAlive
  BY <1>1 DEF WaitingIsQueued
<1>3. \A i \in DOMAIN blocked : blocked[i] # r
  BY <1>1 DEF Orderly
<1>4. Without(blocked, r) = blocked
  BY <1>3 DEF Without
<1>5. /\ stage' \in [Requests -> Active \cup {"new", "ok", "failed", "cancelled"}]
      /\ stage'[r] = "failed" /\ \A x \in Requests : x # r => stage'[x] = stage[x]
  BY <1>1 DEF TypeOK
<1>6. TypeOK'
  BY <1>1, <1>5 DEF TypeOK, lifecycle
<1>7. FailureMeansNoWorker' /\ WaitingIsQueued'
  <2>1. \A x \in Requests : stage'[x] = "queued" => stage[x] = "queued"
    BY <1>5
  <2> QED BY <1>1, <1>2, <2>1 DEF FailureMeansNoWorker, WaitingIsQueued, Queued, ReceiverAlive
<1>8. Orderly'
  <2>1. \A i \in DOMAIN blocked : blocked[i] \in Requests
    BY DEF TypeOK
  <2>2. \A i \in DOMAIN mailbox : mailbox[i] \in Requests /\ mailbox[i] # r
    BY <1>1 DEF TypeOK, Queued
  <2>3. current # r
    BY <1>1 DEF Queued
  <2> QED BY <1>1, <1>3, <1>5, <2>1, <2>2, <2>3 DEF Orderly, TypeOK
<1>9. Counted'
  BY <1>1, <1>5 DEF Counted
<1>10. BuiltFirst'
  BY <1>1 DEF BuiltFirst, lifecycle
<1> QED BY <1>6, <1>7, <1>8, <1>9, <1>10

LEMMA ResumeInv ==
    ASSUME Inv, NEW r \in Requests, Resume(r) PROVE Inv'
<1> USE DEF Inv
<1>1. /\ stage[r] = "replied"
      /\ \/ stage' = [stage EXCEPT ![r] = "ok"] /\ blocked' = blocked
         \/ /\ stage' = [stage EXCEPT ![r] = "blocked"] /\ blocked' = Append(blocked, r)
            /\ done[r] # total[r]
      /\ UNCHANGED <<lifecycle, worker, mailbox, current, total, done>>
  BY DEF Resume
<1>2. /\ stage' \in [Requests -> Active \cup {"new", "ok", "failed", "cancelled"}]
      /\ stage'[r] \in {"ok", "blocked"}
      /\ \A x \in Requests : x # r => stage'[x] = stage[x]
  BY <1>1 DEF TypeOK, Active
<1>3. blocked \in Seq(Requests) /\ \A i \in DOMAIN blocked : blocked[i] # r
  BY <1>1 DEF TypeOK, Orderly
<1>4. blocked' \in Seq(Requests) /\ Distinct(blocked')
  <2>1. Append(blocked, r) \in Seq(Requests) /\ Distinct(Append(blocked, r))
    BY <1>3, AppendFacts, AppendDistinct DEF Orderly
  <2>2. Distinct(blocked)
    BY DEF Orderly
  <2> QED BY <1>1, <1>3, <2>1, <2>2
<1>5. TypeOK'
  BY <1>1, <1>2, <1>4 DEF TypeOK, lifecycle
<1>6. FailureMeansNoWorker' /\ WaitingIsQueued'
  <2>1. \A x \in Requests : /\ stage'[x] = "queued" => stage[x] = "queued"
                            /\ stage'[x] = "failed" => stage[x] = "failed"
    BY <1>2
  <2> QED BY <1>1, <2>1 DEF FailureMeansNoWorker, WaitingIsQueued, Queued, ReceiverAlive
<1>7. Orderly'
  <2>1. \A i \in DOMAIN blocked' : stage'[blocked'[i]] = "blocked"
    <3>1. \A i \in DOMAIN blocked : blocked[i] \in Requests /\ stage'[blocked[i]] = "blocked"
      <4>1. \A i \in DOMAIN blocked : blocked[i] \in Requests
        BY <1>3
      <4> QED BY <1>2, <1>3, <4>1 DEF Orderly
    <3>2. CASE blocked' = blocked
      BY <3>1, <3>2
    <3>3. CASE blocked' = Append(blocked, r) /\ stage' = [stage EXCEPT ![r] = "blocked"]
      <4>1. stage'[r] = "blocked"
        BY <3>3 DEF TypeOK
      <4> QED BY <1>3, <3>1, <3>3, <4>1, AppendFacts
    <3> QED BY <1>1, <3>2, <3>3
  <2>2. \A i \in DOMAIN mailbox : mailbox[i] \in Requests /\ mailbox[i] # r
    <3>1. \A i \in DOMAIN mailbox : mailbox[i] \in Requests
      BY DEF TypeOK
    <3> QED BY <1>1, <3>1 DEF Orderly
  <2>3. current # NoRequest => current \in Requests /\ current # r
    BY <1>1 DEF TypeOK, Orderly
  <2> QED BY <1>1, <1>2, <1>4, <2>1, <2>2, <2>3 DEF Orderly
<1>8. Counted'
  BY <1>1, <1>2 DEF Counted, TypeOK
<1>9. BuiltFirst'
  BY <1>1 DEF BuiltFirst, lifecycle
<1> QED BY <1>5, <1>6, <1>7, <1>8, <1>9

-------------------------------------------------------------------------------
(* Steps of the worker.                                                    *)

LEMMA TakeInv == ASSUME Inv, Take PROVE Inv'
<1> USE DEF Inv
<1>0. PICK r \in Requests : r = Head(mailbox)
  BY HeadTailFacts DEF Take, TypeOK
<1>1. /\ worker = "idle" /\ mailbox # <<>> /\ worker' = "busy"
      /\ current' = r /\ mailbox' = Tail(mailbox)
      /\ UNCHANGED <<lifecycle, blocked, requests>>
  BY <1>0 DEF Take
<1>2. mailbox \in Seq(Requests) /\ Distinct(mailbox)
  BY DEF TypeOK, WaitingIsQueued, Distinct
<1>3. /\ r \in Requests /\ mailbox' \in Seq(Requests)
      /\ 1 \in DOMAIN mailbox /\ r = mailbox[1]
      /\ Len(mailbox') = Len(mailbox) - 1
      /\ \A i \in DOMAIN mailbox' : i + 1 \in DOMAIN mailbox /\ mailbox'[i] = mailbox[i + 1]
      /\ \A i \in DOMAIN mailbox : i = 1 \/ (i - 1 \in DOMAIN mailbox' /\ mailbox[i] = mailbox'[i - 1])
  BY <1>0, <1>1, <1>2, HeadTailFacts
<1>4. Distinct(mailbox') /\ \A i \in DOMAIN mailbox' : mailbox'[i] # r
  BY <1>0, <1>1, <1>2, TailDistinct
<1>5. current = NoRequest
  BY <1>1 DEF TypeOK
<1>6. TypeOK'
  <2>1. r # NoRequest
    BY <1>3, NoRequestAssumption
  <2>2. Len(mailbox') <= Capacity
    BY <1>2, <1>3, CapacityAssumption DEF TypeOK
  <2> QED BY <1>1, <1>3, <2>1, <2>2 DEF TypeOK, lifecycle, requests
<1>7. FailureMeansNoWorker'
  BY <1>1 DEF FailureMeansNoWorker, requests, ReceiverAlive
<1>8. WaitingIsQueued'
  <2>1. ASSUME NEW x \in Requests, stage[x] = "queued", x # r PROVE Queued(x)'
    <3>1. PICK i \in DOMAIN mailbox : mailbox[i] = x
      BY <1>1, <1>5, <2>1, NoRequestAssumption DEF WaitingIsQueued, Queued, ReceiverAlive
    <3> QED BY <1>3, <2>1, <3>1 DEF Queued
  <2>2. Queued(r)'
    BY <1>1 DEF Queued
  <2>3. \A x \in Requests : stage'[x] = "queued" => Queued(x)'
    BY <1>1, <2>1, <2>2 DEF requests
  <2> QED BY <1>1, <1>4, <2>3 DEF WaitingIsQueued, Distinct
<1>9. Orderly'
  <2>1. stage[r] \in {"queued", "cancelled"}
    BY <1>3 DEF Orderly
  <2> QED BY <1>1, <1>3, <2>1 DEF Orderly, requests
<1>10. Counted' /\ BuiltFirst'
  BY <1>1 DEF Counted, BuiltFirst, requests, lifecycle
<1> QED BY <1>6, <1>7, <1>8, <1>9, <1>10

LEMMA ExecuteInv == ASSUME Inv, Execute PROVE Inv'
<1> USE DEF Inv
<1>1. /\ worker = "busy" /\ worker' = "idle" /\ current' = NoRequest
      /\ done' = [done EXCEPT ![current] = @ + 1]
      /\ stage' = [stage EXCEPT ![current] = IF @ = "queued" THEN "replied" ELSE @]
      /\ UNCHANGED <<lifecycle, mailbox, blocked, total>>
  BY DEF Execute
<1>2. current \in Requests /\ stage[current] \in {"queued", "cancelled"}
  BY <1>1 DEF TypeOK, Orderly
<1>3. /\ stage' \in [Requests -> Active \cup {"new", "ok", "failed", "cancelled"}]
      /\ stage'[current] = IF stage[current] = "queued" THEN "replied" ELSE "cancelled"
      /\ \A x \in Requests : x # current => stage'[x] = stage[x]
  BY <1>1, <1>2 DEF TypeOK, Active
<1>4. /\ done' \in [Requests -> Nat] /\ done'[current] = done[current] + 1
      /\ \A x \in Requests : x # current => done'[x] = done[x]
  BY <1>1, <1>2 DEF TypeOK
<1>5. TypeOK'
  BY <1>1, <1>3, <1>4, NoRequestAssumption DEF TypeOK, lifecycle
<1>6. FailureMeansNoWorker'
  BY <1>1, <1>2, <1>3 DEF FailureMeansNoWorker, ReceiverAlive
<1>7. WaitingIsQueued'
  <2>1. ASSUME NEW x \in Requests, stage'[x] = "queued" PROVE Queued(x)'
    <3>1. x # current /\ stage[x] = "queued"
      BY <1>3, <2>1
    <3> QED BY <1>1, <3>1 DEF WaitingIsQueued, Queued, ReceiverAlive
  <2>2. \A i \in DOMAIN mailbox : mailbox[i] # NoRequest
    BY NoRequestAssumption DEF TypeOK
  <2> QED BY <1>1, <2>1, <2>2 DEF WaitingIsQueued
<1>8. Orderly'
  <2>1. \A i \in DOMAIN blocked : blocked[i] \in Requests /\ blocked[i] # current
    BY <1>2 DEF TypeOK, Orderly
  <2>2. \A i \in DOMAIN mailbox : mailbox[i] \in Requests /\ mailbox[i] # current
    BY DEF TypeOK, WaitingIsQueued
  <2> QED BY <1>1, <1>3, <2>1, <2>2 DEF Orderly
<1>9. Counted'
  <2> SUFFICES ASSUME NEW x \in Requests
               PROVE  /\ stage'[x] = "new" => done'[x] = 0
                      /\ stage'[x] \in {"blocked", "queued"} => done'[x] < total[x]
                      /\ stage'[x] = "replied" => done'[x] <= total[x]
    BY <1>1 DEF Counted
  <2>1. CASE x # current
    BY <1>3, <1>4, <2>1 DEF Counted
  <2>2. CASE x = current
    <3>1. stage[x] = "queued" => done[x] < total[x]
      BY DEF Counted
    <3>2. done[x] \in Nat /\ total[x] \in Int
      BY DEF TypeOK
    <3> QED BY <1>2, <1>3, <1>4, <2>2, <3>1, <3>2
  <2> QED BY <2>1, <2>2
<1>10. BuiltFirst'
  BY <1>1, <1>2 DEF BuiltFirst, lifecycle
<1> QED BY <1>5, <1>6, <1>7, <1>8, <1>9, <1>10

LEMMA EndsInv == ASSUME Inv, Panic \/ Close PROVE Inv'
<1> USE DEF Inv
<1>1. /\ current' = NoRequest /\ mailbox' = <<>>
      /\ worker \in {"idle", "busy"} /\ worker' \in {"unwinding", "closing"}
      /\ UNCHANGED <<lifecycle, blocked, requests>>
  BY DEF Panic, Close, TypeOK
<1>2. TypeOK'
  <2>1. mailbox' \in Seq(Requests) /\ Len(mailbox') <= Capacity
    BY <1>1, CapacityAssumption
  <2> QED BY <1>1, <2>1 DEF TypeOK, lifecycle, requests
<1>3. FailureMeansNoWorker' /\ WaitingIsQueued'
  BY <1>1 DEF FailureMeansNoWorker, WaitingIsQueued, ReceiverAlive
<1>4. Orderly' /\ Counted' /\ BuiltFirst'
  BY <1>1 DEF Orderly, Counted, BuiltFirst, lifecycle, requests
<1> QED BY <1>2, <1>3, <1>4

LEMMA NextInv == ASSUME Inv, [Next]_vars PROVE Inv'
<1>1. CASE UNCHANGED vars
  BY <1>1 DEF vars, lifecycle, requests, Inv, TypeOK, FailureMeansNoWorker, WaitingIsQueued,
              Queued, ReceiverAlive, Orderly, Counted, BuiltFirst
<1>2. CASE Next
  BY <1>2, LifecycleInv, ArriveInv, AdmitInv, SendFailsInv, CancelInv, ReplyLostInv,
     ResumeInv, TakeInv, ExecuteInv, EndsInv, Zenon DEF Next, HandlerStep, WorkerStep
<1> QED BY <1>1, <1>2

\* The state is always well typed: the mailbox keeps its bound, and the worker
\* is at a command exactly while it is busy.
THEOREM SpecTypeOK == Spec => []TypeOK
<1>1. Inv => TypeOK
  BY DEF Inv
<1> QED BY <1>1, InitInv, NextInv, PTL DEF Spec

\* A request is refused only when there is no worker left to serve it, however
\* many requests compete for the mailbox's places.
THEOREM SpecFailureMeansNoWorker == Spec => []FailureMeansNoWorker
<1>1. Inv => FailureMeansNoWorker
  BY DEF Inv
<1> QED BY <1>1, InitInv, NextInv, PTL DEF Spec

\* No handler waits for a reply that will not come: its one command is in the
\* mailbox or with the worker, as long as there is one.
THEOREM SpecWaitingIsQueued == Spec => []WaitingIsQueued
<1>1. Inv => WaitingIsQueued
  BY DEF Inv
<1> QED BY <1>1, InitInv, NextInv, PTL DEF Spec

-------------------------------------------------------------------------------
(* The mailbox implements the service.                                     *)

Status  == [r \in Requests |-> IF stage[r] \in Active THEN "running" ELSE stage[r]]
Pending == [r \in Requests |-> Queued(r)]

LEMMA InitRefines == Init => Service!Init
<1> SUFFICES ASSUME Init PROVE Service!Init
  OBVIOUS
<1>1. ReceiverAlive
  BY DEF Init, ReceiverAlive
<1>2. Status = [r \in Requests |-> "new"]
  BY DEF Init, Status, Active
<1>3. Pending = [r \in Requests |-> FALSE]
  <2>1. \A r \in Requests : ~Queued(r)
    <3>1. current = NoRequest /\ mailbox = <<>>
      BY DEF Init
    <3> QED BY <3>1, NoRequestAssumption DEF Queued
  <2>2. \A r \in Requests : Queued(r) = FALSE
    BY <2>1, Zenon DEF Queued
  <2> QED BY <2>2, Zenon DEF Pending
<1> QED BY <1>1, <1>2, <1>3 DEF Init, Service!Init, Status, Pending

\* What the steps that leave the requests alone are to the service.
LEMMA StutterRefines ==
    ASSUME Status' = Status, Pending' = Pending, ReceiverAlive' = ReceiverAlive,
           UNCHANGED <<total, done>>
    PROVE  UNCHANGED Service!vars
BY DEF Service!vars, Status, Pending

LEMMA HaltRefines ==
    ASSUME Inv, ReceiverAlive, ~ReceiverAlive', mailbox' = <<>>, current' = NoRequest,
           UNCHANGED requests
    PROVE  Service!Next
<1>1. Pending' = [r \in Requests |-> FALSE]
  <2>1. \A r \in Requests : Queued(r)' = FALSE
    BY NoRequestAssumption DEF Queued
  <2> QED BY <2>1, Zenon DEF Pending
<1>2. Status' = Status
  BY DEF Status, requests
<1>3. Service!Halt
  BY <1>1, <1>2 DEF Service!Halt, Status, Pending, requests
<1> QED BY <1>3 DEF Service!Next

LEMMA LifecycleRefines ==
    ASSUME Inv,
           \/ BuildSucceeds \/ BuildFails \/ Bind \/ Refuse
           \/ Shutdown \/ DropHandle \/ Stop \/ Exit \/ DropEnv
    PROVE  Service!Next \/ UNCHANGED Service!vars
<1>1. UNCHANGED <<mailbox, current, blocked, requests>>
  BY DEF BuildSucceeds, BuildFails, Bind, Refuse, Shutdown, DropHandle, Stop, Exit,
         DropEnv, lifecycle
<1>2. CASE BuildFails
  <2>1. \A r \in Requests : stage[r] = "new"
    BY <1>2 DEF BuildFails, Inv, BuiltFirst
  <2>2. current = NoRequest
    BY <1>2 DEF BuildFails, Inv, TypeOK
  <2>3. mailbox = <<>>
    <3>1. mailbox \in Seq(Requests) /\ DOMAIN mailbox = {}
      <4>1. \A i \in DOMAIN mailbox : mailbox[i] \in Requests
        BY DEF Inv, TypeOK
      <4> QED BY <2>1, <4>1 DEF Inv, TypeOK, Orderly
    <3> QED BY <3>1, EmptySeq
  <2>4. ReceiverAlive /\ ~ReceiverAlive'
    BY <1>2 DEF BuildFails, ReceiverAlive
  <2> QED BY <1>1, <2>2, <2>3, <2>4, HaltRefines
<1>3. CASE ~BuildFails
  <2>1. ReceiverAlive' = ReceiverAlive
    BY <1>3 DEF BuildSucceeds, Bind, Refuse, Shutdown, DropHandle, Stop, Exit, DropEnv,
                lifecycle, ReceiverAlive
  <2> QED BY <1>1, <2>1, StutterRefines DEF Status, Pending, Queued, requests
<1> QED BY <1>2, <1>3

LEMMA ArriveRefines ==
    ASSUME Inv, NEW r \in Requests, Arrive(r)
    PROVE  Service!Next
<1>1. Status' = [Status EXCEPT ![r] = "running"] /\ Status[r] = "new"
  BY DEF Arrive, Status, Active, Inv, TypeOK
<1>2. Pending' = Pending /\ ReceiverAlive' = ReceiverAlive
  BY DEF Arrive, Pending, Queued, ReceiverAlive
<1>3. Service!Start(r)
  BY <1>1, <1>2 DEF Arrive, Service!Start, Status, Pending
<1> QED BY <1>3 DEF Service!Next

LEMMA AdmitRefines ==
    ASSUME Inv, Admit
    PROVE  Service!Next
<1>1. PICK r \in Requests : r = Head(blocked)
  BY HeadTailFacts DEF Admit, Inv, TypeOK
<1>2. /\ ReceiverAlive /\ mailbox' = Append(mailbox, r)
      /\ stage' = [stage EXCEPT ![r] = "queued"]
      /\ UNCHANGED <<worker, current, total, done>>
  BY <1>1 DEF Admit
<1>3. stage[r] = "blocked" /\ done[r] < total[r]
  BY <1>1, HeadTailFacts DEF Admit, Inv, TypeOK, Orderly, Counted
<1>4. Status' = Status /\ Status[r] = "running"
  BY <1>2, <1>3 DEF Status, Active, Inv, TypeOK
<1>5. ~Queued(r)
  BY <1>3, NoRequestAssumption DEF Queued, Inv, Orderly
<1>6. Pending' = [Pending EXCEPT ![r] = TRUE] /\ ~Pending[r]
  <2>1. \A x \in Requests : Queued(x)' <=> Queued(x) \/ x = r
    BY <1>2, AppendFacts DEF Queued, Inv, TypeOK
  <2>2. \A x \in Requests : Queued(x)' = IF x = r THEN TRUE ELSE Queued(x)
    BY <2>1, Zenon DEF Queued
  <2> QED BY <1>5, <2>2, Zenon DEF Pending
<1>7. Service!HandOver(r)
  BY <1>2, <1>3, <1>4, <1>6 DEF Service!HandOver, Status, Pending, ReceiverAlive
<1> QED BY <1>7 DEF Service!Next

LEMMA RefusedRefines ==
    ASSUME Inv, NEW r \in Requests, SendFails(r) \/ ReplyLost(r)
    PROVE  Service!Next
<1>1. /\ stage[r] \in {"blocked", "queued"} /\ ~ReceiverAlive
      /\ stage' = [stage EXCEPT ![r] = "failed"]
      /\ UNCHANGED <<worker, mailbox, current, total, done>>
  BY DEF SendFails, ReplyLost, Inv, WaitingIsQueued
<1>2. done[r] < total[r]
  BY <1>1 DEF Inv, Counted
<1>3. Status' = [Status EXCEPT ![r] = "failed"] /\ Status[r] = "running"
  BY <1>1 DEF Status, Active, Inv, TypeOK
<1>4. Pending' = Pending /\ ~ReceiverAlive'
  BY <1>1 DEF Pending, Queued, ReceiverAlive
<1>5. Service!Refuse(r)
  BY <1>1, <1>2, <1>3, <1>4 DEF Service!Refuse, Status, Pending
<1> QED BY <1>5 DEF Service!Next

LEMMA ResumeRefines ==
    ASSUME Inv, NEW r \in Requests, Resume(r)
    PROVE  Service!Next \/ UNCHANGED Service!vars
<1>1. stage[r] = "replied" /\ UNCHANGED <<worker, mailbox, current, total, done>>
  BY DEF Resume
<1>2. Pending' = Pending /\ ReceiverAlive' = ReceiverAlive
  BY <1>1 DEF Pending, Queued, ReceiverAlive
<1>3. CASE done[r] = total[r] /\ stage' = [stage EXCEPT ![r] = "ok"]
  <2>1. Status' = [Status EXCEPT ![r] = "ok"] /\ Status[r] = "running"
    BY <1>1, <1>3 DEF Status, Active, Inv, TypeOK
  <2>2. Service!Answer(r)
    BY <1>1, <1>2, <1>3, <2>1 DEF Service!Answer, Status, Pending
  <2> QED BY <2>2 DEF Service!Next
<1>4. CASE stage' = [stage EXCEPT ![r] = "blocked"]
  <2>1. Status' = Status
    BY <1>1, <1>4 DEF Status, Active, Inv, TypeOK
  <2> QED BY <1>1, <1>2, <2>1, StutterRefines
<1> QED BY <1>3, <1>4 DEF Resume

LEMMA CancelRefines ==
    ASSUME Inv, NEW r \in Requests, Cancel(r)
    PROVE  Service!Next
<1>1. Status' = [Status EXCEPT ![r] = "cancelled"] /\ Status[r] = "running"
  BY DEF Cancel, Status, Active, Inv, TypeOK
<1>2. Pending' = Pending /\ ReceiverAlive' = ReceiverAlive
  BY DEF Cancel, Pending, Queued, ReceiverAlive
<1>3. Service!Abandon(r)
  BY <1>1, <1>2 DEF Cancel, Service!Abandon, Status, Pending
<1> QED BY <1>3 DEF Service!Next

LEMMA TakeRefines ==
    ASSUME Inv, Take
    PROVE  UNCHANGED Service!vars
<1>1. PICK r \in Requests : r = Head(mailbox)
  BY HeadTailFacts DEF Take, Inv, TypeOK
<1>2. /\ worker = "idle" /\ worker' = "busy" /\ current' = r /\ mailbox' = Tail(mailbox)
      /\ mailbox # <<>> /\ UNCHANGED requests
  BY <1>1 DEF Take
<1>3. current = NoRequest
  BY <1>2 DEF Inv, TypeOK
<1>4. /\ 1 \in DOMAIN mailbox /\ r = mailbox[1]
      /\ \A i \in DOMAIN mailbox' : i + 1 \in DOMAIN mailbox /\ mailbox'[i] = mailbox[i + 1]
      /\ \A i \in DOMAIN mailbox : i = 1 \/ (i - 1 \in DOMAIN mailbox' /\ mailbox[i] = mailbox'[i - 1])
  BY <1>1, <1>2, HeadTailFacts DEF Inv, TypeOK
<1>5. ASSUME NEW x \in Requests PROVE Queued(x)' <=> Queued(x)
  <2>1. Queued(x) <=> \E i \in DOMAIN mailbox : mailbox[i] = x
    BY <1>3, NoRequestAssumption DEF Queued
  <2>2. Queued(x)' <=> x = r \/ \E i \in DOMAIN mailbox' : mailbox'[i] = x
    BY <1>2 DEF Queued
  <2> QED BY <1>4, <2>1, <2>2
<1>6. Pending' = Pending /\ Status' = Status
  <2>1. \A x \in Requests : Queued(x)' = Queued(x)
    BY <1>5, Zenon DEF Queued
  <2>2. Pending' = Pending
    BY <2>1, Zenon DEF Pending
  <2> QED BY <1>2, <2>2 DEF Status, requests
<1>7. ReceiverAlive' = ReceiverAlive
  BY <1>2 DEF ReceiverAlive
<1> QED BY <1>2, <1>6, <1>7, StutterRefines DEF requests

LEMMA ExecuteRefines ==
    ASSUME Inv, Execute
    PROVE  Service!Next
<1>1. PICK r \in Requests : r = current
  BY DEF Execute, Inv, TypeOK
<1>2. /\ worker = "busy" /\ worker' = "idle" /\ current' = NoRequest
      /\ done' = [done EXCEPT ![r] = @ + 1]
      /\ stage' = [stage EXCEPT ![r] = IF @ = "queued" THEN "replied" ELSE @]
      /\ UNCHANGED <<mailbox, total>>
  BY <1>1 DEF Execute
<1>3. Status' = Status
  BY <1>2 DEF Status, Active, Inv, TypeOK
<1>4. Pending' = [Pending EXCEPT ![r] = FALSE] /\ Pending[r]
  <2>1. \A i \in DOMAIN mailbox : mailbox[i] # r
    BY <1>1 DEF Inv, WaitingIsQueued
  <2>2. Queued(r) /\ \A x \in Requests : Queued(x)' <=> Queued(x) /\ x # r
    BY <1>1, <1>2, <2>1, NoRequestAssumption DEF Queued
  <2>3. \A x \in Requests : Queued(x)' = IF x = r THEN FALSE ELSE Queued(x)
    BY <2>2, Zenon DEF Queued
  <2> QED BY <2>2, <2>3, Zenon DEF Pending
<1>5. ReceiverAlive /\ ReceiverAlive'
  BY <1>2 DEF ReceiverAlive
<1>6. Service!Perform(r)
  BY <1>2, <1>3, <1>4, <1>5 DEF Service!Perform, Status, Pending
<1> QED BY <1>6 DEF Service!Next

LEMMA EndsRefines ==
    ASSUME Inv, Panic \/ Close
    PROVE  Service!Next
<1>1. /\ mailbox' = <<>> /\ current' = NoRequest /\ UNCHANGED requests
      /\ ReceiverAlive /\ ~ReceiverAlive'
  BY DEF Panic, Close, Inv, TypeOK, ReceiverAlive
<1> QED BY <1>1, HaltRefines

LEMMA NextRefines ==
    ASSUME Inv, [Next]_vars
    PROVE  [Service!Next]_(Service!vars)
<1>1. CASE UNCHANGED vars
  BY <1>1, StutterRefines DEF vars, lifecycle, requests, Status, Pending, Queued, ReceiverAlive
<1>2. CASE Next
  BY <1>2, LifecycleRefines, ArriveRefines, AdmitRefines, RefusedRefines, CancelRefines,
     ResumeRefines, TakeRefines, ExecuteRefines, EndsRefines, Zenon
  DEF Next, HandlerStep, WorkerStep
<1> QED BY <1>1, <1>2

\* Behind its mailbox the worker keeps the promises of the service: no command
\* is performed twice, an answer means that all were, and a refusal that the
\* service has halted with some left.
THEOREM SpecImplementsService == Spec => ImplementsService
<1>1. Inv /\ [Next]_vars => [Service!Next]_(Service!vars)
  BY NextRefines
<1> QED BY <1>1, InitInv, NextInv, InitRefines, PTL DEF Spec, ImplementsService, Service!Spec

-------------------------------------------------------------------------------
(* Where the cache can be lost.                                            *)

\* A worker that has ended has come to the save, unless the server never served;
\* and only a worker that has ended has.
SaveBeforeEnd ==
    /\ worker = "gone" => save # "pending" \/ server \in {"starting", "refused"}
    /\ save # "pending" => worker = "gone"
    /\ asked => server \in {"draining", "stopped"}

\* When a process ends after a requested shutdown, the cache is still to be saved
\* exactly if the worker has not ended.
PendingOnlyIfOvertaken ==
    process = "exited" /\ asked => (save = "pending" <=> worker # "gone")

LEMMA StepSaveBeforeEnd == Inv /\ SaveBeforeEnd /\ [Next]_vars => SaveBeforeEnd'
<1> SUFFICES ASSUME Inv, SaveBeforeEnd, [Next]_vars PROVE SaveBeforeEnd'
  OBVIOUS
<1>1. CASE UNCHANGED <<server, asked, worker, save>>
  BY <1>1 DEF SaveBeforeEnd
<1>2. CASE BuildSucceeds \/ BuildFails
  BY <1>2 DEF BuildSucceeds, BuildFails, SaveBeforeEnd, Inv, BuiltFirst, lifecycle
<1>3. CASE Bind \/ Refuse
  BY <1>3 DEF Bind, Refuse, SaveBeforeEnd
<1>4. CASE Take \/ Execute \/ Panic \/ Close
  BY <1>4 DEF Take, Execute, Panic, Close, SaveBeforeEnd, lifecycle
<1>5. CASE DropEnv
  BY <1>5 DEF DropEnv, SaveBeforeEnd
<1>6. CASE Shutdown \/ DropHandle \/ Stop
  BY <1>6 DEF Shutdown, DropHandle, Stop, SaveBeforeEnd
<1> QED BY <1>1, <1>2, <1>3, <1>4, <1>5, <1>6
        DEF Next, vars, lifecycle, Arrive, Cancel, HandlerStep, SendFails, ReplyLost, Resume,
            Admit, WorkerStep, Exit

\* Nothing but the end of the process before that of the worker keeps a requested
\* shutdown from coming to the save: no order of the handlers, of the commands
\* left in the mailbox and of a panic in one of them does.  What the save then
\* does, or cannot do, is not part of this.
THEOREM SpecPendingOnlyIfOvertaken == Spec => []PendingOnlyIfOvertaken
<1>1. Init => SaveBeforeEnd
  BY DEF Init, SaveBeforeEnd
<1>2. SaveBeforeEnd => PendingOnlyIfOvertaken
  BY DEF SaveBeforeEnd, PendingOnlyIfOvertaken
<1> QED BY <1>1, <1>2, InitInv, NextInv, StepSaveBeforeEnd, PTL DEF Spec

===============================================================================
