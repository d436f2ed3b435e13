------------------------------- MODULE ForkApi -------------------------------
(***************************************************************************)
(* What the server promises to each of its clients.  A request is one step *)
(* on the fork: fork_setBalance changes a balance and nothing else, or     *)
(* reaches its target on a token; fork_etch swaps the code of an instance  *)
(* and keeps its storage; a sendTransaction applies its call and leaves a  *)
(* receipt.  The step comes between the request and its answer, at most    *)
(* once, and an answer that is no error means that it was taken.           *)
(*                                                                         *)
(* One thing is not promised: the entry that a request is about may be     *)
(* changed by others at the same time, and what they did to it be lost.    *)
(***************************************************************************)
EXTENDS ForkLedger

CONSTANTS Clients, NoRequest

VARIABLES
    request,  \* what each client has asked for, while it waits
    served,   \* the clients whose request has had its effect
    raced,    \* those whose entry others have changed while they waited
    answer    \* the outcome of each client's last request

promises == <<ledger, request, served, raced, answer>>

Init ==
    /\ InitLedger
    /\ request = [c \in Clients |-> NoRequest]
    /\ served = {} /\ raced = {}
    /\ answer = [c \in Clients |-> "none"]

-------------------------------------------------------------------------------
(* The effects.                                                            *)

\* A created account starts with the first sequence number of a ledger that was
\* current until now; a created trustline has no limit.
SetBalance(k, n) ==
    \/ /\ held[k] \in Holding
       /\ SetHeld(k, [held[k] EXCEPT !.balance = n])
    \/ /\ held[k] = Absent
       /\ \E rest \in IF k[2] = "native"
                      THEN {Wrap(at * SeqUnit) : at \in 0 .. sequence}
                      ELSE {SeqMax} :
            SetHeld(k, [balance |-> n, rest |-> rest])

\* The server adjusts a balance with one mint or burn of its own.
AdjustToken(a, ok) ==
    \E f \in TokenCalls :
       f.to = a /\ SendTransaction([source |-> ZeroAccount, call |-> f], ok)

SetTokenBalance(a, n) ==
    IF token[a] = n THEN UNCHANGED ledger
                    ELSE AdjustToken(a, TRUE) /\ token'[a] = n

\* The code is there before the instance runs it.
Etch(w, live) ==
    /\ w \in codes
    /\ \/ /\ instance \in Instance
          /\ SetInstance([instance EXCEPT !.wasm = w, !.live = live])
       \/ /\ instance = Absent
          /\ SetInstance([wasm |-> w, storage |-> Empty, live |-> live])

CloseLedgers(n, s) ==
    LET ledgers == IF n = Absent THEN 1 ELSE n
    IN  Warp(ledgers, IF s = Absent THEN ledgers * LedgerInterval ELSE s)

\* The effect of one request; the methods that only read have none.
Perform(r) ==
    \/ r.method = "sendTransaction" /\ \E ok \in BOOLEAN : SendTransaction(r.args.tx, ok)
    \/ r.method = "setBalance"      /\ SetBalance(r.args.key, r.args.amount)
    \/ r.method = "setTokenBalance" /\ SetTokenBalance(r.args.account, r.args.amount)
    \/ r.method = "setHeld"         /\ SetHeld(r.args.key, r.args.entry)
    \/ r.method = "setToken"        /\ SetToken(r.args.account, r.args.amount)
    \/ r.method = "setInstance"     /\ SetInstance(r.args.entry)
    \/ r.method = "setCode"         /\ SetCode(r.args.wasm)
    \/ r.method = "etch"            /\ Etch(r.args.wasm, r.args.live)
    \/ r.method = "closeLedgers"    /\ CloseLedgers(r.args.ledgers, r.args.seconds)
    \/ r.method = "getLedgerEntries" /\ GetHeld(r.args.key)
    \/ r.method \in {"getTransaction", "getLedgers"} /\ UNCHANGED ledger

\* The effect on an entry that others have changed: the request's own part of it
\* is as it was asked for, the rest as it may have been before.
Overwrite(r) ==
    \/ /\ r.method = "setBalance"
       /\ \E v \in Holding : v.balance = r.args.amount /\ SetHeld(r.args.key, v)
    \/ r.method = "setTokenBalance" /\ AdjustToken(r.args.account, TRUE)
    \/ /\ r.method = "etch"
       /\ r.args.wasm \in codes
       /\ \E s \in Values :
            SetInstance([wasm |-> r.args.wasm, storage |-> s, live |-> r.args.live])

\* What a method may do on its way there: bring an entry into the cache, or
\* install the code it is about to etch.
Prepare(r) ==
    \/ r.method = "setBalance" /\ GetHeld(r.args.key)
    \/ r.method = "etch"       /\ SetCode(r.args.wasm)

\* What is left of a request that fails: the receipt of a refused adjustment.
Refuse(r) == r.method = "setTokenBalance" /\ AdjustToken(r.args.account, FALSE)

-------------------------------------------------------------------------------
(* The clients.                                                            *)

\* This step changes the entry that request r is about.
Touches(r) ==
    \/ r.method = "setBalance"      /\ held'[r.args.key] # held[r.args.key]
    \/ r.method = "setTokenBalance" /\ token'[r.args.account] # token[r.args.account]
    \/ r.method = "etch"            /\ instance' # instance

Waits(c) == request[c] # NoRequest /\ c \notin served

\* c's step races with those who wait for an entry that it changes.
Races(c) ==
    raced' \subseteq {d \in Clients \ {c} : d \in raced \/ (Waits(d) /\ Touches(request[d]))}

Ask(c, r) ==
    /\ request[c] = NoRequest
    /\ request' = [request EXCEPT ![c] = r]
    /\ answer' = [answer EXCEPT ![c] = "none"]
    /\ UNCHANGED <<ledger, served, raced>>

Stays(c) == Races(c) /\ UNCHANGED <<request, answer>>

Leaves(c, outcome) ==
    /\ request' = [request EXCEPT ![c] = NoRequest]
    /\ answer' = [answer EXCEPT ![c] = outcome]
    /\ served' = served \ {c}
    /\ Races(c)

GetsReady(c) ==
    /\ Waits(c)
    /\ Prepare(request[c])
    /\ Stays(c) /\ UNCHANGED served

TakesEffect(c) ==
    /\ Waits(c)
    /\ Perform(request[c]) \/ (c \in raced /\ Overwrite(request[c]))
    /\ \/ Stays(c) /\ served' = served \cup {c}
       \/ Leaves(c, "ok")

Fails(c) ==
    /\ Waits(c)
    /\ UNCHANGED ledger \/ Prepare(request[c]) \/ Refuse(request[c])
    /\ Leaves(c, "failed")

Returns(c) == c \in served /\ UNCHANGED ledger /\ Leaves(c, "ok")

HangsUp(c) == request[c] # NoRequest /\ UNCHANGED ledger /\ Leaves(c, "none")

Next ==
    \E c \in Clients :
       \/ \E r \in Requests : Ask(c, r)
       \/ GetsReady(c) \/ TakesEffect(c) \/ Fails(c) \/ Returns(c) \/ HangsUp(c)

Spec == Init /\ [][Next]_promises
===============================================================================
