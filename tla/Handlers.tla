------------------------------- MODULE Handlers -------------------------------
(***************************************************************************)
(* The JSON-RPC handlers (src/server/handlers.rs).  A handler is a chain   *)
(* of commands: it sends one to the worker, waits for the reply and        *)
(* decides on the next.  Commands are atomic and serialized by the mailbox *)
(* (Actor), handlers are not: between two commands of one handler the      *)
(* worker executes those of others.                                        *)
(*                                                                         *)
(* Each action is one command with the code of the handler up to its next  *)
(* one.  Requests that are refused before a command is sent (malformed     *)
(* base64, XDR or strkeys, negative amounts) leave no trace and are left   *)
(* out; so is the death of the worker, which Actor models.                 *)
(***************************************************************************)
EXTENDS ForkLedger

CONSTANTS
    Clients,     \* requests in flight at the same time
    NoRequest,   \* the client waits for nothing
    NoReply,     \* its last request was abandoned, or it is still waiting
    Failed       \* its last request was answered with an error

Replies == [latest : 0 .. MaxLedger, time : (0 .. MaxTime) \cup {Absent},
            receipt : Receipt \cup {NoReceipt}]

ASSUME MarkerAssumption ==
    /\ NoRequest \notin Requests /\ Absent \notin Instance
    /\ NoReply # Failed /\ {NoReply, Failed} \cap Replies = {}

VARIABLES
    pc,      \* the command each handler sends next, or "idle"
    req,     \* its request
    seen,    \* what it keeps from the replies it got
    reply,   \* what the client was answered
    \* History variables, read by no action of the code:
    dirty,   \* the handlers whose reading was overwritten by another one since
    since,   \* ledger and time when the request arrived
    due      \* sequence number that each account must have, Absent if any will do

handlers == <<pc, req, seen, reply, dirty, since, due>>
vars     == <<ledger, handlers>>

Blank == [latest |-> 0, held |-> Absent, balance |-> 0, storage |-> Empty,
          receipt |-> NoReceipt]

Init ==
    /\ InitLedger
    /\ pc = [c \in Clients |-> "idle"]
    /\ req = [c \in Clients |-> NoRequest]
    /\ seen = [c \in Clients |-> Blank]
    /\ reply = [c \in Clients |-> NoReply]
    /\ dirty = {}
    /\ since = [c \in Clients |-> [ledger |-> sequence, time |-> closeTime]]
    /\ due = [a \in Accounts |-> IF Native(a) \in HeldKeys /\ held[Native(a)] \in Holding
                                 THEN held[Native(a)].rest ELSE Absent]

-------------------------------------------------------------------------------
(* What the actions below have in common.                                  *)

Args(c) == req[c].args

\* This step writes what d's handler has read and is going to overwrite.
Disturbed(d) ==
    \/ pc[d] = "writeHeld" /\ held'[Args(d).key] # held[Args(d).key]
    \/ pc[d] = "adjust" /\ token'[Args(d).account] # token[Args(d).account]
    \/ pc[d] = "writeInstance" /\ instance' # instance

Watch(c) == dirty' = {d \in Clients \ {c} : d \in dirty \/ Disturbed(d)}

\* c's handler waits for its next command, keeping s.
Proceed(c, command, s) ==
    /\ pc' = [pc EXCEPT ![c] = command]
    /\ seen' = [seen EXCEPT ![c] = s]
    /\ Watch(c)
    /\ UNCHANGED <<req, reply, since>>

End(c, answer) ==
    /\ pc' = [pc EXCEPT ![c] = "idle"]
    /\ req' = [req EXCEPT ![c] = NoRequest]
    /\ seen' = [seen EXCEPT ![c] = Blank]
    /\ reply' = [reply EXCEPT ![c] = answer]
    /\ Watch(c)
    /\ UNCHANGED since

\* A transaction of account a that succeeds takes its next number, if the worker
\* finds the account in the cache.
Count(a, ok) ==
    due' = IF ok /\ a \in Accounts
           THEN [due EXCEPT ![a] = IF Native(a) \in known /\ @ # Absent THEN Wrap(@ + 1)
                                                                        ELSE Absent]
           ELSE due

\* An account is given number n.
Renumber(k, n) == due' = IF k[2] = "native" THEN [due EXCEPT ![k[1]] = n] ELSE due

\* An answer carries a ledger, a close time for some methods, and a receipt.
Answer(latest, time, receipt) ==
    [latest |-> latest, time |-> time, receipt |-> receipt]

\* Fault: the answer carries what the handler remembers of the ledger.
Latest_Remembered(c) ==
    /\ pc[c] = "latest"
    /\ UNCHANGED <<ledger, due>>
    /\ End(c, Answer(seen[c].latest, Absent, seen[c].receipt))

\* The last command of most methods that write: GetLatestLedger.
Latest(c) ==
    /\ pc[c] = "latest"
    /\ UNCHANGED <<ledger, due>>
    /\ End(c, Answer(sequence, Absent, seen[c].receipt))

-------------------------------------------------------------------------------
(* A request arrives, or its client hangs up.                              *)

FirstCommand ==
    [ sendTransaction |-> "send",        getTransaction  |-> "receipt",
      setBalance      |-> "readHeld",    setTokenBalance |-> "simulate",
      setHeld         |-> "setEntry",    setToken        |-> "setEntry",
      setInstance     |-> "setEntry",    setCode         |-> "installCode",
      etch            |-> "installCode", closeLedgers    |-> "close",
      getLedgerEntries |-> "entries", getLedgers   |-> "page" ]

Call(c, r) ==
    /\ pc[c] = "idle"
    /\ pc' = [pc EXCEPT ![c] = FirstCommand[r.method]]
    /\ req' = [req EXCEPT ![c] = r]
    /\ reply' = [reply EXCEPT ![c] = NoReply]
    /\ since' = [since EXCEPT ![c] = [ledger |-> sequence, time |-> closeTime]]
    /\ UNCHANGED <<ledger, seen, dirty, due>>

\* The handler's future is dropped before its next command.
Abandon(c) ==
    /\ pc[c] # "idle"
    /\ UNCHANGED <<ledger, due>>
    /\ End(c, NoReply)

-------------------------------------------------------------------------------
(* sendTransaction, getTransaction.                                        *)

Send(c) ==
    /\ pc[c] = "send"
    /\ \E ok \in BOOLEAN : SendTransaction(Args(c).tx, ok) /\ Count(Args(c).tx.source, ok)
    /\ Proceed(c, "sendLatest", [Blank EXCEPT !.receipt = receipts'[Args(c).tx]])

SendLatest(c) ==
    /\ pc[c] = "sendLatest"
    /\ UNCHANGED <<ledger, due>>
    /\ Proceed(c, "sendPage", [seen[c] EXCEPT !.latest = sequence])

SendPage(c) ==
    /\ pc[c] = "sendPage"
    /\ UNCHANGED <<ledger, due>>
    /\ End(c, Answer(seen[c].latest, closeTime, seen[c].receipt))

\* Fault: the ledger is asked for first, the receipt last.
GetTransaction_LatestFirst(c) ==
    /\ UNCHANGED <<ledger, due>>
    /\ \/ /\ pc[c] = "receipt"
          /\ Proceed(c, "receiptLatest", [Blank EXCEPT !.latest = sequence])
       \/ /\ pc[c] = "receiptLatest"
          /\ End(c, Answer(seen[c].latest, Absent, receipts[Args(c).tx]))

GetTransaction(c) ==
    /\ UNCHANGED <<ledger, due>>
    /\ \/ /\ pc[c] = "receipt"
          /\ Proceed(c, "receiptLatest", [Blank EXCEPT !.receipt = receipts[Args(c).tx]])
       \/ /\ pc[c] = "receiptLatest"
          /\ End(c, Answer(sequence, Absent, seen[c].receipt))

-------------------------------------------------------------------------------
(* fork_setBalance of an account or a trustline: read, modify, write.      *)

ReadHeld(c) ==
    /\ pc[c] = "readHeld"
    /\ GetHeld(Args(c).key) /\ UNCHANGED due
    /\ IF held[Args(c).key] = Foreign
       THEN End(c, Failed)
       ELSE Proceed(c, "writeHeld", [Blank EXCEPT !.held = held[Args(c).key],
                                                  !.latest = sequence])

\* What an account or a trustline is created with.
FirstRest(k, at) == IF k[2] = "native" THEN Wrap(at * SeqUnit) ELSE SeqMax

\* Fault: an existing entry is rebuilt from defaults like a missing one.
NewHolding_Rebuilt(k, s, n) ==
    [balance |-> n, rest |-> FirstRest(k, s.latest)]

\* The entry written back, from what was read.
NewHolding(k, s, n) ==
    IF s.held = Absent THEN [balance |-> n, rest |-> FirstRest(k, s.latest)]
                       ELSE [s.held EXCEPT !.balance = n]

WriteHeld(c) ==
    /\ pc[c] = "writeHeld"
    /\ SetHeld(Args(c).key, NewHolding(Args(c).key, seen[c], Args(c).amount))
    /\ LET k == Args(c).key
       IN  Renumber(k, IF c \in dirty THEN Absent
                       ELSE IF held[k] = Absent THEN held'[k].rest ELSE due[k[1]])
    /\ End(c, Answer(seen[c].latest, Absent, NoReceipt))

-------------------------------------------------------------------------------
(* fork_setBalance of a token: simulate balance(), then mint or burn.      *)

SimulateBalance(c) ==
    /\ pc[c] = "simulate"
    /\ UNCHANGED <<ledger, due>>
    /\ \/ End(c, Failed)
       \/ LET current == token[Args(c).account]
          IN  IF Args(c).amount = current
              THEN End(c, Answer(sequence, Absent, NoReceipt))
              ELSE Proceed(c, "adjust", [Blank EXCEPT !.balance = current])

Adjustment(a, current, target) ==
    IF target > current
    THEN [fn |-> "mint", to |-> a, amount |-> target - current]
    ELSE [fn |-> "burn", to |-> a, amount |-> current - target]

AdjustingTx(c) ==
    [source |-> ZeroAccount,
     call |-> Adjustment(Args(c).account, seen[c].balance, Args(c).amount)]

\* Fault: the result of the mint or burn is not looked at.
Adjust_Unchecked(c) ==
    /\ pc[c] = "adjust"
    /\ \E ok \in BOOLEAN : SendTransaction(AdjustingTx(c), ok) /\ Count(ZeroAccount, ok)
    /\ Proceed(c, "latest", Blank)

Adjust(c) ==
    /\ pc[c] = "adjust"
    /\ \E ok \in BOOLEAN :
         /\ SendTransaction(AdjustingTx(c), ok)
         /\ Count(ZeroAccount, ok)
         /\ IF ok THEN Proceed(c, "latest", Blank) ELSE End(c, Failed)

-------------------------------------------------------------------------------
(* The other methods that write entries.                                   *)

\* fork_setLedgerEntry and fork_setStorage: nothing is checked.
SetEntry(c) ==
    /\ pc[c] = "setEntry"
    /\ \/ /\ req[c].method = "setHeld"
          /\ SetHeld(Args(c).key, Args(c).entry)
          /\ Renumber(Args(c).key,
                      IF Args(c).entry = Foreign THEN Absent ELSE Args(c).entry.rest)
       \/ /\ req[c].method = "setToken"
          /\ SetToken(Args(c).account, Args(c).amount) /\ UNCHANGED due
       \/ /\ req[c].method = "setInstance"
          /\ SetInstance(Args(c).entry) /\ UNCHANGED due
    /\ Proceed(c, "latest", Blank)

\* Fault: fork_etch points the instance at code it did not install.
InstallCode_NotForEtch(c) ==
    /\ pc[c] = "installCode"
    /\ IF req[c].method = "etch" THEN UNCHANGED ledger ELSE SetCode(Args(c).wasm)
    /\ UNCHANGED due
    /\ Proceed(c, IF req[c].method = "etch" THEN "readInstance" ELSE "latest", Blank)

\* fork_setCode, and the first step of fork_etch.
InstallCode(c) ==
    /\ pc[c] = "installCode"
    /\ SetCode(Args(c).wasm) /\ UNCHANGED due
    /\ Proceed(c, IF req[c].method = "etch" THEN "readInstance" ELSE "latest", Blank)

ReadInstance(c) ==
    /\ pc[c] = "readInstance"
    /\ UNCHANGED <<ledger, due>>
    /\ IF instance = Foreign
       THEN End(c, Failed)
       ELSE Proceed(c, "writeInstance",
                    [Blank EXCEPT !.storage = IF instance = Absent
                                              THEN Empty ELSE instance.storage])

\* Fault: the instance starts over with empty storage.
WriteInstance_Empties(c) ==
    /\ pc[c] = "writeInstance"
    /\ SetInstance([wasm |-> Args(c).wasm, storage |-> Empty,
                    live |-> Args(c).live]) /\ UNCHANGED due
    /\ Proceed(c, "latest", Blank)

\* A live-until the request leaves out is left out of the entry as well.
WriteInstance(c) ==
    /\ pc[c] = "writeInstance"
    /\ SetInstance([wasm |-> Args(c).wasm, storage |-> seen[c].storage,
                    live |-> Args(c).live]) /\ UNCHANGED due
    /\ Proceed(c, "latest", Blank)

-------------------------------------------------------------------------------
(* fork_closeLedgers, getLedgers.                                          *)

CloseLedgers(c) ==
    /\ pc[c] = "close"
    /\ LET ledgers == IF Args(c).ledgers = Absent THEN 1 ELSE Args(c).ledgers
           seconds == IF Args(c).seconds = Absent THEN ledgers * LedgerInterval
                                                  ELSE Args(c).seconds
       IN  Warp(ledgers, seconds) /\ UNCHANGED due
    /\ End(c, Answer(sequence', closeTime', NoReceipt))

\* getLedgerEntries of one key: what the cache lacks is fetched.
GetEntries(c) ==
    /\ pc[c] = "entries"
    /\ GetHeld(Args(c).key) /\ UNCHANGED due
    /\ End(c, Answer(sequence, Absent, NoReceipt))

\* getHealth, getLatestLedger, getLedgers and simulateTransaction: one command,
\* which only reads.
Page(c) ==
    /\ pc[c] = "page"
    /\ UNCHANGED <<ledger, due>>
    /\ End(c, Answer(sequence, closeTime, NoReceipt))

-------------------------------------------------------------------------------

Command(c) ==
    \/ Send(c) \/ SendLatest(c) \/ SendPage(c)
    \/ GetTransaction(c)
    \/ ReadHeld(c) \/ WriteHeld(c)
    \/ SimulateBalance(c) \/ Adjust(c)
    \/ SetEntry(c) \/ InstallCode(c) \/ ReadInstance(c) \/ WriteInstance(c)
    \/ CloseLedgers(c) \/ GetEntries(c) \/ Page(c) \/ Latest(c)

Next ==
    \E c \in Clients :
       \/ \E r \in Requests : Call(c, r)
       \/ Command(c)
       \/ Abandon(c)

Spec == Init /\ [][Next]_vars

-------------------------------------------------------------------------------
(***************************************************************************)
(* Properties.                                                             *)
(***************************************************************************)

Commands == {FirstCommand[m] : m \in DOMAIN FirstCommand} \cup
            {"sendLatest", "sendPage", "receiptLatest", "writeHeld", "adjust",
             "readInstance", "writeInstance", "latest"}

TypeOK ==
    /\ held \in [HeldKeys -> Held]
    /\ known \subseteq HeldKeys
    /\ token \in [Accounts -> Balances]
    /\ codes \subseteq Wasms
    /\ instance \in Instances
    /\ receipts \in [Hashes -> Receipt \cup {NoReceipt}]
    /\ sequence \in 0 .. MaxLedger
    /\ closeTime \in 0 .. MaxTime
    /\ pc \in [Clients -> Commands \cup {"idle"}]
    /\ req \in [Clients -> Requests \cup {NoRequest}]
    /\ seen \in [Clients -> [latest : 0 .. MaxLedger, held : Holding \cup {Absent},
                             balance : Balances, storage : Values,
                             receipt : Receipt \cup {NoReceipt}]]
    /\ reply \in [Clients -> Replies \cup {NoReply, Failed}]
    /\ dirty \subseteq Clients
    /\ since \in [Clients -> [ledger : 0 .. MaxLedger, time : 0 .. MaxTime]]
    /\ due \in [Accounts -> Sequences \cup {Absent}]

\* The requests whose one effect is there already.
Served == {c \in Clients : pc[c] \in {"sendLatest", "sendPage", "latest"}}

Outcome(c) == IF reply[c] = NoReply THEN "none"
              ELSE IF reply[c] = Failed THEN "failed" ELSE "ok"

Api == INSTANCE ForkApi WITH
    request <- req,
    served  <- Served,
    raced   <- dirty,
    answer  <- [c \in Clients |-> Outcome(c)]

\* For every client the chain of commands is what its method promises: one step
\* with the effect of the very request, which is there when the client is told
\* so, and never two; an error means that nothing but a preparation was done.
\* Only what a handler read and another one overwrote since may be written back
\* as it was.
ImplementsApi == Api!Spec

\* A contract's instance never runs code that is not installed, wherever an
\* etch is interrupted or overtaken by another (as long as no client writes the
\* instance itself with fork_setLedgerEntry or fork_setStorage).
InstanceRunnable == instance \in Instance => instance.wasm \in codes

Answered(c) == reply[c] \notin {NoReply, Failed}

\* An answer carries a ledger and a time that were current between the arrival
\* of its request and now, never older ones.
AnswersCurrent ==
    \A c \in Clients : Answered(c) =>
        /\ since[c].ledger <= reply[c].latest /\ reply[c].latest <= sequence
        /\ reply[c].time # Absent =>
             since[c].time <= reply[c].time /\ reply[c].time <= closeTime

\* No client is shown a transaction in a ledger that comes after the latest one
\* it is told of in the same answer.
ReceiptsNotFromFuture ==
    \A c \in Clients : Answered(c) /\ reply[c].receipt # NoReceipt =>
        reply[c].receipt.ledger <= reply[c].latest

\* The reported ledger and time never go back, whatever clients ask for.
ClockNeverBack == [][sequence' >= sequence /\ closeTime' >= closeTime]_vars

\* The number of an account is the one it was last given, by its creation or a
\* client, and one more for each transaction of the account that succeeded since:
\* no fork_setBalance in between takes any back.  Excepted are the accounts that
\* sent one before the cache held them, and those that a raced fork_setBalance
\* wrote back as it had read them.
NumbersCount ==
    \A a \in Accounts : due[a] # Absent =>
        held[Native(a)] \in Holding /\ held[Native(a)].rest = due[a]

===============================================================================
