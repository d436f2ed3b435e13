---------------------------- MODULE HandlersProofs ----------------------------
(***************************************************************************)
(* Theorems about Handlers, for any clients, keys, codes and integer       *)
(* ranges, and for any set of methods unless a theorem names some.         *)
(*                                                                         *)
(* LedgerInv speaks of the fork alone and is kept by each of its commands  *)
(* (LedgerStep).  ClientInv speaks of one client: what its handler read is *)
(* no younger than the clock (Ready), and is still what the fork holds     *)
(* unless the client is dirty (Fresh).  A command keeps the ClientInv of   *)
(* its own client by its action, and of every other because it marks       *)
(* whoever it overwrites (OthersKeep).  DueInv ties the numbers of the     *)
(* accounts to the transactions that took them.                            *)
(*                                                                         *)
(* The refinement follows: each command is one of the kinds of step that   *)
(* the interface knows (GettingReady, TakingEffect, Failing, Returning) or *)
(* is not seen there (Unseen).  A handler that writes what it computed     *)
(* from a reading that is Fresh has the effect that the interface has in   *)
(* one step, and one that is dirty has what Overwrite leaves it.           *)
(***************************************************************************)
EXTENDS Handlers, TLAPS

LEMMA ModFacts == \A n \in Int, m \in Nat \ {0} : n % m \in 0 .. m - 1
OBVIOUS

LEMMA WrapFacts == \A n \in Int : Wrap(n) \in Sequences
<1> SUFFICES ASSUME NEW n \in Int PROVE Wrap(n) \in Sequences
  OBVIOUS
<1>1. SeqMin \in Int /\ SeqMax \in Int /\ SeqMin <= SeqMax
  BY BoundsAssumption
<1> DEFINE m == SeqMax - SeqMin + 1
           d == n - SeqMin
<1>2. m \in Nat \ {0} /\ d \in Int
  BY <1>1
<1> HIDE DEF m, d
<1>3. d % m \in 0 .. m - 1
  BY <1>2, ModFacts
<1> QED BY <1>1, <1>3 DEF Wrap, Sequences, m, d

LEMMA ProductFacts == \A n \in Nat : n * LedgerInterval \in Nat
BY BoundsAssumption

LEMMA RequestFacts ==
    ASSUME NEW r \in Requests
    PROVE  \/ r.method = "sendTransaction" /\ r.args \in [tx : Transactions]
           \/ r.method = "getTransaction"  /\ r.args \in [tx : Transactions]
           \/ r.method = "setBalance"      /\ r.args \in [key : HeldKeys, amount : Balances]
           \/ r.method = "setTokenBalance" /\ r.args \in [account : Accounts, amount : Balances]
           \/ r.method = "setHeld"         /\ r.args \in
                [key : HeldKeys, entry : [balance : Balances, rest : RawRests] \cup {Foreign}]
           \/ r.method = "setToken"        /\ r.args \in [account : Accounts, amount : Balances]
           \/ r.method = "setInstance"     /\ r.args \in [entry : RawInstances]
           \/ r.method = "setCode"         /\ r.args \in [wasm : Wasms]
           \/ r.method = "etch"            /\ r.args \in [wasm : Wasms, live : Lives]
           \/ r.method = "closeLedgers"    /\ r.args \in
                [ledgers : Closes \cup {Absent}, seconds : Delays \cup {Absent}]
           \/ r.method = "getLedgerEntries" /\ r.args \in [key : HeldKeys]
           \/ r.method = "getLedgers"      /\ r.args \in [page : {Absent}]
<1>1. PICK m \in Methods : r \in [method : {m}, args : Arguments[m]]
  BY DEF Requests
<1>2. m \in DOMAIN Arguments /\ r.method = m /\ r.args \in Arguments[m]
  BY <1>1, MembersAssumption
<1>3. m \in {"sendTransaction", "getTransaction", "setBalance", "setTokenBalance",
               "setHeld", "setToken", "setInstance", "setCode", "etch", "closeLedgers",
               "getLedgerEntries", "getLedgers"}
  BY <1>2 DEF Arguments
<1>4. /\ Arguments["sendTransaction"] = [tx : Transactions]
      /\ Arguments["getTransaction"] = [tx : Transactions]
      /\ Arguments["setBalance"] = [key : HeldKeys, amount : Balances]
      /\ Arguments["setTokenBalance"] = [account : Accounts, amount : Balances]
      /\ Arguments["setHeld"] =
            [key : HeldKeys, entry : [balance : Balances, rest : RawRests] \cup {Foreign}]
      /\ Arguments["setToken"] = [account : Accounts, amount : Balances]
  BY DEF Arguments
<1>5. /\ Arguments["setInstance"] = [entry : RawInstances]
      /\ Arguments["setCode"] = [wasm : Wasms]
      /\ Arguments["etch"] = [wasm : Wasms, live : Lives]
      /\ Arguments["closeLedgers"] =
            [ledgers : Closes \cup {Absent}, seconds : Delays \cup {Absent}]
      /\ Arguments["getLedgerEntries"] = [key : HeldKeys]
      /\ Arguments["getLedgers"] = [page : {Absent}]
  BY DEF Arguments
<1> QED BY <1>2, <1>3, <1>4, <1>5, Zenon

-------------------------------------------------------------------------------
(* The worker's commands.                                                  *)

LedgerOK ==
    /\ held \in [HeldKeys -> Held]
    /\ known \subseteq HeldKeys
    /\ token \in [Accounts -> Balances]
    /\ codes \subseteq Wasms
    /\ instance \in Instances
    /\ receipts \in [Hashes -> Receipt \cup {NoReceipt}]
    /\ sequence \in 0 .. MaxLedger
    /\ closeTime \in 0 .. MaxTime

ReceiptsDated ==
    \A x \in Hashes : receipts[x] # NoReceipt => receipts[x].ledger <= sequence

LedgerInv == LedgerOK /\ ReceiptsDated

\* What every command does to the ledger as a whole.
LedgerStep ==
    /\ LedgerInv'
    /\ sequence' >= sequence /\ closeTime' >= closeTime
    /\ codes \subseteq codes'

LEMMA InitLedgerInv == InitLedger => LedgerInv
<1> SUFFICES ASSUME InitLedger PROVE LedgerInv
  OBVIOUS
<1>1. held \in [HeldKeys -> Held]
  <2>1. {Absent} \cup [balance : {0}, rest : {0}] \subseteq Held
    BY BoundsAssumption DEF Held, Holding, Balances, Sequences
  <2> QED BY <2>1 DEF InitLedger
<1>2. known \subseteq HeldKeys
  BY DEF InitLedger
<1>3. token \in [Accounts -> Balances]
  BY BoundsAssumption DEF InitLedger, Balances
<1>4. codes \subseteq Wasms
  BY DEF InitLedger
<1>5. instance \in Instances
  BY <1>4 DEF InitLedger, Instances, Instance
<1>6. receipts \in [Hashes -> Receipt \cup {NoReceipt}] /\ ReceiptsDated
  BY DEF InitLedger, ReceiptsDated
<1>7. sequence \in 0 .. MaxLedger /\ closeTime \in 0 .. MaxTime
  BY BoundsAssumption DEF InitLedger
<1> QED BY <1>1, <1>2, <1>3, <1>4, <1>5, <1>6, <1>7 DEF LedgerInv, LedgerOK

LEMMA UnchangedStep == ASSUME LedgerInv, UNCHANGED ledger PROVE LedgerStep
BY DEF LedgerInv, LedgerOK, ReceiptsDated, LedgerStep, ledger, entries

LEMMA GetHeldStep == ASSUME LedgerInv, NEW k \in HeldKeys, GetHeld(k) PROVE LedgerStep
BY DEF GetHeld, LedgerInv, LedgerOK, ReceiptsDated, LedgerStep

LEMMA SetHeldStep ==
    ASSUME LedgerInv, NEW k \in HeldKeys, NEW v \in Held, SetHeld(k, v) PROVE LedgerStep
BY DEF SetHeld, LedgerInv, LedgerOK, ReceiptsDated, LedgerStep

LEMMA SetTokenStep ==
    ASSUME LedgerInv, NEW a \in Accounts, NEW n \in Balances, SetToken(a, n) PROVE LedgerStep
BY DEF SetToken, LedgerInv, LedgerOK, ReceiptsDated, LedgerStep

LEMMA SetCodeStep == ASSUME LedgerInv, NEW w \in Wasms, SetCode(w) PROVE LedgerStep
BY DEF SetCode, LedgerInv, LedgerOK, ReceiptsDated, LedgerStep

LEMMA SetInstanceStep ==
    ASSUME LedgerInv, NEW v \in Instances, SetInstance(v) PROVE LedgerStep
BY DEF SetInstance, LedgerInv, LedgerOK, ReceiptsDated, LedgerStep

LEMMA WarpStep ==
    ASSUME LedgerInv, NEW n \in Nat, NEW s \in Nat, Warp(n, s) PROVE LedgerStep
<1>1. UNCHANGED <<held, known, token, codes, instance, receipts>>
  BY DEF Warp, entries
<1>2. /\ sequence' \in 0 .. MaxLedger /\ sequence' >= sequence
      /\ closeTime' \in 0 .. MaxTime /\ closeTime' >= closeTime
  <2>1. /\ sequence \in 0 .. MaxLedger /\ closeTime \in 0 .. MaxTime
        /\ MaxLedger \in Nat /\ MaxTime \in Nat
    BY BoundsAssumption DEF LedgerInv, LedgerOK
  <2> QED BY <2>1 DEF Warp, SaturatingAdd
<1>3. ReceiptsDated'
  <2> SUFFICES ASSUME NEW x \in Hashes, receipts[x] # NoReceipt
               PROVE  receipts[x].ledger <= sequence'
    BY <1>1 DEF ReceiptsDated
  <2>1. receipts[x] \in Receipt /\ receipts[x].ledger <= sequence
    BY DEF LedgerInv, LedgerOK, ReceiptsDated
  <2>2. receipts[x].ledger \in Int /\ sequence \in Int /\ sequence' \in Int
    BY <1>2, <2>1 DEF Receipt, LedgerInv, LedgerOK
  <2> QED BY <1>2, <2>1, <2>2
<1> QED BY <1>1, <1>2, <1>3 DEF LedgerInv, LedgerOK, LedgerStep

LEMMA BumpSeqType ==
    ASSUME LedgerInv, NEW a, a \in Accounts \/ a = ZeroAccount, BumpSeq(a)
    PROVE  held' \in [HeldKeys -> Held]
<1> DEFINE k == <<a, "native">>
<1>1. held \in [HeldKeys -> Held]
  BY DEF LedgerInv, LedgerOK
<1>2. CASE k \in known /\ held[k] \in Holding
  <2>1. k \in HeldKeys
    BY <1>2 DEF LedgerInv, LedgerOK
  <2>2. Wrap(held[k].rest + 1) \in Sequences
    <3>1. held[k].rest + 1 \in Int
      BY <1>2, BoundsAssumption DEF Holding, Sequences
    <3> QED BY <3>1, WrapFacts
  <2>3. [held[k] EXCEPT !.rest = Wrap(@ + 1)] \in Held
    BY <1>2, <2>2 DEF Holding, Held
  <2>4. held' = [held EXCEPT ![k] = [held[k] EXCEPT !.rest = Wrap(@ + 1)]]
    BY <1>1, <1>2, <2>1 DEF BumpSeq, Native
  <2> HIDE DEF k
  <2> QED BY <1>1, <2>1, <2>3, <2>4
<1>3. CASE ~(k \in known /\ held[k] \in Holding)
  BY <1>1, <1>3 DEF BumpSeq, Native
<1> QED BY <1>2, <1>3

LEMMA ApplyType ==
    ASSUME LedgerInv, NEW f \in Calls, Executable(f), Apply(f)
    PROVE  token' \in [Accounts -> Balances] /\ instance' \in Instances
<1>1. token \in [Accounts -> Balances] /\ instance \in Instances
  BY DEF LedgerInv, LedgerOK
<1>2. CASE f \in TokenCalls
  <2>1. f.fn \in {"mint", "burn"} /\ f.to \in Accounts /\ f.amount \in 1 .. MaxBalance
    BY <1>2 DEF TokenCalls
  <2>2. token[f.to] \in 0 .. MaxBalance /\ MaxBalance \in Nat
    BY <1>1, <2>1, BoundsAssumption DEF Balances
  <2>3. instance' = instance
    BY <2>1 DEF Apply
  <2>4. CASE f.fn = "mint"
    <3>1. token[f.to] + f.amount \in 0 .. MaxBalance
      BY <2>1, <2>2, <2>4 DEF Executable
    <3>2. token' = [token EXCEPT ![f.to] = @ + f.amount]
      BY <2>4 DEF Apply
    <3> QED BY <1>1, <2>1, <2>3, <3>1, <3>2 DEF Balances
  <2>5. CASE f.fn = "burn"
    <3>1. token[f.to] - f.amount \in 0 .. MaxBalance
      BY <2>1, <2>2, <2>5 DEF Executable
    <3>2. token' = [token EXCEPT ![f.to] = @ - f.amount]
      BY <2>5 DEF Apply
    <3> QED BY <1>1, <2>1, <2>3, <3>1, <3>2 DEF Balances
  <2> QED BY <2>1, <2>4, <2>5
<1>3. CASE f \in [fn : {"put"}, value : Values]
  <2>1. f.fn = "put" /\ f.value \in Values
    BY <1>3
  <2>2. token' = token /\ instance \in Instance
    BY <2>1 DEF Apply, Executable
  <2>3. instance' = [instance EXCEPT !.storage = f.value]
    BY <2>1 DEF Apply
  <2>4. instance' \in Instance
    BY <2>1, <2>2, <2>3 DEF Instance
  <2> QED BY <1>1, <2>2, <2>4 DEF Instances
<1> QED BY <1>2, <1>3 DEF Calls

LEMMA SendStep ==
    ASSUME LedgerInv, NEW x \in Hashes, NEW ok \in BOOLEAN, SendTransaction(x, ok)
    PROVE  /\ LedgerStep /\ receipts'[x] \in Receipt
           /\ receipts'[x] = [ok |-> ok, ledger |-> sequence]
           /\ UNCHANGED <<codes, sequence, closeTime>>
<1>1. x.call \in Calls /\ (x.source \in Accounts \/ x.source = ZeroAccount)
  BY MembersAssumption DEF Hashes, Calls
<1>2. /\ receipts' = [receipts EXCEPT ![x] = [ok |-> ok, ledger |-> sequence]]
      /\ UNCHANGED <<known, codes, sequence, closeTime>>
  BY DEF SendTransaction
<1>3. /\ held' \in [HeldKeys -> Held]
      /\ token' \in [Accounts -> Balances] /\ instance' \in Instances
  <2>1. CASE ok
    BY <1>1, <2>1, BumpSeqType, ApplyType DEF SendTransaction
  <2>2. CASE ~ok
    BY <2>2 DEF SendTransaction, LedgerInv, LedgerOK
  <2> QED BY <2>1, <2>2
<1> DEFINE new == [ok |-> ok, ledger |-> sequence]
<1>4. new \in Receipt /\ new.ledger = sequence
  <2>1. sequence \in 0 .. MaxLedger
    BY DEF LedgerInv, LedgerOK
  <2> QED BY <2>1 DEF Receipt
<1>5. receipts \in [Hashes -> Receipt \cup {NoReceipt}] /\ sequence \in 0 .. MaxLedger
      /\ closeTime \in 0 .. MaxTime
  BY DEF LedgerInv, LedgerOK
<1>6. receipts' \in [Hashes -> Receipt \cup {NoReceipt}] /\ receipts'[x] = new
  <2> HIDE DEF new
  <2>1. receipts' = [receipts EXCEPT ![x] = new]
    BY <1>2 DEF new
  <2> QED BY <1>4, <1>5, <2>1
<1>7. ReceiptsDated'
  <2> SUFFICES ASSUME NEW y \in Hashes, receipts'[y] # NoReceipt
               PROVE  receipts'[y].ledger <= sequence
    BY <1>2 DEF ReceiptsDated
  <2>1. CASE y = x
    <3>1. sequence <= sequence
      BY <1>5
    <3> QED BY <1>4, <1>6, <2>1, <3>1
  <2>2. CASE y # x
    <3>1. receipts'[y] = receipts[y]
      BY <1>2, <1>5, <2>2
    <3> QED BY <3>1 DEF LedgerInv, ReceiptsDated
  <2> QED BY <2>1, <2>2
<1>8. sequence' >= sequence /\ closeTime' >= closeTime
  BY <1>2, <1>5
<1> QED BY <1>2, <1>3, <1>4, <1>6, <1>7, <1>8 DEF LedgerInv, LedgerOK, LedgerStep

-------------------------------------------------------------------------------
(* The handlers.                                                           *)

Seen  == [latest : 0 .. MaxLedger, held : Holding \cup {Absent},
          balance : Balances, storage : Values, receipt : Receipt \cup {NoReceipt}]
Since == [ledger : 0 .. MaxLedger, time : 0 .. MaxTime]

HandlersOK ==
    /\ pc \in [Clients -> Commands \cup {"idle"}]
    /\ req \in [Clients -> Requests \cup {NoRequest}]
    /\ seen \in [Clients -> Seen]
    /\ reply \in [Clients -> Replies \cup {NoReply, Failed}]
    /\ dirty \subseteq Clients
    /\ since \in [Clients -> Since]

\* p is a command of method m.
AtCommand(m, p) ==
    \/ m = "sendTransaction" /\ p \in {"send", "sendLatest", "sendPage"}
    \/ m = "getTransaction"  /\ p \in {"receipt", "receiptLatest"}
    \/ m = "setBalance"      /\ p \in {"readHeld", "writeHeld"}
    \/ m = "setTokenBalance" /\ p \in {"simulate", "adjust", "latest"}
    \/ m \in {"setHeld", "setToken", "setInstance"} /\ p \in {"setEntry", "latest"}
    \/ m = "setCode"         /\ p \in {"installCode", "latest"}
    \/ m = "etch" /\ p \in {"installCode", "readInstance", "writeInstance", "latest"}
    \/ m = "closeLedgers"    /\ p = "close"
    \/ m = "getLedgerEntries" /\ p = "entries"
    \/ m = "getLedgers"      /\ p = "page"

\* What the handler of request r, which arrived at f, has made sure of before
\* command p with what it keeps in s, at ledger now and with codes cs.
Ready(r, p, s, f, now, cs) ==
    /\ AtCommand(r.method, p)
    /\ p \in {"sendPage", "writeHeld"} => f.ledger <= s.latest /\ s.latest <= now
    /\ s.receipt # NoReceipt => s.receipt.ledger <= now
    /\ s.receipt # NoReceipt /\ p = "sendPage" => s.receipt.ledger <= s.latest
    /\ p = "adjust" => r.args.amount # s.balance
    /\ p \in {"readInstance", "writeInstance"} => r.args.wasm \in cs

\* What it read is what is still there.
Fresh(r, p, s, h, t, i) ==
    /\ p = "writeHeld" => h[r.args.key] = s.held
    /\ p = "adjust" => t[r.args.account] = s.balance
    /\ p = "writeInstance" => \/ i = Absent /\ s.storage = Empty
                              \/ i \in Instance /\ s.storage = i.storage

ClientInv(c) ==
    /\ since[c].ledger <= sequence /\ since[c].time <= closeTime
    /\ pc[c] = "idle" => seen[c].receipt = NoReceipt
    /\ pc[c] # "idle" =>
         /\ req[c] \in Requests
         /\ Ready(req[c], pc[c], seen[c], since[c], sequence, codes)
         /\ c \notin dirty => Fresh(req[c], pc[c], seen[c], held, token, instance)
    /\ Answered(c) =>
         /\ since[c].ledger <= reply[c].latest /\ reply[c].latest <= sequence
         /\ reply[c].time # Absent =>
              since[c].time <= reply[c].time /\ reply[c].time <= closeTime
         /\ reply[c].receipt # NoReceipt => reply[c].receipt.ledger <= reply[c].latest

Inv == LedgerInv /\ HandlersOK /\ \A c \in Clients : ClientInv(c)

LEMMA CommandFacts == \A m, p : AtCommand(m, p) => p \in Commands /\ p # "idle"
<1>1. DOMAIN FirstCommand =
        {"sendTransaction", "getTransaction", "setBalance", "setTokenBalance", "setHeld",
         "setToken", "setInstance", "setCode", "etch", "closeLedgers",
         "getLedgerEntries", "getLedgers"}
  BY DEF FirstCommand
<1>2. /\ FirstCommand["sendTransaction"] = "send"
      /\ FirstCommand["getTransaction"] = "receipt"
      /\ FirstCommand["setBalance"] = "readHeld"
      /\ FirstCommand["setTokenBalance"] = "simulate"
      /\ FirstCommand["setHeld"] = "setEntry"
      /\ FirstCommand["setCode"] = "installCode"
      /\ FirstCommand["closeLedgers"] = "close"
      /\ FirstCommand["getLedgerEntries"] = "entries"
      /\ FirstCommand["getLedgers"] = "page"
  BY DEF FirstCommand
<1>3. {"send", "receipt", "readHeld", "simulate", "setEntry", "installCode", "close",
       "entries", "page"} \subseteq {FirstCommand[m] : m \in DOMAIN FirstCommand}
  BY <1>1, <1>2
<1> QED BY <1>3 DEF AtCommand, Commands

LEMMA BlankFacts ==
    /\ Blank \in Seen /\ Blank.receipt = NoReceipt
    /\ \A n \in 0 .. MaxLedger : [Blank EXCEPT !.latest = n] \in Seen
    /\ \A x \in Receipt \cup {NoReceipt} :
          /\ [Blank EXCEPT !.receipt = x] \in Seen
          /\ [Blank EXCEPT !.receipt = x].receipt = x
    /\ \A n \in Balances :
          /\ [Blank EXCEPT !.balance = n] \in Seen
          /\ [Blank EXCEPT !.balance = n].balance = n
          /\ [Blank EXCEPT !.balance = n].receipt = NoReceipt
    /\ \A v \in Values :
          /\ [Blank EXCEPT !.storage = v] \in Seen
          /\ [Blank EXCEPT !.storage = v].storage = v
          /\ [Blank EXCEPT !.storage = v].receipt = NoReceipt
<1>1. 0 \in 0 .. MaxLedger /\ 0 \in Balances /\ Empty \in Values
  BY BoundsAssumption, MembersAssumption DEF Balances
<1>2. Blank \in Seen /\ Blank.receipt = NoReceipt
  BY <1>1 DEF Blank, Seen
<1>3. \A n \in 0 .. MaxLedger : [Blank EXCEPT !.latest = n] \in Seen
  BY <1>1 DEF Blank, Seen
<1>4. \A x \in Receipt \cup {NoReceipt} :
          /\ [Blank EXCEPT !.receipt = x] \in Seen
          /\ [Blank EXCEPT !.receipt = x].receipt = x
  BY <1>1 DEF Blank, Seen
<1>5. \A n \in Balances :
          /\ [Blank EXCEPT !.balance = n] \in Seen
          /\ [Blank EXCEPT !.balance = n].balance = n
          /\ [Blank EXCEPT !.balance = n].receipt = NoReceipt
  BY <1>1 DEF Blank, Seen
<1>6. \A v \in Values :
          /\ [Blank EXCEPT !.storage = v] \in Seen
          /\ [Blank EXCEPT !.storage = v].storage = v
          /\ [Blank EXCEPT !.storage = v].receipt = NoReceipt
  BY <1>1 DEF Blank, Seen
<1> QED BY <1>2, <1>3, <1>4, <1>5, <1>6

LEMMA BlankRead ==
    \A h \in Holding \cup {Absent}, n \in 0 .. MaxLedger :
       \E s \in Seen : /\ s = [Blank EXCEPT !.held = h, !.latest = n]
                       /\ s.held = h /\ s.latest = n /\ s.receipt = NoReceipt
<1> SUFFICES ASSUME NEW h \in Holding \cup {Absent}, NEW n \in 0 .. MaxLedger
             PROVE  \E s \in Seen : /\ s = [Blank EXCEPT !.held = h, !.latest = n]
                                    /\ s.held = h /\ s.latest = n /\ s.receipt = NoReceipt
  OBVIOUS
<1>1. 0 \in Balances /\ Empty \in Values
  BY BoundsAssumption, MembersAssumption DEF Balances
<1> DEFINE b == [latest |-> 0, held |-> h, balance |-> 0, storage |-> Empty,
                 receipt |-> NoReceipt]
           s == [latest |-> n, held |-> h, balance |-> 0, storage |-> Empty,
                 receipt |-> NoReceipt]
<1>2. [Blank EXCEPT !.held = h, !.latest = n] = s
  <2>1. [Blank EXCEPT !.held = h, !.latest = n] = [[Blank EXCEPT !.held = h] EXCEPT !.latest = n]
    OBVIOUS
  <2>2. [Blank EXCEPT !.held = h] = b
    BY DEF Blank
  <2>3. [b EXCEPT !.latest = n] = s
    OBVIOUS
  <2> QED BY <2>1, <2>2, <2>3, Zenon
<1>3. s \in Seen /\ s.held = h /\ s.latest = n /\ s.receipt = NoReceipt
  BY <1>1 DEF Seen
<1> QED BY <1>2, <1>3

LEMMA InitInv == Init => Inv
<1> SUFFICES ASSUME Init PROVE Inv
  OBVIOUS
<1>1. LedgerInv
  BY InitLedgerInv DEF Init
<1>2. sequence \in 0 .. MaxLedger /\ closeTime \in 0 .. MaxTime
  BY <1>1 DEF LedgerInv, LedgerOK
<1>3. HandlersOK
  BY <1>2, BlankFacts DEF Init, HandlersOK, Since
<1>4. ASSUME NEW c \in Clients PROVE ClientInv(c)
  <2>1. Blank.receipt = NoReceipt
    BY BlankFacts
  <2> QED BY <1>2, <2>1 DEF Init, ClientInv, Answered
<1> QED BY <1>1, <1>3, <1>4 DEF Inv

\* Nothing a client relies on is undone by a step of another one, unless the
\* step is watched.
LEMMA OthersKeep ==
    ASSUME Inv, LedgerStep, NEW c \in Clients, NEW d \in Clients, d # c, Watch(c),
           pc'[d] = pc[d], req'[d] = req[d], seen'[d] = seen[d],
           reply'[d] = reply[d], since'[d] = since[d]
    PROVE  ClientInv(d)'
<1>1. ClientInv(d)
  BY DEF Inv
<1>2. /\ since[d].ledger \in Int /\ since[d].time \in Int
      /\ sequence \in Int /\ closeTime \in Int /\ sequence' \in Int /\ closeTime' \in Int
      /\ sequence <= sequence' /\ closeTime <= closeTime' /\ codes \subseteq codes'
  BY DEF Inv, LedgerStep, LedgerInv, LedgerOK, HandlersOK, Since
<1>3. since'[d].ledger <= sequence' /\ since'[d].time <= closeTime'
  BY <1>1, <1>2 DEF ClientInv
<1>4. ASSUME pc[d] # "idle"
      PROVE  /\ Ready(req[d], pc[d], seen[d], since[d], sequence', codes')
             /\ d \notin dirty' => Fresh(req[d], pc[d], seen[d], held', token', instance')
  <2>1. /\ Ready(req[d], pc[d], seen[d], since[d], sequence, codes)
        /\ d \notin dirty => Fresh(req[d], pc[d], seen[d], held, token, instance)
    BY <1>1, <1>4 DEF ClientInv
  <2>2. seen[d] \in Seen
    BY DEF Inv, HandlersOK
  <2>3. seen[d].latest \in Int
        /\ (seen[d].receipt # NoReceipt => seen[d].receipt.ledger \in Int)
    BY <2>2 DEF Seen, Receipt
  <2>4. Ready(req[d], pc[d], seen[d], since[d], sequence', codes')
    BY <1>2, <2>1, <2>3 DEF Ready
  <2>5. d \notin dirty' => d \notin dirty /\ ~Disturbed(d)
    BY DEF Watch
  <2>6. d \notin dirty' => Fresh(req[d], pc[d], seen[d], held', token', instance')
    BY <2>1, <2>5 DEF Fresh, Disturbed, Args
  <2> QED BY <2>4, <2>6
<1>5. ASSUME Answered(d)
      PROVE  reply[d].latest <= sequence' /\ (reply[d].time # Absent => reply[d].time <= closeTime')
  <2>1. reply[d] \in Replies
    BY <1>5 DEF Inv, HandlersOK, Answered
  <2>2. reply[d].latest \in Int /\ (reply[d].time # Absent => reply[d].time \in Int)
    BY <2>1 DEF Replies
  <2> QED BY <1>1, <1>2, <1>5, <2>2 DEF ClientInv
<1> QED BY <1>1, <1>3, <1>4, <1>5 DEF ClientInv, Answered

\* A step after which the handler waits for its next command.
LEMMA ProceedInv ==
    ASSUME Inv, LedgerStep, NEW c \in Clients, pc[c] # "idle",
           NEW p, NEW s \in Seen, Proceed(c, p, s),
           Ready(req[c], p, s, since[c], sequence', codes'),
           Fresh(req[c], p, s, held', token', instance')
    PROVE  Inv'
<1>1. /\ pc' = [pc EXCEPT ![c] = p] /\ seen' = [seen EXCEPT ![c] = s]
      /\ Watch(c) /\ UNCHANGED <<req, reply, since>>
  BY DEF Proceed
<1>2. p \in Commands /\ p # "idle"
  BY CommandFacts DEF Ready
<1>3. HandlersOK'
  BY <1>1, <1>2 DEF Inv, HandlersOK, Watch
<1>4. ASSUME NEW d \in Clients PROVE ClientInv(d)'
  <2>1. CASE d # c
    BY <1>1, <2>1, OthersKeep DEF Inv, HandlersOK
  <2>2. CASE d = c
    <3>1. ClientInv(c)
      BY DEF Inv
    <3>2. pc'[c] = p /\ seen'[c] = s
      BY <1>1 DEF Inv, HandlersOK
    <3>3. since[c].ledger <= sequence' /\ since[c].time <= closeTime'
      <4>1. since[c].ledger \in Int /\ since[c].time \in Int /\ sequence \in Int
            /\ closeTime \in Int /\ sequence' \in Int /\ closeTime' \in Int
        BY DEF Inv, LedgerStep, LedgerInv, LedgerOK, HandlersOK, Since
      <4> QED BY <3>1, <4>1 DEF ClientInv, LedgerStep
    <3>4. ASSUME Answered(c)
          PROVE  /\ reply[c].latest <= sequence'
                 /\ reply[c].time # Absent => reply[c].time <= closeTime'
      <4>1. reply[c] \in Replies
        BY <3>4 DEF Inv, HandlersOK, Answered
      <4>2. reply[c].latest \in Int /\ (reply[c].time # Absent => reply[c].time \in Int)
        BY <4>1 DEF Replies
      <4>3. sequence \in Int /\ closeTime \in Int /\ sequence' \in Int /\ closeTime' \in Int
        BY DEF Inv, LedgerStep, LedgerInv, LedgerOK
      <4> QED BY <3>1, <3>4, <4>2, <4>3 DEF ClientInv, LedgerStep
    <3>5. req'[c] = req[c] /\ since'[c] = since[c] /\ reply'[c] = reply[c]
      BY <1>1
    <3>6. req[c] \in Requests
      BY <3>1 DEF ClientInv
    <3> QED BY <1>2, <2>2, <3>1, <3>2, <3>3, <3>4, <3>5, <3>6 DEF ClientInv, Answered
  <2> QED BY <2>1, <2>2
<1> QED BY <1>3, <1>4 DEF Inv, LedgerStep

\* A step that ends the request.
LEMMA EndInv ==
    ASSUME Inv, LedgerStep, NEW c \in Clients,
           NEW a \in Replies \cup {NoReply, Failed}, End(c, a),
           a \notin {NoReply, Failed} =>
             /\ since[c].ledger <= a.latest /\ a.latest <= sequence'
             /\ a.time # Absent => since[c].time <= a.time /\ a.time <= closeTime'
             /\ a.receipt # NoReceipt => a.receipt.ledger <= a.latest
    PROVE  Inv'
<1>1. /\ pc' = [pc EXCEPT ![c] = "idle"] /\ req' = [req EXCEPT ![c] = NoRequest]
      /\ seen' = [seen EXCEPT ![c] = Blank] /\ reply' = [reply EXCEPT ![c] = a]
      /\ Watch(c) /\ UNCHANGED since
  BY DEF End
<1>2. HandlersOK'
  BY <1>1, BlankFacts DEF Inv, HandlersOK, Watch
<1>3. ASSUME NEW d \in Clients PROVE ClientInv(d)'
  <2>1. CASE d # c
    BY <1>1, <2>1, OthersKeep DEF Inv, HandlersOK
  <2>2. CASE d = c
    <3>1. ClientInv(c)
      BY DEF Inv
    <3>2. /\ pc'[c] = "idle" /\ reply'[c] = a /\ since'[c] = since[c]
          /\ seen'[c].receipt = NoReceipt
      BY <1>1, BlankFacts DEF Inv, HandlersOK
    <3>3. since[c].ledger <= sequence' /\ since[c].time <= closeTime'
      <4>1. since[c].ledger \in Int /\ since[c].time \in Int /\ sequence \in Int
            /\ closeTime \in Int /\ sequence' \in Int /\ closeTime' \in Int
        BY DEF Inv, LedgerStep, LedgerInv, LedgerOK, HandlersOK, Since
      <4> QED BY <3>1, <4>1 DEF ClientInv, LedgerStep
    <3> QED BY <2>2, <3>2, <3>3 DEF ClientInv, Answered
  <2> QED BY <2>1, <2>2
<1> QED BY <1>2, <1>3 DEF Inv, LedgerStep

-------------------------------------------------------------------------------
(* Each action keeps the invariant.                                        *)

\* A handler at a command has a request of that command's method.
LEMMA ArgsFacts ==
    ASSUME Inv, NEW c \in Clients, pc[c] # "idle"
    PROVE  /\ req[c] \in Requests /\ seen[c] \in Seen /\ since[c] \in Since
           /\ Ready(req[c], pc[c], seen[c], since[c], sequence, codes)
           /\ pc[c] \in {"send", "sendLatest", "sendPage"} =>
                req[c].method = "sendTransaction" /\ Args(c) \in [tx : Transactions]
           /\ pc[c] \in {"receipt", "receiptLatest"} =>
                req[c].method = "getTransaction" /\ Args(c) \in [tx : Transactions]
           /\ pc[c] \in {"readHeld", "writeHeld"} =>
                /\ req[c].method = "setBalance"
                /\ Args(c) \in [key : HeldKeys, amount : Balances]
           /\ pc[c] \in {"simulate", "adjust"} =>
                /\ req[c].method = "setTokenBalance"
                /\ Args(c) \in [account : Accounts, amount : Balances]
           /\ pc[c] = "setEntry" =>
                \/ /\ req[c].method = "setHeld"
                   /\ Args(c) \in [key : HeldKeys,
                                   entry : [balance : Balances, rest : RawRests] \cup {Foreign}]
                \/ /\ req[c].method = "setToken"
                   /\ Args(c) \in [account : Accounts, amount : Balances]
                \/ /\ req[c].method = "setInstance"
                   /\ Args(c) \in [entry : RawInstances]
           /\ pc[c] = "installCode" =>
                \/ req[c].method = "setCode" /\ Args(c) \in [wasm : Wasms]
                \/ req[c].method = "etch" /\ Args(c) \in [wasm : Wasms, live : Lives]
           /\ pc[c] \in {"readInstance", "writeInstance"} =>
                req[c].method = "etch" /\ Args(c) \in [wasm : Wasms, live : Lives]
           /\ pc[c] = "close" =>
                /\ req[c].method = "closeLedgers"
                /\ Args(c) \in [ledgers : Closes \cup {Absent}, seconds : Delays \cup {Absent}]
           /\ pc[c] = "entries" =>
                req[c].method = "getLedgerEntries" /\ Args(c) \in [key : HeldKeys]
           /\ pc[c] = "page" => req[c].method = "getLedgers"
<1>1. /\ req[c] \in Requests
      /\ Ready(req[c], pc[c], seen[c], since[c], sequence, codes)
  BY DEF Inv, ClientInv
<1>2. seen[c] \in Seen /\ since[c] \in Since
  BY DEF Inv, HandlersOK
<1>3. AtCommand(req[c].method, pc[c])
  BY <1>1 DEF Ready
<1> DEFINE m == req[c].method
           a == req[c].args
<1>4. \/ m = "sendTransaction" /\ a \in [tx : Transactions]
      \/ m = "getTransaction"  /\ a \in [tx : Transactions]
      \/ m = "setBalance"      /\ a \in [key : HeldKeys, amount : Balances]
      \/ m = "setTokenBalance" /\ a \in [account : Accounts, amount : Balances]
      \/ m = "setHeld" /\ a \in [key : HeldKeys,
                                 entry : [balance : Balances, rest : RawRests] \cup {Foreign}]
      \/ m = "setToken"        /\ a \in [account : Accounts, amount : Balances]
      \/ m = "setInstance"     /\ a \in [entry : RawInstances]
      \/ m = "setCode"         /\ a \in [wasm : Wasms]
      \/ m = "etch"            /\ a \in [wasm : Wasms, live : Lives]
      \/ m = "closeLedgers"    /\ a \in [ledgers : Closes \cup {Absent},
                                         seconds : Delays \cup {Absent}]
      \/ m = "getLedgerEntries" /\ a \in [key : HeldKeys]
      \/ m = "getLedgers"
  BY <1>1, RequestFacts
<1>5. Args(c) = a
  BY DEF Args
<1> HIDE DEF m, a
<1> QED BY <1>1, <1>2, <1>3, <1>4, <1>5 DEF AtCommand, m

\* The clock, as a handler sees it.
LEMMA ClockFacts ==
    ASSUME Inv, NEW c \in Clients
    PROVE  /\ sequence \in 0 .. MaxLedger /\ closeTime \in 0 .. MaxTime
           /\ MaxLedger \in Nat /\ MaxTime \in Nat
           /\ since[c].ledger \in Nat /\ since[c].time \in Nat
           /\ since[c].ledger <= sequence /\ since[c].time <= closeTime
BY BoundsAssumption DEF Inv, LedgerInv, LedgerOK, HandlersOK, Since, ClientInv

LEMMA SeenLatest ==
    \A s \in Seen, n \in 0 .. MaxLedger :
       /\ [s EXCEPT !.latest = n] \in Seen
       /\ [s EXCEPT !.latest = n].latest = n /\ [s EXCEPT !.latest = n].receipt = s.receipt
BY DEF Seen

LEMMA AnswerFacts ==
    \A l \in 0 .. MaxLedger, x \in Receipt \cup {NoReceipt} :
       /\ Answer(l, Absent, x) \in Replies /\ Answer(l, Absent, x).latest = l
       /\ Answer(l, Absent, x).time = Absent /\ Answer(l, Absent, x).receipt = x
       /\ \A t \in 0 .. MaxTime :
             /\ Answer(l, t, x) \in Replies /\ Answer(l, t, x).latest = l
             /\ Answer(l, t, x).time = t /\ Answer(l, t, x).receipt = x
BY DEF Answer, Replies

LEMMA CallInv ==
    ASSUME Inv, NEW c \in Clients, NEW r \in Requests, Call(c, r) PROVE Inv'
<1>1. /\ pc[c] = "idle" /\ pc' = [pc EXCEPT ![c] = FirstCommand[r.method]]
      /\ req' = [req EXCEPT ![c] = r] /\ reply' = [reply EXCEPT ![c] = NoReply]
      /\ since' = [since EXCEPT ![c] = [ledger |-> sequence, time |-> closeTime]]
      /\ UNCHANGED <<ledger, seen, dirty>>
  BY DEF Call
<1> DEFINE p == FirstCommand[r.method]
<1>2. AtCommand(r.method, p) /\ p \notin {"idle", "sendPage", "writeHeld", "adjust",
                                          "readInstance", "writeInstance"}
  BY RequestFacts DEF FirstCommand, AtCommand
<1>3. p \in Commands
  BY <1>2, CommandFacts
<1> HIDE DEF p
<1>4. LedgerInv'
  BY <1>1, UnchangedStep DEF LedgerStep, Inv
<1>5. HandlersOK'
  <2>1. [ledger |-> sequence, time |-> closeTime] \in Since
    BY ClockFacts DEF Since
  <2> QED BY <1>1, <1>3, <2>1 DEF Inv, HandlersOK, p
<1>6. ASSUME NEW d \in Clients PROVE ClientInv(d)'
  <2>1. CASE d # c
    BY <1>1, <2>1 DEF Inv, HandlersOK, ClientInv, Answered, ledger, entries
  <2>2. CASE d = c
    <3>1. /\ pc'[c] = p /\ req'[c] = r /\ reply'[c] = NoReply /\ seen'[c] = seen[c]
          /\ since'[c] = [ledger |-> sequence, time |-> closeTime]
          /\ sequence' = sequence /\ closeTime' = closeTime /\ codes' = codes
      BY <1>1 DEF Inv, HandlersOK, p, ledger, entries
    <3>2. since'[c].ledger <= sequence' /\ since'[c].time <= closeTime'
      BY <3>1, ClockFacts
    <3>3. seen[c].receipt = NoReceipt
      BY <1>1, BlankFacts DEF Inv, ClientInv
    <3>4. Ready(r, p, seen'[c], since'[c], sequence', codes')
      BY <1>2, <3>1, <3>3 DEF Ready
    <3>5. Fresh(r, p, seen'[c], held', token', instance')
      BY <1>2 DEF Fresh
    <3> QED BY <1>2, <2>2, <3>1, <3>2, <3>4, <3>5 DEF ClientInv, Answered
  <2> QED BY <2>1, <2>2
<1> QED BY <1>4, <1>5, <1>6 DEF Inv

LEMMA AbandonInv == ASSUME Inv, NEW c \in Clients, Abandon(c) PROVE Inv'
BY UnchangedStep, EndInv DEF Abandon, Inv

LEMMA SendInv == ASSUME Inv, NEW c \in Clients, Send(c) PROVE Inv'
<1>1. PICK ok \in BOOLEAN : SendTransaction(Args(c).tx, ok)
  BY DEF Send
<1>2. pc[c] = "send"
  BY DEF Send
<1>3. req[c].method = "sendTransaction" /\ Args(c).tx \in Hashes
  BY <1>2, ArgsFacts DEF Hashes
<1>4. /\ LedgerStep /\ receipts'[Args(c).tx] \in Receipt
      /\ receipts'[Args(c).tx] = [ok |-> ok, ledger |-> sequence]
      /\ sequence' = sequence
  BY <1>1, <1>3, SendStep DEF Inv
<1>5. PICK x \in Receipt : x = receipts'[Args(c).tx] /\ x.ledger = sequence
  BY <1>4
<1>6. PICK s \in Seen : s = [Blank EXCEPT !.receipt = x] /\ s.receipt = x
  BY BlankFacts
<1>7. Proceed(c, "sendLatest", s)
  BY <1>5, <1>6 DEF Send
<1>8. Ready(req[c], "sendLatest", s, since[c], sequence', codes')
  BY <1>3, <1>4, <1>5, <1>6, ClockFacts DEF Ready, AtCommand
<1>9. Fresh(req[c], "sendLatest", s, held', token', instance')
  BY DEF Fresh
<1> QED BY <1>2, <1>4, <1>7, <1>8, <1>9, ProceedInv

LEMMA SendLatestInv == ASSUME Inv, NEW c \in Clients, SendLatest(c) PROVE Inv'
<1>1. pc[c] = "sendLatest" /\ UNCHANGED ledger
  BY DEF SendLatest
<1>2. LedgerStep /\ sequence' = sequence
  BY <1>1, UnchangedStep DEF Inv, ledger
<1>3. /\ seen[c] \in Seen /\ req[c].method = "sendTransaction"
      /\ Ready(req[c], pc[c], seen[c], since[c], sequence, codes)
  BY <1>1, ArgsFacts
<1>4. PICK s \in Seen : /\ s = [seen[c] EXCEPT !.latest = sequence]
                        /\ s.latest = sequence /\ s.receipt = seen[c].receipt
  BY <1>3, ClockFacts, SeenLatest
<1>5. Proceed(c, "sendPage", s)
  BY <1>4 DEF SendLatest
<1>6. Ready(req[c], "sendPage", s, since[c], sequence', codes')
  BY <1>2, <1>3, <1>4, ClockFacts DEF Ready, AtCommand
<1>7. Fresh(req[c], "sendPage", s, held', token', instance')
  BY DEF Fresh
<1> QED BY <1>1, <1>2, <1>5, <1>6, <1>7, ProceedInv

LEMMA SendPageInv == ASSUME Inv, NEW c \in Clients, SendPage(c) PROVE Inv'
<1>1. pc[c] = "sendPage" /\ UNCHANGED ledger
  BY DEF SendPage
<1>2. LedgerStep /\ sequence' = sequence /\ closeTime' = closeTime
  BY <1>1, UnchangedStep DEF Inv, ledger
<1>3. /\ seen[c] \in Seen /\ Ready(req[c], pc[c], seen[c], since[c], sequence, codes)
  BY <1>1, ArgsFacts
<1>4. PICK a \in Replies : /\ a = Answer(seen[c].latest, closeTime, seen[c].receipt)
                         /\ a.latest = seen[c].latest /\ a.time = closeTime
                         /\ a.receipt = seen[c].receipt
  <2>1. seen[c].latest \in 0 .. MaxLedger /\ seen[c].receipt \in Receipt \cup {NoReceipt}
    BY <1>3 DEF Seen
  <2>2. closeTime \in 0 .. MaxTime
    BY ClockFacts
  <2> QED BY <2>1, <2>2, AnswerFacts
<1>5. End(c, a)
  BY <1>4 DEF SendPage
<1>6. /\ since[c].ledger <= a.latest /\ a.latest <= sequence'
      /\ since[c].time <= a.time /\ a.time <= closeTime'
      /\ a.receipt # NoReceipt => a.receipt.ledger <= a.latest
  BY <1>1, <1>2, <1>3, <1>4, ClockFacts DEF Ready
<1> QED BY <1>2, <1>5, <1>6, EndInv

LEMMA GetTransactionInv == ASSUME Inv, NEW c \in Clients, GetTransaction(c) PROVE Inv'
<1>1. UNCHANGED ledger /\ pc[c] \in {"receipt", "receiptLatest"}
  BY DEF GetTransaction
<1>2. LedgerStep /\ sequence' = sequence
  BY <1>1, UnchangedStep DEF Inv, ledger
<1>3. /\ seen[c] \in Seen /\ req[c].method = "getTransaction" /\ Args(c).tx \in Hashes
      /\ Ready(req[c], pc[c], seen[c], since[c], sequence, codes)
  BY <1>1, ArgsFacts DEF Hashes
<1>4. CASE pc[c] = "receipt"
  <2>1. PICK x \in Receipt \cup {NoReceipt} :
          x = receipts[Args(c).tx] /\ (x # NoReceipt => x.ledger <= sequence)
    BY <1>3 DEF Inv, LedgerInv, LedgerOK, ReceiptsDated
  <2>2. PICK s \in Seen : s = [Blank EXCEPT !.receipt = x] /\ s.receipt = x
    BY BlankFacts
  <2>3. Proceed(c, "receiptLatest", s)
    BY <1>4, <2>1, <2>2 DEF GetTransaction
  <2>4. Ready(req[c], "receiptLatest", s, since[c], sequence', codes')
    BY <1>2, <1>3, <2>1, <2>2 DEF Ready, AtCommand
  <2>5. Fresh(req[c], "receiptLatest", s, held', token', instance')
    BY DEF Fresh
  <2> QED BY <1>2, <1>4, <2>3, <2>4, <2>5, ProceedInv
<1>5. CASE pc[c] = "receiptLatest"
  <2>1. PICK a \in Replies : /\ a = Answer(sequence, Absent, seen[c].receipt)
                           /\ a.latest = sequence /\ a.time = Absent
                           /\ a.receipt = seen[c].receipt
    <3>1. seen[c].receipt \in Receipt \cup {NoReceipt}
      BY <1>3 DEF Seen
    <3> QED BY <3>1, AnswerFacts, ClockFacts
  <2>2. End(c, a)
    BY <1>5, <2>1 DEF GetTransaction
  <2>3. /\ since[c].ledger <= a.latest /\ a.latest <= sequence'
        /\ a.receipt # NoReceipt => a.receipt.ledger <= a.latest
    BY <1>2, <1>3, <2>1, ClockFacts DEF Ready
  <2> QED BY <1>2, <2>1, <2>2, <2>3, EndInv
<1> QED BY <1>1, <1>4, <1>5

\* An answer that reports the ledger of the step that gives it.
LEMMA EndNow ==
    ASSUME Inv, LedgerStep, NEW c \in Clients, NEW x \in Receipt \cup {NoReceipt},
           x # NoReceipt => x.ledger <= sequence',
           \/ End(c, Answer(sequence', Absent, x))
           \/ End(c, Answer(sequence', closeTime', x))
    PROVE  Inv'
<1>1. sequence' \in 0 .. MaxLedger /\ closeTime' \in 0 .. MaxTime
  BY DEF LedgerStep, LedgerInv, LedgerOK
<1>2. /\ since[c].ledger <= sequence' /\ since[c].time <= closeTime'
      /\ sequence' <= sequence' /\ closeTime' <= closeTime'
  BY <1>1, ClockFacts DEF LedgerStep
<1>3. CASE End(c, Answer(sequence', Absent, x))
  <2>1. PICK a \in Replies : /\ a = Answer(sequence', Absent, x) /\ a.latest = sequence'
                           /\ a.time = Absent /\ a.receipt = x
    BY <1>1, AnswerFacts
  <2>2. End(c, a)
    BY <1>3, <2>1
  <2> QED BY <1>2, <2>1, <2>2, EndInv
<1>4. CASE End(c, Answer(sequence', closeTime', x))
  <2>1. PICK a \in Replies : /\ a = Answer(sequence', closeTime', x) /\ a.latest = sequence'
                           /\ a.time = closeTime' /\ a.receipt = x
    BY <1>1, AnswerFacts
  <2>2. End(c, a)
    BY <1>4, <2>1
  <2> QED BY <1>2, <2>1, <2>2, EndInv
<1> QED BY <1>3, <1>4

\* An answer without a ledger: nothing is to be shown about it.
LEMMA EndFailed ==
    ASSUME Inv, LedgerStep, NEW c \in Clients, End(c, Failed)
    PROVE  Inv'
BY EndInv

\* Commands after which the handler asks for the latest ledger.
LEMMA ProceedLatest ==
    ASSUME Inv, LedgerStep, NEW c \in Clients, pc[c] # "idle",
           AtCommand(req[c].method, "latest"), Proceed(c, "latest", Blank)
    PROVE  Inv'
<1>1. Blank \in Seen /\ Blank.receipt = NoReceipt
  BY BlankFacts
<1>2. Ready(req[c], "latest", Blank, since[c], sequence', codes')
  BY <1>1 DEF Ready
<1>3. Fresh(req[c], "latest", Blank, held', token', instance')
  BY DEF Fresh
<1> QED BY <1>1, <1>2, <1>3, ProceedInv

LEMMA LatestInv == ASSUME Inv, NEW c \in Clients, Latest(c) PROVE Inv'
<1>1. pc[c] = "latest" /\ UNCHANGED ledger
  BY DEF Latest
<1>2. LedgerStep /\ sequence' = sequence
  BY <1>1, UnchangedStep DEF Inv, ledger
<1>3. seen[c] \in Seen /\ Ready(req[c], pc[c], seen[c], since[c], sequence, codes)
  BY <1>1, ArgsFacts
<1>4. seen[c].receipt \in Receipt \cup {NoReceipt}
      /\ (seen[c].receipt # NoReceipt => seen[c].receipt.ledger <= sequence')
  BY <1>2, <1>3 DEF Seen, Ready
<1>5. End(c, Answer(sequence', Absent, seen[c].receipt))
  BY <1>2 DEF Latest
<1> QED BY <1>2, <1>4, <1>5, EndNow

LEMMA PageInv == ASSUME Inv, NEW c \in Clients, Page(c) PROVE Inv'
<1>1. LedgerStep /\ sequence' = sequence /\ closeTime' = closeTime
  BY UnchangedStep DEF Page, Inv, ledger
<1>2. End(c, Answer(sequence', closeTime', NoReceipt))
  BY <1>1 DEF Page
<1> QED BY <1>1, <1>2, EndNow

LEMMA GetEntriesInv == ASSUME Inv, NEW c \in Clients, GetEntries(c) PROVE Inv'
<1>1. pc[c] = "entries" /\ GetHeld(Args(c).key)
  BY DEF GetEntries
<1>2. Args(c).key \in HeldKeys
  BY <1>1, ArgsFacts
<1>3. LedgerStep /\ sequence' = sequence
  BY <1>1, <1>2, GetHeldStep DEF Inv, GetHeld
<1>4. End(c, Answer(sequence', Absent, NoReceipt))
  BY <1>3 DEF GetEntries
<1> QED BY <1>3, <1>4, EndNow

LEMMA CloseLedgersInv == ASSUME Inv, NEW c \in Clients, CloseLedgers(c) PROVE Inv'
<1> DEFINE n == IF Args(c).ledgers = Absent THEN 1 ELSE Args(c).ledgers
           s == IF Args(c).seconds = Absent THEN n * LedgerInterval ELSE Args(c).seconds
<1>1. pc[c] = "close" /\ Warp(n, s) /\ End(c, Answer(sequence', closeTime', NoReceipt))
  BY DEF CloseLedgers
<1>2. Args(c).ledgers \in Closes \cup {Absent} /\ Args(c).seconds \in Delays \cup {Absent}
  BY <1>1, ArgsFacts
<1>3. Closes \subseteq Nat /\ Delays \subseteq Nat
  BY MembersAssumption, BoundsAssumption
<1>4. n \in Nat
  BY <1>2, <1>3
<1>5. n * LedgerInterval \in Nat
  <2> HIDE DEF n
  <2> QED BY <1>4, ProductFacts
<1>6. s \in Nat
  <2> HIDE DEF n
  <2> QED BY <1>2, <1>3, <1>5
<1> HIDE DEF n, s
<1>7. LedgerStep
  BY <1>1, <1>4, <1>6, WarpStep DEF Inv
<1> QED BY <1>1, <1>7, EndNow

LEMMA ReadHeldInv == ASSUME Inv, NEW c \in Clients, ReadHeld(c) PROVE Inv'
<1>1. pc[c] = "readHeld" /\ GetHeld(Args(c).key)
  BY DEF ReadHeld
<1>2. Args(c) \in [key : HeldKeys, amount : Balances] /\ req[c].method = "setBalance"
  BY <1>1, ArgsFacts
<1>3. /\ LedgerStep /\ sequence' = sequence /\ held' = held
  BY <1>1, <1>2, GetHeldStep DEF Inv, GetHeld
<1>4. CASE held[Args(c).key] = Foreign
  BY <1>3, <1>4, EndFailed DEF ReadHeld
<1>5. CASE held[Args(c).key] # Foreign
  <2>1. held[Args(c).key] \in Holding \cup {Absent}
    BY <1>2, <1>5 DEF Inv, LedgerInv, LedgerOK, Held
  <2>2. sequence \in 0 .. MaxLedger
    BY ClockFacts
  <2>3. PICK s \in Seen : /\ s = [Blank EXCEPT !.held = held[Args(c).key], !.latest = sequence]
                          /\ s.held = held[Args(c).key] /\ s.latest = sequence
                          /\ s.receipt = NoReceipt
    BY <2>1, <2>2, BlankRead, Zenon
  <2>4. Proceed(c, "writeHeld", s)
    BY <1>5, <2>3 DEF ReadHeld
  <2>5. Ready(req[c], "writeHeld", s, since[c], sequence', codes')
    BY <1>2, <1>3, <2>3, ClockFacts DEF Ready, AtCommand
  <2>6. Fresh(req[c], "writeHeld", s, held', token', instance')
    BY <1>3, <2>3 DEF Fresh, Args
  <2> QED BY <1>1, <1>3, <2>4, <2>5, <2>6, ProceedInv
<1> QED BY <1>4, <1>5

LEMMA NewHoldingType ==
    ASSUME NEW k \in HeldKeys, NEW s \in Seen, NEW n \in Balances
    PROVE  NewHolding(k, s, n) \in Holding
<1>1. s.latest \in Nat /\ s.held \in Holding \cup {Absent}
  BY BoundsAssumption DEF Seen
<1>2. FirstRest(k, s.latest) \in Sequences
  <2>1. s.latest * SeqUnit \in Int
    BY <1>1, BoundsAssumption
  <2>2. Wrap(s.latest * SeqUnit) \in Sequences /\ SeqMax \in Sequences
    <3>1. SeqMax \in Sequences
      BY BoundsAssumption DEF Sequences
    <3> QED BY <2>1, <3>1, WrapFacts
  <2> QED BY <2>2 DEF FirstRest
<1> QED BY <1>1, <1>2 DEF NewHolding, Holding

LEMMA WriteHeldInv == ASSUME Inv, NEW c \in Clients, WriteHeld(c) PROVE Inv'
<1>1. /\ pc[c] = "writeHeld"
      /\ SetHeld(Args(c).key, NewHolding(Args(c).key, seen[c], Args(c).amount))
      /\ End(c, Answer(seen[c].latest, Absent, NoReceipt))
  BY DEF WriteHeld
<1>2. /\ Args(c).key \in HeldKeys /\ Args(c).amount \in Balances
      /\ seen[c] \in Seen /\ Ready(req[c], pc[c], seen[c], since[c], sequence, codes)
  BY <1>1, ArgsFacts
<1>3. NewHolding(Args(c).key, seen[c], Args(c).amount) \in Held
  BY <1>2, NewHoldingType DEF Held
<1>4. LedgerStep /\ sequence' = sequence
  BY <1>1, <1>2, <1>3, SetHeldStep DEF Inv, SetHeld
<1>5. PICK a \in Replies : /\ a = Answer(seen[c].latest, Absent, NoReceipt)
                         /\ a.latest = seen[c].latest /\ a.time = Absent
                         /\ a.receipt = NoReceipt
  <2>1. seen[c].latest \in 0 .. MaxLedger
    BY <1>2 DEF Seen
  <2> QED BY <2>1, AnswerFacts
<1>6. since[c].ledger <= a.latest /\ a.latest <= sequence'
  BY <1>1, <1>2, <1>4, <1>5 DEF Ready
<1>7. End(c, a)
  BY <1>1, <1>5
<1> QED BY <1>4, <1>5, <1>6, <1>7, EndInv

LEMMA SimulateInv == ASSUME Inv, NEW c \in Clients, SimulateBalance(c) PROVE Inv'
<1>1. pc[c] = "simulate" /\ UNCHANGED ledger
  BY DEF SimulateBalance
<1>2. LedgerStep /\ sequence' = sequence /\ token' = token
  BY <1>1, UnchangedStep DEF Inv, ledger, entries
<1>3. Args(c).account \in Accounts /\ req[c].method = "setTokenBalance"
  BY <1>1, ArgsFacts
<1>4. CASE End(c, Failed)
  BY <1>2, <1>4, EndFailed
<1>5. CASE End(c, Answer(sequence, Absent, NoReceipt))
  BY <1>2, <1>5, EndNow
<1>6. CASE Args(c).amount # token[Args(c).account]
           /\ Proceed(c, "adjust", [Blank EXCEPT !.balance = token[Args(c).account]])
  <2>1. PICK s \in Seen : /\ s = [Blank EXCEPT !.balance = token[Args(c).account]]
                          /\ s.balance = token[Args(c).account] /\ s.receipt = NoReceipt
    <3>1. token[Args(c).account] \in Balances
      BY <1>3 DEF Inv, LedgerInv, LedgerOK
    <3> QED BY <3>1, BlankFacts
  <2>2. Proceed(c, "adjust", s)
    BY <1>6, <2>1
  <2>3. Ready(req[c], "adjust", s, since[c], sequence', codes')
    BY <1>3, <1>6, <2>1 DEF Ready, AtCommand, Args
  <2>4. Fresh(req[c], "adjust", s, held', token', instance')
    BY <1>2, <2>1 DEF Fresh, Args
  <2> QED BY <1>1, <1>2, <2>2, <2>3, <2>4, ProceedInv
<1> QED BY <1>4, <1>5, <1>6 DEF SimulateBalance

LEMMA AdjustmentFacts ==
    ASSUME NEW a \in Accounts, NEW b \in Balances, NEW n \in Balances, n # b
    PROVE  LET f == Adjustment(a, b, n)
           IN  /\ f \in TokenCalls /\ f.to = a
               /\ \/ f.fn = "mint" /\ b + f.amount = n
                  \/ f.fn = "burn" /\ b - f.amount = n
<1>1. b \in Int /\ n \in Int /\ 0 <= b /\ 0 <= n /\ b <= MaxBalance /\ n <= MaxBalance
      /\ MaxBalance \in Nat
  BY BoundsAssumption DEF Balances
<1>2. CASE n > b
  <2>1. Adjustment(a, b, n) = [fn |-> "mint", to |-> a, amount |-> n - b]
    BY <1>2 DEF Adjustment
  <2>2. n - b \in 1 .. MaxBalance /\ b + (n - b) = n
    BY <1>1, <1>2
  <2> QED BY <2>1, <2>2 DEF TokenCalls
<1>3. CASE ~(n > b)
  <2>1. Adjustment(a, b, n) = [fn |-> "burn", to |-> a, amount |-> b - n]
    BY <1>3 DEF Adjustment
  <2>2. b - n \in 1 .. MaxBalance /\ b - (b - n) = n
    BY <1>1, <1>3
  <2> QED BY <2>1, <2>2 DEF TokenCalls
<1> QED BY <1>2, <1>3

\* What fork_setBalance sends to a token, whatever it has read.
LEMMA AdjustFacts ==
    ASSUME Inv, NEW c \in Clients, pc[c] = "adjust"
    PROVE  /\ req[c].method = "setTokenBalance"
           /\ Args(c).account \in Accounts /\ Args(c).amount \in Balances
           /\ seen[c].balance \in Balances /\ Args(c).amount # seen[c].balance
<1>1. /\ req[c].method = "setTokenBalance" /\ seen[c] \in Seen
      /\ Args(c) \in [account : Accounts, amount : Balances]
      /\ Ready(req[c], pc[c], seen[c], since[c], sequence, codes)
  BY ArgsFacts
<1> QED BY <1>1 DEF Seen, Ready, Args

LEMMA AdjustInv == ASSUME Inv, NEW c \in Clients, Adjust(c) PROVE Inv'
<1> DEFINE f == Adjustment(Args(c).account, seen[c].balance, Args(c).amount)
           x == [source |-> ZeroAccount, call |-> f]
<1>1. pc[c] = "adjust"
  BY DEF Adjust
<1>2. PICK ok \in BOOLEAN :
        /\ SendTransaction(x, ok)
        /\ IF ok THEN Proceed(c, "latest", Blank) ELSE End(c, Failed)
  BY DEF Adjust, AdjustingTx
<1>3. req[c].method = "setTokenBalance" /\ f \in TokenCalls
  BY <1>1, AdjustFacts, AdjustmentFacts
<1>4. x \in Hashes
  <2> HIDE DEF f
  <2> QED BY <1>3 DEF Hashes
<1> HIDE DEF x
<1>5. LedgerStep
  BY <1>2, <1>4, SendStep DEF Inv
<1>6. CASE ok
  <2>1. AtCommand(req[c].method, "latest")
    BY <1>3 DEF AtCommand
  <2> QED BY <1>1, <1>2, <1>5, <1>6, <2>1, ProceedLatest
<1>7. CASE ~ok
  BY <1>2, <1>5, <1>7, EndFailed
<1> QED BY <1>6, <1>7

LEMMA SetEntryInv == ASSUME Inv, NEW c \in Clients, SetEntry(c) PROVE Inv'
<1>1. pc[c] = "setEntry" /\ Proceed(c, "latest", Blank)
  BY DEF SetEntry
<1>2. CASE req[c].method = "setHeld" /\ SetHeld(Args(c).key, Args(c).entry)
  <2>1. Args(c).key \in HeldKeys
        /\ Args(c).entry \in [balance : Balances, rest : RawRests] \cup {Foreign}
    BY <1>1, <1>2, ArgsFacts
  <2>2. Args(c).entry \in Held
    BY <2>1, MembersAssumption DEF Held, Holding
  <2> QED BY <1>1, <1>2, <2>1, <2>2, SetHeldStep, ProceedLatest DEF Inv, AtCommand
<1>3. CASE req[c].method = "setToken" /\ SetToken(Args(c).account, Args(c).amount)
  <2>1. Args(c).account \in Accounts /\ Args(c).amount \in Balances
    BY <1>1, <1>3, ArgsFacts
  <2> QED BY <1>1, <1>3, <2>1, SetTokenStep, ProceedLatest DEF Inv, AtCommand
<1>4. CASE req[c].method = "setInstance" /\ SetInstance(Args(c).entry)
  <2>1. Args(c).entry \in RawInstances
    BY <1>1, <1>4, ArgsFacts
  <2>2. Args(c).entry \in Instances
    BY <2>1, MembersAssumption DEF Instances
  <2> QED BY <1>1, <1>4, <2>2, SetInstanceStep, ProceedLatest DEF Inv, AtCommand
<1> QED BY <1>2, <1>3, <1>4 DEF SetEntry

LEMMA InstallCodeInv == ASSUME Inv, NEW c \in Clients, InstallCode(c) PROVE Inv'
<1>1. pc[c] = "installCode" /\ SetCode(Args(c).wasm)
  BY DEF InstallCode
<1>2. Args(c).wasm \in Wasms /\ req[c].method \in {"setCode", "etch"}
  BY <1>1, ArgsFacts
<1>3. LedgerStep /\ Args(c).wasm \in codes'
  BY <1>1, <1>2, SetCodeStep DEF Inv, SetCode
<1>4. CASE req[c].method = "setCode"
  <2>1. Proceed(c, "latest", Blank)
    BY <1>4 DEF InstallCode
  <2> QED BY <1>1, <1>3, <1>4, <2>1, ProceedLatest DEF AtCommand
<1>5. CASE req[c].method = "etch"
  <2>1. Proceed(c, "readInstance", Blank) /\ Blank \in Seen /\ Blank.receipt = NoReceipt
    BY <1>5, BlankFacts DEF InstallCode
  <2>2. Ready(req[c], "readInstance", Blank, since[c], sequence', codes')
    BY <1>3, <1>5, <2>1 DEF Ready, AtCommand, Args
  <2>3. Fresh(req[c], "readInstance", Blank, held', token', instance')
    BY DEF Fresh
  <2> QED BY <1>1, <1>3, <2>1, <2>2, <2>3, ProceedInv
<1> QED BY <1>2, <1>4, <1>5

LEMMA ReadInstanceInv == ASSUME Inv, NEW c \in Clients, ReadInstance(c) PROVE Inv'
<1>1. pc[c] = "readInstance" /\ UNCHANGED ledger
  BY DEF ReadInstance
<1>2. LedgerStep /\ instance' = instance /\ codes' = codes
  BY <1>1, UnchangedStep DEF Inv, ledger, entries
<1>3. req[c].method = "etch" /\ Ready(req[c], pc[c], seen[c], since[c], sequence, codes)
  BY <1>1, ArgsFacts
<1>4. CASE instance = Foreign
  BY <1>2, <1>4, EndFailed DEF ReadInstance
<1>5. CASE instance # Foreign
  <2> DEFINE v == IF instance = Absent THEN Empty ELSE instance.storage
  <2>1. v \in Values /\ (instance # Absent => instance \in Instance)
    BY <1>5, MembersAssumption DEF Inv, LedgerInv, LedgerOK, Instances, Instance
  <2>2. PICK s \in Seen : s = [Blank EXCEPT !.storage = v] /\ s.storage = v
                          /\ s.receipt = NoReceipt
    <3> HIDE DEF v
    <3> QED BY <2>1, BlankFacts
  <2>3. Proceed(c, "writeInstance", s)
    BY <1>5, <2>2 DEF ReadInstance
  <2>4. Ready(req[c], "writeInstance", s, since[c], sequence', codes')
    BY <1>1, <1>2, <1>3, <2>2 DEF Ready, AtCommand
  <2>5. Fresh(req[c], "writeInstance", s, held', token', instance')
    BY <1>2, <2>1, <2>2 DEF Fresh
  <2> QED BY <1>1, <1>2, <2>3, <2>4, <2>5, ProceedInv
<1> QED BY <1>4, <1>5

LEMMA WriteInstanceInv == ASSUME Inv, NEW c \in Clients, WriteInstance(c) PROVE Inv'
<1> DEFINE v == [wasm |-> Args(c).wasm, storage |-> seen[c].storage, live |-> Args(c).live]
<1>1. pc[c] = "writeInstance" /\ SetInstance(v) /\ Proceed(c, "latest", Blank)
  BY DEF WriteInstance
<1>2. /\ req[c].method = "etch" /\ Args(c) \in [wasm : Wasms, live : Lives]
      /\ seen[c] \in Seen
  BY <1>1, ArgsFacts
<1>3. v \in Instances
  BY <1>2 DEF Seen, Instances, Instance
<1>4. LedgerStep
  <2> HIDE DEF v
  <2> QED BY <1>1, <1>3, SetInstanceStep DEF Inv
<1> QED BY <1>1, <1>2, <1>4, ProceedLatest DEF AtCommand

LEMMA NextInv == ASSUME Inv, [Next]_vars PROVE Inv'
<1>1. CASE UNCHANGED vars
  <2>1. LedgerInv'
    BY <1>1, UnchangedStep DEF vars, LedgerStep, Inv
  <2>2. HandlersOK' /\ \A c \in Clients : ClientInv(c)'
    BY <1>1 DEF vars, ledger, entries, handlers, Inv, HandlersOK, ClientInv, Answered
  <2> QED BY <2>1, <2>2 DEF Inv
<1>2. CASE Next
  BY <1>2, CallInv, AbandonInv, SendInv, SendLatestInv, SendPageInv, GetTransactionInv,
     ReadHeldInv, WriteHeldInv, SimulateInv, AdjustInv, SetEntryInv, InstallCodeInv,
     ReadInstanceInv, WriteInstanceInv, CloseLedgersInv, GetEntriesInv, PageInv, LatestInv,
     Zenon DEF Next, Command
<1> QED BY <1>1, <1>2

-------------------------------------------------------------------------------
(* The numbers that accounts must have.                                    *)

DueInv ==
    /\ due \in [Accounts -> Sequences \cup {Absent}]
    /\ \A a \in Accounts : due[a] # Absent =>
          /\ Native(a) \in HeldKeys /\ held[Native(a)] \in Holding
          /\ held[Native(a)].rest = due[a]

LEMMA NativeKeys ==
    /\ \A k \in HeldKeys : k[2] = "native" => k[1] \in Accounts /\ k = Native(k[1])
    /\ \A a, b : Native(a) = Native(b) => a = b
    /\ \A a : Native(a) \in HeldKeys => a \in Accounts
BY DEF HeldKeys, Native

LEMMA DueInit == Init => DueInv
<1> SUFFICES ASSUME Init PROVE DueInv
  OBVIOUS
<1>1. due = [a \in Accounts |-> IF Native(a) \in HeldKeys /\ held[Native(a)] \in Holding
                                THEN held[Native(a)].rest ELSE Absent]
  BY DEF Init
<1>2. ASSUME NEW a \in Accounts
      PROVE  /\ due[a] \in Sequences \cup {Absent}
             /\ due[a] # Absent =>
                  /\ Native(a) \in HeldKeys /\ held[Native(a)] \in Holding
                  /\ held[Native(a)].rest = due[a]
  BY <1>1 DEF Holding
<1> QED BY <1>1, <1>2 DEF DueInv

LEMMA DueQuiet == ASSUME DueInv, UNCHANGED <<held, due>> PROVE DueInv'
BY DEF DueInv

\* A transaction that succeeds takes the number that is due.
LEMMA DueCount ==
    ASSUME Inv, DueInv, NEW x \in Hashes, NEW ok \in BOOLEAN,
           SendTransaction(x, ok), Count(x.source, ok)
    PROVE  DueInv'
<1> DEFINE a == x.source
           k == Native(x.source)
<1>1. CASE ~ok
  BY <1>1, DueQuiet DEF SendTransaction, Count
<1>2. CASE ok /\ a \notin Accounts
  <2>1. k \notin HeldKeys /\ known \subseteq HeldKeys
    BY <1>2, NativeKeys DEF Inv, LedgerInv, LedgerOK
  <2> QED BY <1>2, <2>1, DueQuiet DEF SendTransaction, BumpSeq, Count
<1>3. CASE ok /\ a \in Accounts
  <2>1. /\ held \in [HeldKeys -> Held] /\ known \subseteq HeldKeys
        /\ due \in [Accounts -> Sequences \cup {Absent}]
    BY DEF Inv, LedgerInv, LedgerOK, DueInv
  <2>2. /\ held' = IF k \in known /\ held[k] \in Holding
                   THEN [held EXCEPT ![k].rest = Wrap(@ + 1)] ELSE held
        /\ due' = [due EXCEPT ![a] = IF k \in known /\ @ # Absent THEN Wrap(@ + 1)
                                                                   ELSE Absent]
    BY <1>3 DEF SendTransaction, BumpSeq, Count
  <2>3. ASSUME NEW b \in Accounts, b # a
        PROVE  due'[b] = due[b] /\ (Native(b) \in HeldKeys => held'[Native(b)] = held[Native(b)])
    <3>1. Native(b) # k
      BY <2>3, NativeKeys
    <3> HIDE DEF k
    <3> QED BY <2>1, <2>2, <2>3, <3>1
  <2>4. CASE k \in known /\ due[a] # Absent
    <3>1. held[k] \in Holding /\ held[k].rest = due[a] /\ k \in HeldKeys
      BY <1>3, <2>4 DEF DueInv
    <3>2. Wrap(due[a] + 1) \in Sequences
      <4>1. due[a] \in Sequences
        BY <1>3, <2>1, <2>4
      <4>2. due[a] + 1 \in Int
        BY <4>1, BoundsAssumption DEF Sequences
      <4> QED BY <4>2, WrapFacts
    <3>3. due'[a] = Wrap(due[a] + 1)
      BY <1>3, <2>1, <2>2, <2>4
    <3>4. held'[k] = [held[k] EXCEPT !.rest = Wrap(@ + 1)]
      <4> HIDE DEF k
      <4> QED BY <2>1, <2>2, <2>4, <3>1
    <3>5. held'[k] \in Holding /\ held'[k].rest = Wrap(due[a] + 1)
      <4> HIDE DEF k, a
      <4> QED BY <3>1, <3>2, <3>4 DEF Holding
    <3>6. due' \in [Accounts -> Sequences \cup {Absent}]
      BY <2>1, <2>2, <2>4, <3>2, <3>3
    <3> QED BY <2>3, <3>1, <3>3, <3>5, <3>6 DEF DueInv
  <2>5. CASE ~(k \in known /\ due[a] # Absent)
    <3>1. due' \in [Accounts -> Sequences \cup {Absent}] /\ due'[a] = Absent
      BY <1>3, <2>1, <2>2, <2>5
    <3> QED BY <2>3, <3>1 DEF DueInv
  <2> QED BY <2>4, <2>5
<1> QED BY <1>1, <1>2, <1>3

\* An entry is written, and its account given the number in it or any.
LEMMA DueWritten ==
    ASSUME Inv, DueInv, NEW k \in HeldKeys, NEW v, NEW n \in Sequences \cup {Absent},
           SetHeld(k, v), Renumber(k, n),
           n # Absent /\ k[2] = "native" => v \in Holding /\ v.rest = n
    PROVE  DueInv'
<1>1. /\ held \in [HeldKeys -> Held] /\ due \in [Accounts -> Sequences \cup {Absent}]
      /\ held' = [held EXCEPT ![k] = v]
  BY DEF Inv, LedgerInv, LedgerOK, DueInv, SetHeld
<1>2. CASE k[2] = "native"
  <2>1. k[1] \in Accounts /\ k = Native(k[1]) /\ due' = [due EXCEPT ![k[1]] = n]
    BY <1>2, NativeKeys DEF Renumber
  <2> DEFINE a == k[1]
  <2> HIDE DEF a
  <2>2. a \in Accounts /\ k = Native(a) /\ due' = [due EXCEPT ![a] = n]
    BY <2>1 DEF a
  <2>3. due' \in [Accounts -> Sequences \cup {Absent}] /\ due'[a] = n /\ held'[k] = v
    BY <1>1, <2>2
  <2>4. ASSUME NEW b \in Accounts, b # a
        PROVE  due'[b] = due[b] /\ (Native(b) \in HeldKeys => held'[Native(b)] = held[Native(b)])
    <3>1. Native(b) # k
      BY <2>2, <2>4, NativeKeys
    <3> QED BY <1>1, <2>2, <2>4, <3>1
  <2> QED BY <1>2, <2>2, <2>3, <2>4 DEF DueInv
<1>3. CASE k[2] # "native"
  <2>1. due' = due
    BY <1>3 DEF Renumber
  <2>2. \A a \in Accounts : Native(a) # k
    BY <1>3 DEF Native
  <2> QED BY <1>1, <2>1, <2>2 DEF DueInv
<1> QED BY <1>2, <1>3

LEMMA DueWriteHeld == ASSUME Inv, DueInv, NEW c \in Clients, WriteHeld(c) PROVE DueInv'
<1> DEFINE k == Args(c).key
           v == NewHolding(k, seen[c], Args(c).amount)
           n == IF c \in dirty THEN Absent
                ELSE IF held[k] = Absent THEN held'[k].rest ELSE due[k[1]]
<1>1. pc[c] = "writeHeld" /\ SetHeld(k, v) /\ Renumber(k, n)
  BY DEF WriteHeld
<1>2. /\ k \in HeldKeys /\ Args(c).amount \in Balances /\ seen[c] \in Seen
  BY <1>1, ArgsFacts
<1>3. v \in Holding
  BY <1>2, NewHoldingType
<1>4. held'[k] = v
  <2> HIDE DEF v, k
  <2> QED BY <1>1, <1>2 DEF SetHeld, Inv, LedgerInv, LedgerOK
<1>5. CASE c \in dirty
  <2>1. Renumber(k, Absent)
    BY <1>1, <1>5
  <2> HIDE DEF v, k
  <2> QED BY <1>1, <1>2, <2>1, DueWritten
<1>6. CASE c \notin dirty /\ held[k] = Absent
  <2>1. Renumber(k, v.rest) /\ v.rest \in Sequences
    <3>1. n = v.rest
      <4> HIDE DEF v, k
      <4> QED BY <1>4, <1>6
    <3> HIDE DEF v, k, n
    <3> QED BY <1>1, <1>3, <3>1 DEF Holding
  <2> HIDE DEF v, k
  <2> QED BY <1>1, <1>2, <1>3, <2>1, DueWritten
<1>7. CASE c \notin dirty /\ held[k] # Absent
  <2>1. held[k] = seen[c].held
    BY <1>1, <1>7 DEF Inv, ClientInv, Fresh, Args
  <2>2. seen[c].held \in Holding
    BY <1>2, <1>7, <2>1 DEF Seen
  <2>3. v = [seen[c].held EXCEPT !.balance = Args(c).amount]
    BY <1>7, <2>1 DEF NewHolding
  <2>4. v.rest = held[k].rest
    <3> HIDE DEF v, k
    <3> QED BY <2>1, <2>2, <2>3 DEF Holding
  <2>5. Renumber(k, due[k[1]])
    BY <1>1, <1>7
  <2> HIDE DEF v, k, n
  <2>6. CASE k[2] = "native"
    <3>1. k[1] \in Accounts /\ k = Native(k[1])
      BY <1>2, <2>6, NativeKeys
    <3>2. due[k[1]] \in Sequences \cup {Absent}
      BY <3>1 DEF DueInv
    <3>3. due[k[1]] # Absent => held[k].rest = due[k[1]]
      BY <3>1 DEF DueInv
    <3> QED BY <1>1, <1>2, <1>3, <2>4, <2>5, <3>2, <3>3, DueWritten
  <2>7. CASE k[2] # "native"
    <3>1. Renumber(k, Absent)
      BY <2>5, <2>7 DEF Renumber
    <3> QED BY <1>1, <1>2, <3>1, DueWritten
  <2> QED BY <2>6, <2>7
<1> QED BY <1>5, <1>6, <1>7

LEMMA DueSetEntry == ASSUME Inv, DueInv, NEW c \in Clients, SetEntry(c) PROVE DueInv'
<1>1. CASE SetHeld(Args(c).key, Args(c).entry) /\ req[c].method = "setHeld"
  <2> DEFINE k == Args(c).key
             v == Args(c).entry
             n == IF v = Foreign THEN Absent ELSE v.rest
  <2>1. pc[c] = "setEntry"
    BY DEF SetEntry
  <2>2. k \in HeldKeys /\ v \in [balance : Balances, rest : RawRests] \cup {Foreign}
    BY <1>1, <2>1, ArgsFacts
  <2>3. Renumber(k, n)
    BY <1>1, <2>1 DEF SetEntry
  <2>4. v # Foreign => v \in Holding /\ v.rest \in Sequences
    BY <2>2, MembersAssumption DEF Holding
  <2>5. n \in Sequences \cup {Absent} /\ (n # Absent => v \in Holding /\ v.rest = n)
    BY <2>4
  <2> HIDE DEF k, v, n
  <2> QED BY <1>1, <2>2, <2>3, <2>5, DueWritten DEF k, v
<1>2. CASE UNCHANGED due /\ (SetToken(Args(c).account, Args(c).amount) \/ SetInstance(Args(c).entry))
  BY <1>2, DueQuiet DEF SetToken, SetInstance
<1> QED BY <1>1, <1>2 DEF SetEntry

LEMMA DueNext == ASSUME Inv, DueInv, [Next]_vars PROVE DueInv'
<1>1. CASE UNCHANGED vars
  BY <1>1, DueQuiet DEF vars, handlers, ledger, entries
<1>2. ASSUME NEW c \in Clients, Send(c) PROVE DueInv'
  <2>1. pc[c] = "send" /\ \E ok \in BOOLEAN : SendTransaction(Args(c).tx, ok)
                                              /\ Count(Args(c).tx.source, ok)
    BY <1>2 DEF Send
  <2>2. Args(c).tx \in Hashes
    BY <2>1, ArgsFacts DEF Hashes
  <2> QED BY <2>1, <2>2, DueCount
<1>3. ASSUME NEW c \in Clients, Adjust(c) PROVE DueInv'
  <2> DEFINE f == Adjustment(Args(c).account, seen[c].balance, Args(c).amount)
  <2>1. pc[c] = "adjust" /\ \E ok \in BOOLEAN : SendTransaction(AdjustingTx(c), ok)
                                                /\ Count(ZeroAccount, ok)
    BY <1>3 DEF Adjust
  <2>2. f \in TokenCalls
    BY <2>1, AdjustFacts, AdjustmentFacts
  <2>3. AdjustingTx(c) \in Hashes /\ AdjustingTx(c).source = ZeroAccount
    <3>1. AdjustingTx(c) = [source |-> ZeroAccount, call |-> f]
      BY DEF AdjustingTx
    <3> HIDE DEF f
    <3> QED BY <2>2, <3>1 DEF Hashes
  <2> QED BY <2>1, <2>3, DueCount
<1>4. ASSUME NEW c \in Clients,
             \/ SendLatest(c) \/ SendPage(c) \/ GetTransaction(c) \/ ReadHeld(c)
             \/ SimulateBalance(c) \/ InstallCode(c) \/ ReadInstance(c) \/ WriteInstance(c)
             \/ CloseLedgers(c) \/ GetEntries(c) \/ Page(c) \/ Latest(c) \/ Abandon(c)
             \/ \E r \in Requests : Call(c, r)
      PROVE  DueInv'
  <2>1. UNCHANGED <<held, due>>
    BY <1>4 DEF SendLatest, SendPage, GetTransaction, ReadHeld, SimulateBalance,
       InstallCode, ReadInstance, WriteInstance, CloseLedgers, GetEntries, Page, Latest,
       Abandon, Call, GetHeld, SetCode, SetInstance, Warp, ledger, entries
  <2> QED BY <2>1, DueQuiet
<1> QED BY <1>1, <1>2, <1>3, <1>4, DueWriteHeld, DueSetEntry, Zenon DEF Next, Command

LEMMA TypeOKInv == Inv /\ DueInv => TypeOK
BY DEF Inv, DueInv, LedgerInv, LedgerOK, HandlersOK, TypeOK, Seen, Replies, Since

-------------------------------------------------------------------------------
(* What each action is for the clients.                                    *)

Outcomes == [c \in Clients |-> Outcome(c)]

Telling == {"sendLatest", "sendPage", "latest"}
Waiting(c) == pc[c] # "idle" /\ pc[c] \notin Telling

\* An idle client has asked for nothing, and only a handler that is about to
\* write what it read can be dirty.
ApiInv ==
    /\ \A c \in Clients : pc[c] = "idle" => req[c] = NoRequest
    /\ \A c \in dirty : pc[c] \in {"writeHeld", "adjust", "writeInstance"}

LEMMA ApiInvInit == Init => ApiInv
BY DEF Init, ApiInv

LEMMA WatchKeeps ==
    ASSUME Inv, ApiInv, NEW c \in Clients, Watch(c), NEW p, pc' = [pc EXCEPT ![c] = p]
    PROVE  \A d \in dirty' : pc'[d] \in {"writeHeld", "adjust", "writeInstance"}
BY DEF Watch, Disturbed, ApiInv, Inv, HandlersOK

LEMMA ApiInvProceed ==
    ASSUME Inv, ApiInv, NEW c \in Clients, NEW p, p # "idle", NEW s, Proceed(c, p, s)
    PROVE  ApiInv'
<1>1. pc' = [pc EXCEPT ![c] = p] /\ Watch(c) /\ req' = req
  BY DEF Proceed
<1>2. \A d \in dirty' : pc'[d] \in {"writeHeld", "adjust", "writeInstance"}
  BY <1>1, WatchKeeps
<1>3. \A d \in Clients : pc'[d] = "idle" => req'[d] = NoRequest
  BY <1>1 DEF ApiInv, Inv, HandlersOK
<1> QED BY <1>2, <1>3 DEF ApiInv

LEMMA ApiInvEnd ==
    ASSUME Inv, ApiInv, NEW c \in Clients, NEW a, End(c, a) PROVE ApiInv'
<1>1. pc' = [pc EXCEPT ![c] = "idle"] /\ Watch(c) /\ req' = [req EXCEPT ![c] = NoRequest]
  BY DEF End
<1>2. \A d \in dirty' : pc'[d] \in {"writeHeld", "adjust", "writeInstance"}
  BY <1>1, WatchKeeps
<1>3. \A d \in Clients : pc'[d] = "idle" => req'[d] = NoRequest
  BY <1>1 DEF ApiInv, Inv, HandlersOK
<1> QED BY <1>2, <1>3 DEF ApiInv

LEMMA ApiInvCall ==
    ASSUME Inv, ApiInv, NEW c \in Clients, NEW r \in Requests, Call(c, r) PROVE ApiInv'
<1>1. /\ pc[c] = "idle" /\ pc' = [pc EXCEPT ![c] = FirstCommand[r.method]]
      /\ req' = [req EXCEPT ![c] = r] /\ dirty' = dirty
  BY DEF Call
<1>2. FirstCommand[r.method] # "idle"
  BY RequestFacts DEF FirstCommand
<1> QED BY <1>1, <1>2 DEF ApiInv, Inv, HandlersOK

LEMMA ApiInvNext == ASSUME Inv, ApiInv, [Next]_vars PROVE ApiInv'
<1>1. CASE UNCHANGED vars
  BY <1>1 DEF ApiInv, vars, handlers
<1>2. ASSUME NEW c \in Clients, Command(c) \/ Abandon(c)
      PROVE  (\E p, s : p # "idle" /\ Proceed(c, p, s)) \/ (\E a : End(c, a))
  BY <1>2 DEF Command, Abandon, Send, SendLatest, SendPage, GetTransaction, ReadHeld,
     WriteHeld, SimulateBalance, Adjust, SetEntry, InstallCode, ReadInstance, WriteInstance,
     CloseLedgers, GetEntries, Page, Latest
<1> QED BY <1>1, <1>2, ApiInvProceed, ApiInvEnd, ApiInvCall, Zenon DEF Next

\* A client waits for the interface as long as its handler has not done what
\* the request asks for.
LEMMA WaitsFacts ==
    ASSUME Inv, ApiInv, NEW c \in Clients
    PROVE  /\ Waiting(c) => Api!Waits(c)
           /\ c \in Served <=> pc[c] \in Telling
           /\ req[c] # NoRequest <=> pc[c] # "idle"
<1>1. pc[c] # "idle" => req[c] \in Requests
  BY DEF Inv, ClientInv
<1>2. req[c] # NoRequest <=> pc[c] # "idle"
  BY <1>1, MarkerAssumption DEF ApiInv
<1>3. c \in Served <=> pc[c] \in Telling
  BY DEF Served, Telling
<1> QED BY <1>2, <1>3 DEF Waiting, Api!Waits

\* Whoever is marked waits for an entry that the step changes.
LEMMA WatchRaces ==
    ASSUME Inv, ApiInv, NEW c \in Clients, Watch(c) PROVE Api!Races(c)
<1>1. ASSUME NEW d \in Clients, Disturbed(d)
      PROVE  Api!Waits(d) /\ Api!Touches(req[d])
  <2>1. pc[d] \in {"writeHeld", "adjust", "writeInstance"}
    BY <1>1 DEF Disturbed
  <2>2. Waiting(d)
    BY <2>1 DEF Waiting, Telling
  <2>3. /\ pc[d] = "writeHeld" => req[d].method = "setBalance"
        /\ pc[d] = "adjust" => req[d].method = "setTokenBalance"
        /\ pc[d] = "writeInstance" => req[d].method = "etch"
    BY <2>1, ArgsFacts
  <2>4. Api!Touches(req[d])
    BY <1>1, <2>3 DEF Disturbed, Args, Api!Touches
  <2> QED BY <2>2, <2>4, WaitsFacts
<1> QED BY <1>1 DEF Watch, Api!Races

\* A step that leaves the ledger alone disturbs nobody.
LEMMA QuietWatch ==
    ASSUME Inv, ApiInv, NEW c \in Clients, Watch(c), UNCHANGED ledger,
           pc[c] \notin {"writeHeld", "adjust", "writeInstance"}
    PROVE  dirty' = dirty
BY DEF Watch, Disturbed, ApiInv, ledger, entries, Inv, HandlersOK

LEMMA ProceedApi ==
    ASSUME Inv, ApiInv, NEW c \in Clients, NEW p, NEW s, Proceed(c, p, s)
    PROVE  /\ Api!Stays(c)
           /\ Served' = IF p \in Telling THEN Served \cup {c} ELSE Served \ {c}
<1>1. /\ pc' = [pc EXCEPT ![c] = p] /\ Watch(c) /\ req' = req /\ reply' = reply
  BY DEF Proceed
<1>2. Api!Races(c)
  BY <1>1, WatchRaces
<1>3. Outcomes' = Outcomes
  BY <1>1 DEF Outcomes, Outcome
<1>4. Served' = IF p \in Telling THEN Served \cup {c} ELSE Served \ {c}
  BY <1>1 DEF Served, Telling, Inv, HandlersOK
<1> QED BY <1>1, <1>2, <1>3, <1>4 DEF Api!Stays, Outcomes

\* What the client is told of an answer.
Told(a) == IF a = NoReply THEN "none" ELSE IF a = Failed THEN "failed" ELSE "ok"

LEMMA EndApi ==
    ASSUME Inv, ApiInv, NEW c \in Clients, NEW a, End(c, a)
    PROVE  Api!Leaves(c, Told(a))
<1>1. /\ pc' = [pc EXCEPT ![c] = "idle"] /\ Watch(c) /\ req' = [req EXCEPT ![c] = NoRequest]
      /\ reply' = [reply EXCEPT ![c] = a]
  BY DEF End
<1>2. Api!Races(c)
  BY <1>1, WatchRaces
<1>3. Outcomes' = [Outcomes EXCEPT ![c] = Told(a)]
  <2>1. reply \in [Clients -> Replies \cup {NoReply, Failed}]
    BY DEF Inv, HandlersOK
  <2>2. ASSUME NEW d \in Clients
        PROVE  Outcome(d)' = IF d = c THEN Told(a) ELSE Outcome(d)
    BY <1>1, <2>1 DEF Outcome, Told
  <2> QED BY <2>2 DEF Outcomes
<1>4. Served' = Served \ {c}
  BY <1>1 DEF Served, Inv, HandlersOK
<1> QED BY <1>1, <1>2, <1>3, <1>4 DEF Api!Leaves, Outcomes

LEMMA ToldFacts ==
    /\ Told(NoReply) = "none" /\ Told(Failed) = "failed"
    /\ \A a \in Replies : Told(a) = "ok"
BY MarkerAssumption DEF Told

-------------------------------------------------------------------------------
(* The kinds of step.                                                      *)

ApiStep(c) ==
    \/ Api!GetsReady(c) \/ Api!TakesEffect(c) \/ Api!Fails(c)
    \/ Api!Returns(c) \/ Api!HangsUp(c) \/ UNCHANGED Api!promises

LEMMA Unseen ==
    ASSUME Inv, ApiInv, NEW c \in Clients, UNCHANGED ledger, NEW p, NEW s,
           Proceed(c, p, s), (p \in Telling) = (pc[c] \in Telling),
           pc[c] \notin {"writeHeld", "adjust", "writeInstance"}
    PROVE  ApiStep(c)
<1>1. Api!Stays(c)
      /\ Served' = IF p \in Telling THEN Served \cup {c} ELSE Served \ {c}
  BY ProceedApi
<1>2. Served' = Served
  BY <1>1, WaitsFacts
<1>3. Watch(c) /\ req' = req /\ reply' = reply
  BY DEF Proceed
<1>4. dirty' = dirty
  BY <1>3, QuietWatch
<1>5. Outcomes' = Outcomes
  BY <1>3 DEF Outcomes, Outcome
<1>6. UNCHANGED Api!ledger
  BY DEF ledger, entries, Api!ledger, Api!entries
<1>7. UNCHANGED Api!promises
  BY <1>2, <1>3, <1>4, <1>5, <1>6 DEF Api!promises, Outcomes
<1> QED BY <1>7 DEF ApiStep

LEMMA GettingReady ==
    ASSUME Inv, ApiInv, NEW c \in Clients, Waiting(c), Api!Prepare(req[c]),
           NEW p, NEW s, Proceed(c, p, s), p \notin Telling
    PROVE  ApiStep(c)
<1>1. Api!Stays(c) /\ Served' = Served
  BY ProceedApi, WaitsFacts DEF Waiting
<1> QED BY <1>1, WaitsFacts DEF ApiStep, Api!GetsReady

\* The effect is there, and the client will be told or is.
LEMMA TakingEffect ==
    ASSUME Inv, ApiInv, NEW c \in Clients, Waiting(c),
           Api!Perform(req[c]) \/ (c \in dirty /\ Api!Overwrite(req[c])),
           \/ \E p \in Telling, s \in Seen : Proceed(c, p, s)
           \/ \E a \in Replies : End(c, a)
    PROVE  ApiStep(c)
<1>1. Api!Waits(c)
  BY WaitsFacts
<1>2. CASE \E p \in Telling, s \in Seen : Proceed(c, p, s)
  <2>1. Api!Stays(c) /\ Served' = Served \cup {c}
    BY <1>2, ProceedApi
  <2> QED BY <1>1, <2>1 DEF ApiStep, Api!TakesEffect
<1>3. CASE \E a \in Replies : End(c, a)
  <2>1. Api!Leaves(c, "ok")
    BY <1>3, EndApi, ToldFacts
  <2> QED BY <1>1, <2>1 DEF ApiStep, Api!TakesEffect
<1> QED BY <1>2, <1>3

LEMMA Failing ==
    ASSUME Inv, ApiInv, NEW c \in Clients, Waiting(c), End(c, Failed),
           UNCHANGED ledger \/ Api!Prepare(req[c]) \/ Api!Refuse(req[c])
    PROVE  ApiStep(c)
<1>1. Api!Leaves(c, "failed") /\ Api!Waits(c)
  BY EndApi, ToldFacts, WaitsFacts
<1>2. UNCHANGED ledger => UNCHANGED Api!ledger
  BY DEF ledger, entries, Api!ledger, Api!entries
<1> QED BY <1>1, <1>2 DEF ApiStep, Api!Fails

LEMMA Returning ==
    ASSUME Inv, ApiInv, NEW c \in Clients, UNCHANGED ledger, pc[c] \in Telling,
           NEW a \in Replies, End(c, a)
    PROVE  ApiStep(c)
<1>1. Api!Leaves(c, "ok") /\ c \in Served
  BY EndApi, ToldFacts, WaitsFacts
<1>2. UNCHANGED Api!ledger
  BY DEF ledger, entries, Api!ledger, Api!entries
<1> QED BY <1>1, <1>2 DEF ApiStep, Api!Returns

-------------------------------------------------------------------------------
(* The steps.                                                              *)

\* The commands are the same for the handlers and for the interface.
LEMMA SameSend ==
    ASSUME NEW x, NEW ok, SendTransaction(x, ok) PROVE Api!SendTransaction(x, ok)
BY DEF SendTransaction, Executable, Apply, BumpSeq, Native, Instance, Holding, Balances, Sequences, Wrap,
       Api!SendTransaction, Api!Executable, Api!Apply, Api!BumpSeq, Api!Native, Api!Instance,
       Api!Holding, Api!Balances, Api!Sequences, Api!Wrap

LEMMA SameSetHeld == ASSUME NEW k, NEW v, SetHeld(k, v) PROVE Api!SetHeld(k, v)
BY DEF SetHeld, Api!SetHeld

LEMMA SameGetHeld == ASSUME NEW k, GetHeld(k) PROVE Api!GetHeld(k)
BY DEF GetHeld, Api!GetHeld

LEMMA SameSetToken == ASSUME NEW a, NEW n, SetToken(a, n) PROVE Api!SetToken(a, n)
BY DEF SetToken, Api!SetToken

LEMMA SameSetCode == ASSUME NEW w, SetCode(w) PROVE Api!SetCode(w)
BY DEF SetCode, Api!SetCode

LEMMA SameSetInstance == ASSUME NEW v, SetInstance(v) PROVE Api!SetInstance(v)
BY DEF SetInstance, Api!SetInstance

LEMMA SendApi == ASSUME Inv, ApiInv, NEW c \in Clients, Send(c) PROVE ApiStep(c)
<1>1. pc[c] = "send" /\ \E ok \in BOOLEAN : SendTransaction(Args(c).tx, ok)
  BY DEF Send
<1>2. req[c].method = "sendTransaction" /\ Args(c).tx \in Hashes
  BY <1>1, ArgsFacts DEF Hashes
<1>3. \E ok \in BOOLEAN : Api!SendTransaction(req[c].args.tx, ok)
  BY <1>1, SameSend DEF Args
<1>4. Api!Perform(req[c])
  BY <1>2, <1>3 DEF Api!Perform
<1>5. receipts'[Args(c).tx] \in Receipt
  BY <1>1, <1>2, SendStep DEF Inv
<1>6. \E s \in Seen : Proceed(c, "sendLatest", s)
  BY <1>5, BlankFacts DEF Send
<1>7. Waiting(c) /\ "sendLatest" \in Telling
  BY <1>1 DEF Waiting, Telling
<1> QED BY <1>4, <1>6, <1>7, TakingEffect

LEMMA GetTransactionApi ==
    ASSUME Inv, ApiInv, NEW c \in Clients, GetTransaction(c) PROVE ApiStep(c)
<1>1. UNCHANGED ledger /\ pc[c] \in {"receipt", "receiptLatest"}
  BY DEF GetTransaction
<1>2. req[c].method = "getTransaction" /\ seen[c] \in Seen
  BY <1>1, ArgsFacts
<1>3. CASE \E s : Proceed(c, "receiptLatest", s)
  <2>1. pc[c] \notin Telling /\ "receiptLatest" \notin Telling
    BY <1>1 DEF Telling
  <2> QED BY <1>1, <1>3, <2>1, Unseen
<1>4. CASE End(c, Answer(sequence, Absent, seen[c].receipt))
  <2>1. Answer(sequence, Absent, seen[c].receipt) \in Replies
    BY <1>2, AnswerFacts, ClockFacts DEF Seen
  <2>2. Api!Perform(req[c])
    BY <1>1, <1>2 DEF Api!Perform, ledger, entries, Api!ledger, Api!entries
  <2>3. Waiting(c)
    BY <1>1 DEF Waiting, Telling
  <2> QED BY <1>4, <2>1, <2>2, <2>3, TakingEffect
<1> QED BY <1>3, <1>4 DEF GetTransaction

LEMMA ReadHeldApi == ASSUME Inv, ApiInv, NEW c \in Clients, ReadHeld(c) PROVE ApiStep(c)
<1>1. pc[c] = "readHeld" /\ Api!GetHeld(req[c].args.key)
  BY SameGetHeld DEF ReadHeld, Args
<1>2. req[c].method = "setBalance"
  BY <1>1, ArgsFacts
<1>3. Api!Prepare(req[c])
  BY <1>1, <1>2 DEF Api!Prepare
<1>4. Waiting(c) /\ "writeHeld" \notin Telling
  BY <1>1 DEF Waiting, Telling
<1>5. End(c, Failed) \/ \E s : Proceed(c, "writeHeld", s)
  BY DEF ReadHeld
<1> QED BY <1>3, <1>4, <1>5, GettingReady, Failing

\* The balance written back is the one asked for; the rest is what was read.
LEMMA WriteHeldApi == ASSUME Inv, ApiInv, NEW c \in Clients, WriteHeld(c) PROVE ApiStep(c)
<1> DEFINE k == req[c].args.key
           n == req[c].args.amount
<1>1. pc[c] = "writeHeld" /\ SetHeld(k, NewHolding(k, seen[c], n))
  BY DEF WriteHeld, Args
<1>2. /\ req[c].method = "setBalance" /\ k \in HeldKeys /\ n \in Balances /\ seen[c] \in Seen
      /\ Ready(req[c], pc[c], seen[c], since[c], sequence, codes)
  BY <1>1, ArgsFacts DEF Args
<1>3. ASSUME c \notin dirty PROVE Api!Perform(req[c])
  <2>1. held[k] = seen[c].held
    BY <1>1, <1>3 DEF Inv, ClientInv, Fresh
  <2>2. seen[c].latest \in 0 .. sequence /\ seen[c].held \in Holding \cup {Absent}
    <3>1. /\ seen[c].latest \in Nat /\ seen[c].latest <= sequence
          /\ seen[c].held \in Holding \cup {Absent}
      BY <1>1, <1>2, BoundsAssumption DEF Ready, Seen
    <3>2. sequence \in Nat
      BY ClockFacts
    <3> QED BY <3>1, <3>2
  <2>3. Api!SetBalance(k, n)
    <3>1. CASE held[k] = Absent
      <4> DEFINE rest == FirstRest(k, seen[c].latest)
      <4>1. NewHolding(k, seen[c], n) = [balance |-> n, rest |-> rest]
        BY <2>1, <3>1 DEF NewHolding
      <4>2. rest \in IF k[2] = "native"
                     THEN {Api!Wrap(at * SeqUnit) : at \in 0 .. sequence} ELSE {SeqMax}
        BY <2>2 DEF FirstRest, Wrap, Api!Wrap
      <4>3. Api!SetHeld(k, [balance |-> n, rest |-> rest])
        BY <1>1, <4>1, SameSetHeld
      <4> HIDE DEF rest, k, n
      <4> QED BY <3>1, <4>2, <4>3 DEF Api!SetBalance
    <3>2. CASE held[k] # Absent
      <4>1. held[k] \in Api!Holding
        BY <2>1, <2>2, <3>2 DEF Holding, Balances, Sequences, Api!Holding, Api!Balances,
                                Api!Sequences
      <4>2. NewHolding(k, seen[c], n) = [held[k] EXCEPT !.balance = n]
        BY <2>1, <3>2 DEF NewHolding
      <4>3. Api!SetHeld(k, [held[k] EXCEPT !.balance = n])
        BY <1>1, <4>2, SameSetHeld
      <4> HIDE DEF k, n
      <4> QED BY <4>1, <4>3 DEF Api!SetBalance
    <3> QED BY <3>1, <3>2
  <2> QED BY <1>2, <2>3 DEF Api!Perform
<1>4. ASSUME c \in dirty PROVE Api!Overwrite(req[c])
  <2> DEFINE v == NewHolding(k, seen[c], n)
  <2>1. v \in Holding
    BY <1>2, NewHoldingType
  <2>2. v.balance = n
    <3>1. seen[c].held # Absent => seen[c].held \in Holding
      BY <1>2 DEF Seen
    <3> HIDE DEF k, n
    <3> QED BY <3>1 DEF NewHolding, Holding
  <2>3. v \in Api!Holding
    BY <2>1 DEF Holding, Balances, Sequences, Api!Holding, Api!Balances, Api!Sequences
  <2>4. Api!SetHeld(k, v)
    BY <1>1, SameSetHeld
  <2> HIDE DEF v
  <2> QED BY <1>2, <2>2, <2>3, <2>4 DEF Api!Overwrite
<1>5. Waiting(c)
  BY <1>1 DEF Waiting, Telling
<1>6. \E a \in Replies : End(c, a)
  <2>1. Answer(seen[c].latest, Absent, NoReceipt) \in Replies
    BY <1>2, AnswerFacts DEF Seen
  <2> QED BY <2>1 DEF WriteHeld
<1> QED BY <1>3, <1>4, <1>5, <1>6, TakingEffect

LEMMA SimulateApi ==
    ASSUME Inv, ApiInv, NEW c \in Clients, SimulateBalance(c) PROVE ApiStep(c)
<1>1. pc[c] = "simulate" /\ UNCHANGED ledger
  BY DEF SimulateBalance
<1>2. Waiting(c) /\ pc[c] \notin Telling /\ "adjust" \notin Telling
  BY <1>1 DEF Waiting, Telling
<1>3. CASE End(c, Failed)
  BY <1>1, <1>2, <1>3, Failing
<1>4. CASE /\ Args(c).amount = token[Args(c).account]
           /\ End(c, Answer(sequence, Absent, NoReceipt))
  <2>1. Api!Perform(req[c])
    <3>1. req[c].method = "setTokenBalance"
      BY <1>1, ArgsFacts
    <3>2. Api!SetTokenBalance(req[c].args.account, req[c].args.amount)
      BY <1>1, <1>4 DEF Args, Api!SetTokenBalance, ledger, entries, Api!ledger, Api!entries
    <3> QED BY <3>1, <3>2 DEF Api!Perform
  <2>2. Answer(sequence, Absent, NoReceipt) \in Replies
    BY AnswerFacts, ClockFacts
  <2> QED BY <1>2, <1>4, <2>1, <2>2, TakingEffect
<1>5. CASE \E s : Proceed(c, "adjust", s)
  BY <1>1, <1>2, <1>5, Unseen
<1> QED BY <1>3, <1>4, <1>5 DEF SimulateBalance

\* One mint or burn, which reaches the target if the balance is as it was read.
LEMMA AdjustApi == ASSUME Inv, ApiInv, NEW c \in Clients, Adjust(c) PROVE ApiStep(c)
<1> DEFINE a == req[c].args.account
           n == req[c].args.amount
           f == Adjustment(a, seen[c].balance, n)
<1>1. PICK ok \in BOOLEAN :
         /\ SendTransaction([source |-> ZeroAccount, call |-> f], ok)
         /\ IF ok THEN Proceed(c, "latest", Blank) ELSE End(c, Failed)
  BY DEF Adjust, AdjustingTx, Args
<1>2. pc[c] = "adjust"
  BY DEF Adjust
<1>3. /\ req[c].method = "setTokenBalance" /\ a \in Accounts /\ n \in Balances
      /\ seen[c].balance \in Balances /\ n # seen[c].balance
  BY <1>2, AdjustFacts DEF Args
<1>4. f \in Api!TokenCalls /\ f.to = a /\ f \in TokenCalls
  <2>1. f \in TokenCalls /\ f.to = a
    <3> HIDE DEF a, n
    <3> QED BY <1>3, AdjustmentFacts
  <2> HIDE DEF f
  <2> QED BY <2>1 DEF TokenCalls, Api!TokenCalls
<1>5. Api!SendTransaction([source |-> ZeroAccount, call |-> f], ok)
  BY <1>1, SameSend
<1>6. Api!AdjustToken(a, ok)
  <2> HIDE DEF a, f
  <2> QED BY <1>4, <1>5 DEF Api!AdjustToken
<1>7. Waiting(c) /\ "latest" \in Telling
  BY <1>2 DEF Waiting, Telling
<1>8. CASE ok /\ c \notin dirty
  <2>1. token[a] = seen[c].balance
    BY <1>2, <1>8 DEF Inv, ClientInv, Fresh
  <2>2. token'[a] = n
    <3> HIDE DEF a, n
    <3>1. /\ f.to = a
          /\ \/ f.fn = "mint" /\ token[a] + f.amount = n
             \/ f.fn = "burn" /\ token[a] - f.amount = n
      BY <1>3, <2>1, AdjustmentFacts
    <3> HIDE DEF f
    <3> QED BY <1>1, <1>3, <1>8, <3>1 DEF SendTransaction, Apply, Inv, LedgerInv, LedgerOK
  <2>3. Api!SetTokenBalance(a, n)
    <3>1. Api!AdjustToken(a, TRUE)
      BY <1>6, <1>8
    <3> HIDE DEF a, n
    <3> QED BY <1>3, <2>1, <2>2, <3>1 DEF Api!SetTokenBalance
  <2>4. Api!Perform(req[c])
    BY <1>3, <2>3 DEF Api!Perform
  <2> QED BY <1>1, <1>7, <1>8, <2>4, BlankFacts, TakingEffect
<1>9. CASE ok /\ c \in dirty
  <2>1. Api!AdjustToken(a, TRUE)
    BY <1>6, <1>9
  <2>2. Api!Overwrite(req[c])
    BY <1>3, <2>1 DEF Api!Overwrite
  <2> QED BY <1>1, <1>7, <1>9, <2>2, BlankFacts, TakingEffect
<1>10. CASE ~ok
  <2>1. Api!AdjustToken(a, FALSE)
    BY <1>6, <1>10
  <2>2. Api!Refuse(req[c])
    BY <1>3, <2>1 DEF Api!Refuse
  <2> QED BY <1>1, <1>7, <1>10, <2>2, Failing
<1> QED BY <1>8, <1>9, <1>10

LEMMA SetEntryApi == ASSUME Inv, ApiInv, NEW c \in Clients, SetEntry(c) PROVE ApiStep(c)
<1>1. /\ pc[c] = "setEntry"
      /\ \/ /\ req[c].method = "setHeld"
            /\ Api!SetHeld(req[c].args.key, req[c].args.entry)
         \/ /\ req[c].method = "setToken"
            /\ Api!SetToken(req[c].args.account, req[c].args.amount)
         \/ /\ req[c].method = "setInstance"
            /\ Api!SetInstance(req[c].args.entry)
  BY SameSetHeld, SameSetToken, SameSetInstance DEF SetEntry, Args
<1>2. Api!Perform(req[c])
  BY <1>1 DEF Api!Perform
<1>3. Waiting(c) /\ "latest" \in Telling
  BY <1>1 DEF Waiting, Telling
<1> QED BY <1>2, <1>3, BlankFacts, TakingEffect DEF SetEntry

LEMMA InstallCodeApi ==
    ASSUME Inv, ApiInv, NEW c \in Clients, InstallCode(c) PROVE ApiStep(c)
<1>1. pc[c] = "installCode" /\ Api!SetCode(req[c].args.wasm)
  BY SameSetCode DEF InstallCode, Args
<1>2. req[c].method \in {"setCode", "etch"}
  BY <1>1, ArgsFacts
<1>3. Waiting(c) /\ "latest" \in Telling /\ "readInstance" \notin Telling
  BY <1>1 DEF Waiting, Telling
<1>4. CASE req[c].method = "setCode"
  <2>1. Api!Perform(req[c]) /\ Proceed(c, "latest", Blank)
    BY <1>1, <1>4 DEF Api!Perform, InstallCode
  <2> QED BY <1>3, <2>1, BlankFacts, TakingEffect
<1>5. CASE req[c].method = "etch"
  <2>1. Api!Prepare(req[c]) /\ Proceed(c, "readInstance", Blank)
    BY <1>1, <1>5 DEF Api!Prepare, InstallCode
  <2> QED BY <1>3, <2>1, GettingReady
<1> QED BY <1>2, <1>4, <1>5

LEMMA ReadInstanceApi ==
    ASSUME Inv, ApiInv, NEW c \in Clients, ReadInstance(c) PROVE ApiStep(c)
<1>1. pc[c] = "readInstance" /\ UNCHANGED ledger
  BY DEF ReadInstance
<1>2. Waiting(c) /\ pc[c] \notin Telling /\ "writeInstance" \notin Telling
  BY <1>1 DEF Waiting, Telling
<1>3. End(c, Failed) \/ \E s : Proceed(c, "writeInstance", s)
  BY DEF ReadInstance
<1> QED BY <1>1, <1>2, <1>3, Unseen, Failing

LEMMA EtchedInstance ==
    ASSUME NEW i \in Instance, NEW w, NEW live
    PROVE  [i EXCEPT !.wasm = w, !.live = live] =
           [wasm |-> w, storage |-> i.storage, live |-> live]
<1> DEFINE b == [wasm |-> w, storage |-> i.storage, live |-> i.live]
<1>1. [i EXCEPT !.wasm = w, !.live = live] = [[i EXCEPT !.wasm = w] EXCEPT !.live = live]
  OBVIOUS
<1>2. [i EXCEPT !.wasm = w] = b
  <2>1. i = [wasm |-> i.wasm, storage |-> i.storage, live |-> i.live]
    BY DEF Instance
  <2> DEFINE k == [wasm |-> i.wasm, storage |-> i.storage, live |-> i.live]
  <2>2. [k EXCEPT !.wasm = w] = b
    OBVIOUS
  <2> QED BY <2>1, <2>2, Zenon
<1>3. [b EXCEPT !.live = live] = [wasm |-> w, storage |-> i.storage, live |-> live]
  OBVIOUS
<1> QED BY <1>1, <1>2, <1>3, Zenon

\* The code swapped in is there; the storage is the one that was read.
LEMMA WriteInstanceApi ==
    ASSUME Inv, ApiInv, NEW c \in Clients, WriteInstance(c) PROVE ApiStep(c)
<1> DEFINE w == req[c].args.wasm
           live == req[c].args.live
           v == [wasm |-> w, storage |-> seen[c].storage, live |-> live]
<1>1. pc[c] = "writeInstance" /\ Api!SetInstance(v) /\ Proceed(c, "latest", Blank)
  BY SameSetInstance DEF WriteInstance, Args
<1>2. req[c].method = "etch" /\ w \in codes /\ seen[c] \in Seen
  BY <1>1, ArgsFacts DEF Ready
<1>3. ASSUME c \notin dirty PROVE Api!Perform(req[c])
  <2>1. \/ instance = Absent /\ seen[c].storage = Empty
        \/ instance \in Instance /\ seen[c].storage = instance.storage
    BY <1>1, <1>3 DEF Inv, ClientInv, Fresh
  <2> HIDE DEF w, live
  <2>2. Api!Etch(w, live)
    <3>1. CASE instance = Absent /\ seen[c].storage = Empty
      <4>1. v = [wasm |-> w, storage |-> Empty, live |-> live]
        BY <3>1
      <4> QED BY <1>1, <1>2, <3>1, <4>1 DEF Api!Etch
    <3>2. CASE instance \in Instance /\ seen[c].storage = instance.storage
      <4>1. v = [instance EXCEPT !.wasm = w, !.live = live]
        BY <3>2, EtchedInstance
      <4>2. instance \in Api!Instance
        BY <3>2 DEF Instance, Api!Instance
      <4> HIDE DEF v
      <4> QED BY <1>1, <1>2, <4>1, <4>2 DEF Api!Etch
    <3> QED BY <2>1, <3>1, <3>2
  <2> QED BY <1>2, <2>2 DEF Api!Perform, w, live
<1>4. ASSUME c \in dirty PROVE Api!Overwrite(req[c])
  <2>1. seen[c].storage \in Values
    BY <1>2 DEF Seen
  <2> QED BY <1>1, <1>2, <2>1 DEF Api!Overwrite
<1>5. Waiting(c) /\ "latest" \in Telling
  BY <1>1 DEF Waiting, Telling
<1> QED BY <1>1, <1>3, <1>4, <1>5, BlankFacts, TakingEffect

LEMMA CloseLedgersApi ==
    ASSUME Inv, ApiInv, NEW c \in Clients, CloseLedgers(c) PROVE ApiStep(c)
<1>1. pc[c] = "close" /\ Api!CloseLedgers(req[c].args.ledgers, req[c].args.seconds)
  BY DEF CloseLedgers, Args, Warp, SaturatingAdd, entries,
         Api!CloseLedgers, Api!Warp, Api!SaturatingAdd, Api!entries
<1>2. req[c].method = "closeLedgers"
  BY <1>1, ArgsFacts
<1>3. Api!Perform(req[c])
  BY <1>1, <1>2 DEF Api!Perform
<1>4. Inv'
  BY CloseLedgersInv
<1>5. Answer(sequence', closeTime', NoReceipt) \in Replies
  BY <1>4, AnswerFacts DEF Inv, LedgerInv, LedgerOK
<1>6. Waiting(c) /\ \E a \in Replies : End(c, a)
  BY <1>1, <1>5 DEF CloseLedgers, Waiting, Telling
<1> QED BY <1>3, <1>6, TakingEffect

LEMMA GetEntriesApi ==
    ASSUME Inv, ApiInv, NEW c \in Clients, GetEntries(c) PROVE ApiStep(c)
<1>1. pc[c] = "entries" /\ Api!GetHeld(req[c].args.key)
  BY SameGetHeld DEF GetEntries, Args
<1>2. req[c].method = "getLedgerEntries"
  BY <1>1, ArgsFacts
<1>3. Api!Perform(req[c])
  BY <1>1, <1>2 DEF Api!Perform
<1>4. Answer(sequence, Absent, NoReceipt) \in Replies
  BY AnswerFacts, ClockFacts
<1>5. Waiting(c) /\ \E a \in Replies : End(c, a)
  BY <1>1, <1>4 DEF GetEntries, Waiting, Telling
<1> QED BY <1>3, <1>5, TakingEffect

LEMMA PageApi == ASSUME Inv, ApiInv, NEW c \in Clients, Page(c) PROVE ApiStep(c)
<1>1. pc[c] = "page" /\ UNCHANGED ledger
  BY DEF Page
<1>2. req[c].method = "getLedgers"
  BY <1>1, ArgsFacts
<1>3. Api!Perform(req[c])
  BY <1>1, <1>2 DEF Api!Perform, ledger, entries, Api!ledger, Api!entries
<1>4. Answer(sequence, closeTime, NoReceipt) \in Replies
  BY AnswerFacts, ClockFacts
<1>5. Waiting(c) /\ \E a \in Replies : End(c, a)
  BY <1>1, <1>4 DEF Page, Waiting, Telling
<1> QED BY <1>3, <1>5, TakingEffect

\* The commands that come after the effect.
LEMMA TellingApi ==
    ASSUME Inv, ApiInv, NEW c \in Clients, SendLatest(c) \/ SendPage(c) \/ Latest(c)
    PROVE  ApiStep(c)
<1>1. UNCHANGED ledger /\ pc[c] \in Telling
  BY DEF SendLatest, SendPage, Latest, Telling
<1>2. seen[c] \in Seen /\ sequence \in 0 .. MaxLedger /\ closeTime \in 0 .. MaxTime
  BY <1>1, ArgsFacts, ClockFacts DEF Telling
<1>3. CASE SendLatest(c)
  <2>1. \E s : Proceed(c, "sendPage", s)
    BY <1>3 DEF SendLatest
  <2> QED BY <1>1, <2>1, Unseen DEF Telling
<1>4. CASE SendPage(c)
  <2>1. Answer(seen[c].latest, closeTime, seen[c].receipt) \in Replies
    BY <1>2, AnswerFacts DEF Seen
  <2> QED BY <1>1, <1>4, <2>1, Returning DEF SendPage
<1>5. CASE Latest(c)
  <2>1. Answer(sequence, Absent, seen[c].receipt) \in Replies
    BY <1>2, AnswerFacts DEF Seen
  <2> QED BY <1>1, <1>5, <2>1, Returning DEF Latest
<1> QED BY <1>3, <1>4, <1>5

LEMMA CommandApi == ASSUME Inv, ApiInv, NEW c \in Clients, Command(c) PROVE ApiStep(c)
BY SendApi, GetTransactionApi, ReadHeldApi, WriteHeldApi, SimulateApi, AdjustApi, SetEntryApi,
   InstallCodeApi, ReadInstanceApi, WriteInstanceApi, CloseLedgersApi, GetEntriesApi, PageApi,
   TellingApi, Zenon DEF Command

LEMMA AbandonApi == ASSUME Inv, ApiInv, NEW c \in Clients, Abandon(c) PROVE ApiStep(c)
<1>1. Api!Leaves(c, "none")
  BY EndApi, ToldFacts DEF Abandon
<1>2. req[c] # NoRequest
  BY WaitsFacts DEF Abandon
<1>3. UNCHANGED Api!ledger
  BY DEF Abandon, ledger, entries, Api!ledger, Api!entries
<1> QED BY <1>1, <1>2, <1>3 DEF ApiStep, Api!HangsUp

LEMMA CallApi ==
    ASSUME Inv, ApiInv, NEW c \in Clients, NEW r \in Requests, Call(c, r)
    PROVE  Api!Ask(c, r)
<1>1. /\ pc[c] = "idle" /\ pc' = [pc EXCEPT ![c] = FirstCommand[r.method]]
      /\ req' = [req EXCEPT ![c] = r] /\ reply' = [reply EXCEPT ![c] = NoReply]
      /\ UNCHANGED <<ledger, dirty>>
  BY DEF Call
<1>2. req[c] = NoRequest
  BY <1>1 DEF ApiInv
<1>3. FirstCommand[r.method] \notin Telling
  BY RequestFacts DEF FirstCommand, Telling
<1>4. Served' = Served
  BY <1>1, <1>3 DEF Served, Telling, Inv, HandlersOK
<1>5. Outcomes' = [Outcomes EXCEPT ![c] = "none"]
  <2>1. reply \in [Clients -> Replies \cup {NoReply, Failed}]
    BY DEF Inv, HandlersOK
  <2>2. ASSUME NEW d \in Clients
        PROVE  Outcome(d)' = IF d = c THEN "none" ELSE Outcome(d)
    BY <1>1, <2>1 DEF Outcome
  <2> QED BY <2>2 DEF Outcomes
<1>6. UNCHANGED Api!ledger
  BY <1>1 DEF ledger, entries, Api!ledger, Api!entries
<1> QED BY <1>1, <1>2, <1>4, <1>5, <1>6 DEF Api!Ask, Outcomes

LEMMA SameRequests == Api!Requests = Requests
<1>1. /\ Api!HeldKeys = HeldKeys /\ Api!Balances = Balances
  BY DEF HeldKeys, Balances, Api!HeldKeys, Api!Balances
<1>2. Api!Arguments = Arguments
  BY <1>1, Zenon DEF Arguments, Api!Arguments
<1> QED BY <1>2, Zenon DEF Requests, Api!Requests

LEMMA ApiInit == Init => Api!Init
<1> SUFFICES ASSUME Init PROVE Api!Init
  OBVIOUS
<1>1. Api!InitLedger
  BY DEF Init, InitLedger, HeldKeys, Hashes, TokenCalls, Api!InitLedger, Api!HeldKeys,
         Api!Hashes, Api!TokenCalls
<1>2. Outcomes = [c \in Clients |-> "none"]
  BY DEF Init, Outcomes, Outcome
<1>3. Served = {}
  BY DEF Init, Served
<1> QED BY <1>1, <1>2, <1>3 DEF Init, Api!Init, Outcomes

LEMMA ApiNext == ASSUME Inv, ApiInv, [Next]_vars PROVE [Api!Next]_(Api!promises)
<1>1. CASE UNCHANGED vars
  <2>1. Served' = Served /\ Outcomes' = Outcomes
    BY <1>1 DEF vars, handlers, Served, Outcomes, Outcome
  <2>2. UNCHANGED Api!ledger
    BY <1>1 DEF vars, ledger, entries, Api!ledger, Api!entries
  <2> QED BY <1>1, <2>1, <2>2 DEF vars, handlers, Api!promises, Outcomes
<1>2. ASSUME NEW c \in Clients, Command(c) \/ Abandon(c) PROVE ApiStep(c)
  BY <1>2, CommandApi, AbandonApi
<1>3. ASSUME NEW c \in Clients, NEW r \in Requests, Call(c, r)
      PROVE  Api!Ask(c, r) /\ r \in Api!Requests
  BY <1>3, CallApi, SameRequests
<1> QED BY <1>1, <1>2, <1>3, Zenon DEF Next, ApiStep, Api!Next

-------------------------------------------------------------------------------
(* The clock and the instance.                                             *)

\* The clock moves only forward, and only in fork_closeLedgers.
LEMMA NextClock ==
    ASSUME Inv, [Next]_vars PROVE sequence' >= sequence /\ closeTime' >= closeTime
<1>1. sequence \in Int /\ closeTime \in Int
  BY DEF Inv, LedgerInv, LedgerOK
<1>2. ASSUME NEW c \in Clients, CloseLedgers(c) PROVE LedgerStep
  <2> DEFINE n == IF Args(c).ledgers = Absent THEN 1 ELSE Args(c).ledgers
             s == IF Args(c).seconds = Absent THEN n * LedgerInterval ELSE Args(c).seconds
  <2>1. pc[c] = "close" /\ Warp(n, s)
    BY <1>2 DEF CloseLedgers
  <2>2. Args(c).ledgers \in Closes \cup {Absent} /\ Args(c).seconds \in Delays \cup {Absent}
    BY <2>1, ArgsFacts
  <2>3. Closes \subseteq Nat /\ Delays \subseteq Nat
    BY MembersAssumption, BoundsAssumption
  <2>4. n \in Nat
    BY <2>2, <2>3
  <2>5. n * LedgerInterval \in Nat
    <3> HIDE DEF n
    <3> QED BY <2>4, ProductFacts
  <2>6. s \in Nat
    <3> HIDE DEF n
    <3> QED BY <2>2, <2>3, <2>5
  <2> HIDE DEF n, s
  <2> QED BY <2>1, <2>4, <2>6, WarpStep DEF Inv
<1>3. ASSUME NEW c \in Clients, Command(c), ~CloseLedgers(c)
      PROVE  UNCHANGED <<sequence, closeTime>>
  BY <1>3 DEF Command, Send, SendLatest, SendPage, GetTransaction, ReadHeld, WriteHeld,
     SimulateBalance, Adjust, SetEntry, InstallCode, ReadInstance, WriteInstance, GetEntries,
     Page, Latest, SendTransaction, GetHeld, SetHeld, SetToken, SetCode, SetInstance, ledger
<1>4. CASE \/ UNCHANGED vars
           \/ \E c \in Clients : Abandon(c) \/ \E r \in Requests : Call(c, r)
  BY <1>1, <1>4 DEF Abandon, Call, vars, ledger
<1> QED BY <1>1, <1>2, <1>3, <1>4 DEF Next, LedgerStep

\* Only fork_etch sets the code of an instance, and the code is there.
LEMMA RunnableKept ==
    ASSUME Inv, InstanceRunnable, RawInstances \cap Instance = {}, [Next]_vars
    PROVE  InstanceRunnable'
<1>1. CASE UNCHANGED vars
  BY <1>1 DEF InstanceRunnable, vars, ledger, entries
<1>2. ASSUME UNCHANGED ledger \/ (instance' = instance /\ codes \subseteq codes')
      PROVE  InstanceRunnable'
  BY <1>2 DEF InstanceRunnable, ledger, entries
<1>3. ASSUME NEW x, NEW ok, SendTransaction(x, ok)
      PROVE  InstanceRunnable'
  <2>1. codes' = codes
    BY <1>3 DEF SendTransaction
  <2>2. CASE instance' = instance
    BY <2>1, <2>2 DEF InstanceRunnable
  <2>3. CASE instance' # instance
    <3>1. /\ instance \in Instance /\ instance.wasm \in codes
          /\ instance' = [instance EXCEPT !.storage = x.call.value]
      BY <1>3, <2>3 DEF SendTransaction, Apply, Executable
    <3>2. instance'.wasm = instance.wasm
      BY <3>1 DEF Instance
    <3> QED BY <2>1, <3>1, <3>2 DEF InstanceRunnable
  <2> QED BY <2>2, <2>3
<1>4. ASSUME NEW c \in Clients, SetEntry(c) PROVE InstanceRunnable'
  <2>1. CASE SetInstance(Args(c).entry) /\ req[c].method = "setInstance"
    <3>1. pc[c] = "setEntry"
      BY <1>4 DEF SetEntry
    <3>2. Args(c).entry \in RawInstances
      BY <2>1, <3>1, ArgsFacts
    <3> QED BY <2>1, <3>2 DEF SetInstance, InstanceRunnable
  <2>2. CASE UNCHANGED <<instance, codes>>
    BY <1>2, <2>2
  <2> QED BY <1>4, <2>1, <2>2 DEF SetEntry, SetHeld, SetToken
<1>5. ASSUME NEW c \in Clients, WriteInstance(c) PROVE InstanceRunnable'
  <2>1. pc[c] = "writeInstance" /\ instance'.wasm = Args(c).wasm /\ codes' = codes
    BY <1>5 DEF WriteInstance, SetInstance
  <2>2. Args(c).wasm \in codes
    BY <2>1, ArgsFacts DEF Ready, Args
  <2> QED BY <2>1, <2>2 DEF InstanceRunnable
<1>6. ASSUME NEW c \in Clients, InstallCode(c) PROVE InstanceRunnable'
  BY <1>2, <1>6 DEF InstallCode, SetCode
<1>7. ASSUME NEW c \in Clients,
             \/ SendLatest(c) \/ SendPage(c) \/ GetTransaction(c) \/ ReadHeld(c)
             \/ WriteHeld(c) \/ SimulateBalance(c) \/ ReadInstance(c) \/ CloseLedgers(c)
             \/ GetEntries(c) \/ Page(c) \/ Latest(c) \/ Abandon(c)
             \/ \E r \in Requests : Call(c, r)
      PROVE  InstanceRunnable'
  <2>1. UNCHANGED <<instance, codes>>
    BY <1>7 DEF SendLatest, SendPage, GetTransaction, ReadHeld, WriteHeld, SimulateBalance,
       ReadInstance, CloseLedgers, GetEntries, Page, Latest, Abandon, Call, GetHeld, SetHeld,
       Warp, ledger, entries
  <2> QED BY <1>2, <2>1
<1>8. ASSUME NEW c \in Clients, Send(c) \/ Adjust(c) PROVE InstanceRunnable'
  BY <1>3, <1>8 DEF Send, Adjust
<1> QED BY <1>1, <1>4, <1>5, <1>6, <1>7, <1>8, Zenon DEF Next, Command

-------------------------------------------------------------------------------
(* The theorems.                                                           *)

\* The state is always well typed: balances, sequence numbers, ledger and time
\* never leave the ranges of the code's integers.
THEOREM SpecTypeOK == Spec => []TypeOK
BY InitInv, NextInv, DueInit, DueNext, TypeOKInv, PTL DEF Spec

\* Every answer names a ledger and a time that were current while its request
\* was being served.
THEOREM SpecAnswersCurrent == Spec => []AnswersCurrent
<1>1. Inv => AnswersCurrent
  BY DEF Inv, ClientInv, AnswersCurrent
<1> QED BY <1>1, InitInv, NextInv, PTL DEF Spec

\* No answer shows a transaction in a ledger after the one it calls the latest.
THEOREM SpecReceiptsNotFromFuture == Spec => []ReceiptsNotFromFuture
<1>1. Inv => ReceiptsNotFromFuture
  BY DEF Inv, ClientInv, ReceiptsNotFromFuture
<1> QED BY <1>1, InitInv, NextInv, PTL DEF Spec

\* The reported ledger and time never go back.
THEOREM SpecClockNeverBack == Spec => ClockNeverBack
<1>1. Inv /\ [Next]_vars => [sequence' >= sequence /\ closeTime' >= closeTime]_vars
  BY NextClock
<1> QED BY <1>1, InitInv, NextInv, PTL DEF Spec, ClockNeverBack

\* Whatever the others do, the request of every client is one step with its own
\* effect between its arrival and its answer, or an error and no effect.
THEOREM SpecImplementsApi == Spec => ImplementsApi
BY InitInv, NextInv, ApiInvInit, ApiInvNext, ApiInit, ApiNext, PTL
DEF Spec, ImplementsApi, Api!Spec

\* As long as no client writes the instance itself, it never runs code that is
\* not installed, wherever an etch is interrupted or overtaken.
THEOREM SpecInstanceRunnable ==
    ASSUME RawInstances \cap Instance = {}
    PROVE  Spec => []InstanceRunnable
<1>1. Init => InstanceRunnable
  <2> SUFFICES ASSUME Init, instance \in Instance PROVE instance.wasm \in codes
    BY DEF InstanceRunnable
  <2>1. instance \in [wasm : codes, storage : Values, live : Lives]
    BY MarkerAssumption DEF Init, InitLedger
  <2> QED BY <2>1
<1>2. Inv /\ InstanceRunnable /\ [Next]_vars => InstanceRunnable'
  BY RunnableKept
<1> QED BY <1>1, <1>2, InitInv, NextInv, PTL DEF Spec

\* No fork_setBalance takes back a number that a transaction of its account took
\* in between, unless it was raced: the number is the one last given, and one
\* more for each transaction since.
THEOREM SpecNumbersCount == Spec => []NumbersCount
<1>1. DueInv => NumbersCount
  BY DEF DueInv, NumbersCount
<1> QED BY <1>1, InitInv, NextInv, DueInit, DueNext, PTL DEF Spec

===============================================================================
