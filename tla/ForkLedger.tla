------------------------------ MODULE ForkLedger ------------------------------
(***************************************************************************)
(* What the environment owned by the worker holds, and what the worker's   *)
(* commands do to it (src/server/actor.rs, src/lib.rs, src/source.rs).     *)
(* Each command is one atomic step: the worker executes one at a time.     *)
(*                                                                         *)
(* The ledger is reduced to the entries that the methods of the server     *)
(* read and write again: account and trustline balances, the balances a    *)
(* token contract keeps, one contract's instance, and the uploaded code.   *)
(***************************************************************************)
EXTENDS Integers

CONSTANTS
    Accounts,      \* the accounts of the instance
    Assets,        \* kinds of classic balance: a subset of {"native", "credit"}
    Wasms,         \* contract codes, standing for their own hashes
    Values,        \* contents of the contract's instance storage
    Empty,         \* the one a synthesised instance starts with
    Lives,         \* live-until ledgers, NoTtl for none
    NoTtl,
    Transactions,  \* envelopes clients may send; each one names its hash
    Absent,        \* no ledger entry under the key
    Foreign,       \* an entry of a kind that does not belong under its key
    NoReceipt,
    MaxBalance,    \* greatest balance (i64 or i128 in the code)
    MaxLedger,     \* u32::MAX
    MaxTime,       \* u64::MAX
    SeqMin,        \* i64::MIN and
    SeqMax,        \* i64::MAX, the range of account sequence numbers
    SeqUnit,       \* 2^32: sequence numbers an account has per ledger
    TestAccounts,  \* accounts minted when the fork was built
    RawRests,      \* rest of the balances clients write with setLedgerEntry
    RawInstances,  \* and the instances
    Closes,        \* numbers of ledgers they close at once
    Delays,        \* and by how many seconds
    LedgerInterval, \* seconds of a ledger when a client names none: 5
    ZeroAccount,   \* source of the transactions the server makes up itself
    Methods        \* the methods that clients call

\* A call of the token contract, or one that stores value in the contract's
\* instance storage.
TokenCalls == [fn : {"mint", "burn"}, to : Accounts, amount : 1 .. MaxBalance]
Calls      == TokenCalls \cup [fn : {"put"}, value : Values]

ASSUME AssetsAssumption == Assets \subseteq {"native", "credit"}
ASSUME BoundsAssumption ==
    /\ MaxBalance \in Nat /\ MaxLedger \in Nat \ {0} /\ MaxTime \in Nat
    /\ SeqMin \in Int /\ SeqMax \in Nat /\ SeqMin <= 0 /\ SeqUnit \in Nat
    /\ LedgerInterval \in Nat
Balances  == 0 .. MaxBalance
Sequences == SeqMin .. SeqMax

\* AccountEntry and TrustLineEntry: rest stands for what a balance update must
\* keep, the sequence number of the one and the limit of the other.
Holding  == [balance : Balances, rest : Sequences]
HeldKeys == Accounts \X Assets
Native(a) == <<a, "native">>
Held     == Holding \cup {Absent, Foreign}

Instance  == [wasm : Wasms, storage : Values, live : Lives]
Instances == Instance \cup {Absent, Foreign}

Receipt == [ok : BOOLEAN, ledger : 0 .. MaxLedger]

\* Nothing in an envelope but its contents goes into its hash, so the same
\* contents sent again have the same hash.
Hashes == Transactions \cup [source : {ZeroAccount}, call : TokenCalls]

\* What a client passes to each method.  fork_setLedgerEntry is split by the
\* kind of its key; fork_setStorage is its setToken and setInstance.  Absent
\* stands for an optional parameter that is left out.
Arguments ==
    [ sendTransaction |-> [tx : Transactions],
      getTransaction  |-> [tx : Transactions],
      setBalance      |-> [key : HeldKeys, amount : Balances],
      setTokenBalance |-> [account : Accounts, amount : Balances],
      setHeld         |-> [key : HeldKeys,
                           entry : [balance : Balances, rest : RawRests] \cup {Foreign}],
      setToken        |-> [account : Accounts, amount : Balances],
      setInstance     |-> [entry : RawInstances],
      setCode         |-> [wasm : Wasms],
      etch            |-> [wasm : Wasms, live : Lives],
      closeLedgers    |-> [ledgers : Closes \cup {Absent},
                           seconds : Delays \cup {Absent}],
      getLedgerEntries |-> [key : HeldKeys],
      getLedgers      |-> [page : {Absent}] ]

Requests == UNION {[method : {m}, args : Arguments[m]] : m \in Methods}

ASSUME MembersAssumption ==
    /\ Empty \in Values
    /\ NoTtl \in Lives
    /\ TestAccounts \subseteq Accounts
    /\ Transactions \subseteq [source : Accounts, call : Calls]
    /\ Methods \subseteq DOMAIN Arguments
    /\ RawRests \subseteq Sequences
    /\ RawInstances \subseteq Instance \cup {Foreign}
    /\ Closes \subseteq 0 .. MaxLedger /\ Delays \subseteq 0 .. MaxTime

VARIABLES
    held,       \* what is under the key of each classic balance
    known,      \* which of these keys the snapshot source has in its cache
    token,      \* balances kept by the token contract
    codes,      \* installed contract codes
    instance,   \* the contract's instance entry
    receipts,   \* the worker's receipts, by transaction hash
    sequence,   \* ledger sequence the environment reports
    closeTime   \* timestamp the environment reports

entries == <<held, known, token, codes, instance>>
ledger  == <<entries, receipts, sequence, closeTime>>

InitLedger ==
    /\ held \in [HeldKeys -> {Absent} \cup [balance : {0}, rest : {0}]]
    /\ \A a \in TestAccounts, s \in Assets : held[<<a, s>>] # Absent
    /\ known = {k \in HeldKeys : k[1] \in TestAccounts}
    /\ token = [a \in Accounts |-> 0]
    /\ codes \in {{}} \cup {{w} : w \in Wasms}
    /\ instance \in {Absent} \cup [wasm : codes, storage : Values, live : Lives]
    /\ receipts = [x \in Hashes |-> NoReceipt]
    /\ sequence = 1
    /\ closeTime = 0

-------------------------------------------------------------------------------
(* Arithmetic of the code's integers.                                      *)

\* An i64 holds n modulo the width of its range: wrapping_add, and <<.
Wrap(n) == ((n - SeqMin) % (SeqMax - SeqMin + 1)) + SeqMin

SaturatingAdd(n, d, max) == IF n + d > max THEN max ELSE n + d

-------------------------------------------------------------------------------
(* Commands.                                                               *)

\* GetLedgerEntries of one classic key: a miss brings it into the cache.
GetHeld(k) ==
    /\ known' = known \cup {k}
    /\ UNCHANGED <<held, token, codes, instance, receipts, sequence, closeTime>>

\* SetLedgerEntry, by the kind of its key.
SetHeld(k, v) ==
    /\ held' = [held EXCEPT ![k] = v]
    /\ known' = known \cup {k}
    /\ UNCHANGED <<token, codes, instance, receipts, sequence, closeTime>>

SetToken(a, n) ==
    /\ token' = [token EXCEPT ![a] = n]
    /\ UNCHANGED <<held, known, codes, instance, receipts, sequence, closeTime>>

SetCode(w) ==
    /\ codes' = codes \cup {w}
    /\ UNCHANGED <<held, known, token, instance, receipts, sequence, closeTime>>

SetInstance(v) ==
    /\ instance' = v
    /\ UNCHANGED <<held, known, token, codes, receipts, sequence, closeTime>>

\* What the host needs for a call to succeed; it may refuse it all the same
\* (budget, authorisation inside the contract).
Executable(f) ==
    \/ f.fn = "mint" /\ token[f.to] + f.amount <= MaxBalance
    \/ f.fn = "burn" /\ token[f.to] >= f.amount
    \/ f.fn = "put" /\ instance \in Instance /\ instance.wasm \in codes

\* apply_changes of a successful call.
Apply(f) ==
    /\ token' = CASE f.fn = "mint" -> [token EXCEPT ![f.to] = @ + f.amount]
                  [] f.fn = "burn" -> [token EXCEPT ![f.to] = @ - f.amount]
                  [] OTHER -> token
    /\ instance' = IF f.fn = "put" THEN [instance EXCEPT !.storage = f.value]
                                   ELSE instance

\* Fault: a plain addition.
BumpSeq_NoWrap(a) ==
    held' = IF Native(a) \in known /\ held[Native(a)] \in Holding
            THEN [held EXCEPT ![Native(a)].rest = @ + 1]
            ELSE held

\* bump_account_seq: nothing happens unless the cache holds an account.
BumpSeq(a) ==
    held' = IF Native(a) \in known /\ held[Native(a)] \in Holding
            THEN [held EXCEPT ![Native(a)].rest = Wrap(@ + 1)]
            ELSE held

\* SendTransaction with outcome ok.  The receipt is stored in either case, over
\* that of an earlier transaction with the same hash; the ledger does not move.
SendTransaction(x, ok) ==
    /\ ok => Executable(x.call)
    /\ IF ok THEN Apply(x.call) /\ BumpSeq(x.source)
             ELSE UNCHANGED <<token, instance, held>>
    /\ receipts' = [receipts EXCEPT ![x] = [ok |-> ok, ledger |-> sequence]]
    /\ UNCHANGED <<known, codes, sequence, closeTime>>

\* Fault: warp with the additions of the type's width.
Warp_Wraps(ledgers, seconds) ==
    /\ sequence' = (sequence + ledgers) % (MaxLedger + 1)
    /\ closeTime' = (closeTime + seconds) % (MaxTime + 1)
    /\ UNCHANGED <<entries, receipts>>

\* The environment's warp, which CloseLedgers calls.
Warp(ledgers, seconds) ==
    /\ sequence' = SaturatingAdd(sequence, ledgers, MaxLedger)
    /\ closeTime' = SaturatingAdd(closeTime, seconds, MaxTime)
    /\ UNCHANGED <<entries, receipts>>

===============================================================================
