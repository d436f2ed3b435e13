---------------------------- MODULE RpcClientProofs ----------------------------
(***************************************************************************)
(* Theorems about RpcClient, for any keys and chunk size, any number of    *)
(* retries, and any network.                                               *)
(*                                                                         *)
(* Two counts carry them.  The keys answered so far are a prefix of the    *)
(* keys asked for, and what was found is what the network had under them   *)
(* when their chunk was answered (Answered).  The attempts of a post that  *)
(* reached the network are those that failed, plus the one that ended the  *)
(* call (Counted).                                                         *)
(***************************************************************************)
EXTENDS RpcClient, SequenceTheorems, TLAPS

LEMMA ModBound == \A n \in Int, m \in Nat \ {0} : n % m \in 0 .. m - 1
OBVIOUS

LEMMA ModSmall == \A n \in Nat, m \in Nat \ {0} : n < m => n % m = n
OBVIOUS

\* No post has more attempts than the u32 counts, and it has one more than its
\* retries as long as that number is a u32.
LEMMA TotalFacts ==
    ASSUME retries \in Retries
    PROVE  /\ TotalAttempts \in 0 .. MaxAttempts
           /\ retries < MaxAttempts => TotalAttempts = retries + 1
<1> DEFINE n == retries + 1
           m == MaxAttempts + 1
<1>1. n \in Nat /\ n \in Int /\ m \in Nat \ {0} /\ (retries < MaxAttempts => n < m)
  BY ConfigAssumption
<1>2. TotalAttempts = n % m /\ m - 1 = MaxAttempts
  BY ConfigAssumption DEF TotalAttempts
<1>3. n = retries + 1
  OBVIOUS
<1> HIDE DEF n, m
<1>4. n % m \in 0 .. m - 1
  BY <1>1, ModBound
<1>5. retries < MaxAttempts => n % m = n
  BY <1>1, ModSmall
<1>6. TotalAttempts \in 0 .. MaxAttempts
  BY <1>2, <1>4
<1>7. retries < MaxAttempts => TotalAttempts = retries + 1
  BY <1>2, <1>3, <1>5
<1> QED BY <1>6, <1>7

LEMMA PowerFacts == \A n \in Nat : Saturated(2 ^ n) \in Nat
BY ConfigAssumption DEF Saturated

LEMMA ProductFacts == \A a, b \in Nat : a * b \in Nat
OBVIOUS

LEMMA BackoffFacts == \A n \in Nat : BackoffDelays(n) \subseteq 0 .. MaxDelay
<1> SUFFICES ASSUME NEW n \in Nat, NEW jitter \in Nat
             PROVE  Min(Base * Saturated(2 ^ n) + jitter, MaxDelay) \in 0 .. MaxDelay
  BY ConfigAssumption DEF BackoffDelays
<1>1. Base * Saturated(2 ^ n) \in Nat
  BY PowerFacts, ProductFacts, ConfigAssumption
<1> QED BY <1>1, ConfigAssumption DEF Min

-------------------------------------------------------------------------------
(* The invariant.                                                          *)

\* Of the keys ks, all but the last ts are answered: fs is what they were served.
Prefix(ks, ts, fs, had) ==
    LET n == Len(ks) - Len(ts)
    IN  /\ Len(ts) <= Len(ks)
        /\ \A i \in 1 .. Len(ts) : ts[i] = ks[n + i]
        /\ \A i \in 1 .. n : had[ks[i]] # NoLedger
        /\ fs = {[key |-> ks[i], modified |-> had[ks[i]]] :
                   i \in {i \in 1 .. n : had[ks[i]] # Absent}}

Answered ==
    /\ \A i, j \in 1 .. Len(keys) : keys[i] = keys[j] => i = j
    /\ Prefix(keys, todo, found, served)
    /\ call = "entries" /\ outcome = "ok" => todo = <<>>
    /\ call = "none" => keys = <<>> /\ found = {}

Counted ==
    /\ attempt = 0 \/ attempt < TotalAttempts
    /\ asleep => outcome = "running"
    /\ outcome = "running" => asked = attempt
    /\ outcome = "transient" => asked = TotalAttempts
    /\ call = "none" => asked = 0 /\ attempt = 0 /\ outcome = "ok"

\* The ledger of the first post is not ahead of the network, so if the RPC does not
\* describe it, it has fallen out of the window.
Dated ==
    /\ latest # NoLedger => latest <= ledger
    /\ call = "latest" /\ outcome = "ok" => latest # NoLedger
    /\ CloseTimeOfLatest

Inv == TypeOK /\ Answered /\ Counted /\ Dated

LEMMA InitInv == Init => Inv
<1> SUFFICES ASSUME Init PROVE Inv
  OBVIOUS
<1>1. TypeOK
  <2>1. asked \in 0 .. TotalAttempts
    BY TotalFacts DEF Init
  <2>2. upstream \in [Keys -> {Absent} \cup 1 .. MaxLedger]
    BY ConfigAssumption DEF Init
  <2>3. keys \in Seq(Keys) /\ todo \in Seq(Keys)
    BY DEF Init
  <2>4. served \in [Keys -> {NoLedger, Absent} \cup 1 .. MaxLedger]
    BY DEF Init
  <2>5. ledger \in 1 .. MaxLedger /\ attempt \in 0 .. MaxAttempts /\ delay \in 0 .. MaxDelay
    BY ConfigAssumption DEF Init
  <2> QED BY <2>1, <2>2, <2>3, <2>4, <2>5 DEF Init, TypeOK
<1>2. Answered
  <2>1. keys = <<>> /\ todo = <<>> /\ found = {}
    BY DEF Init
  <2>2. Prefix(keys, todo, found, served)
    BY <2>1 DEF Prefix
  <2> QED BY <2>1, <2>2 DEF Answered
<1>3. Counted
  BY DEF Init, Counted
<1>4. Dated
  BY DEF Init, Dated, CloseTimeOfLatest
<1> QED BY <1>1, <1>2, <1>3, <1>4 DEF Inv

\* A step that leaves call, keys and results alone disturbs the counts only.
LEMMA LoopStep ==
    ASSUME Inv, call # "none",
           UNCHANGED <<retries, network, call, keys, todo, results, served>>,
           outcome' \in {"running", "rpc error", "fatal", "transient"},
           attempt' \in 0 .. MaxAttempts, asleep' \in BOOLEAN, delay' \in 0 .. MaxDelay,
           asked' \in 0 .. TotalAttempts, Counted'
    PROVE  Inv'
<1>1. TypeOK'
  BY DEF Inv, TypeOK, results, network, TotalAttempts
<1>2. Answered'
  <2>1. keys' = keys /\ todo' = todo /\ found' = found /\ served' = served
    BY DEF results
  <2>2. Prefix(keys, todo, found, served)'
    BY <2>1 DEF Inv, Answered
  <2> QED BY <2>1, <2>2 DEF Inv, Answered
<1>3. Dated'
  BY DEF Inv, Dated, CloseTimeOfLatest, results, network
<1> QED BY <1>1, <1>2, <1>3 DEF Inv


LEMMA FailureInv == ASSUME Inv, TransientFailure PROVE Inv'
<1>1. outcome = "running" /\ attempt < TotalAttempts /\ asked = attempt /\ call # "none"
  BY DEF TransientFailure, Trying, Inv, Counted, TypeOK
<1>2. TotalAttempts \in 0 .. MaxAttempts /\ attempt \in Nat
  <2>1. retries \in Retries /\ attempt \in 0 .. MaxAttempts
    BY DEF Inv, TypeOK
  <2> QED BY <2>1, TotalFacts, ConfigAssumption
<1>3. asked' \in 0 .. TotalAttempts
  BY <1>1, <1>2 DEF TransientFailure
<1>4. BackoffDelays(attempt) \subseteq 0 .. MaxDelay
  BY <1>2, BackoffFacts
<1>5. TotalAttempts' = TotalAttempts
  BY DEF TransientFailure, TotalAttempts
<1>6. CASE attempt + 1 < TotalAttempts
  <2>1. /\ attempt' = attempt + 1 /\ asleep' = TRUE /\ delay' \in 0 .. MaxDelay
        /\ outcome' = outcome /\ asked' = asked + 1
    BY <1>4, <1>6 DEF TransientFailure
  <2>2. Counted'
    BY <1>1, <1>2, <1>5, <1>6, <2>1 DEF Counted, TransientFailure
  <2>3. attempt' \in 0 .. MaxAttempts
    BY <1>2, <1>6, <2>1, ConfigAssumption
  <2> QED BY <1>1, <1>3, <2>1, <2>2, <2>3, LoopStep DEF TransientFailure
<1>7. CASE ~ (attempt + 1 < TotalAttempts)
  <2>1. outcome' = "transient" /\ UNCHANGED loop /\ asked' = asked + 1
    BY <1>7 DEF TransientFailure
  <2>2. attempt' = attempt /\ asleep' = asleep /\ asked' = TotalAttempts /\ ~asleep /\ call' = call
    BY <1>1, <1>2, <1>7, <2>1 DEF loop, TransientFailure, Trying
  <2>3. Counted'
    BY <1>1, <1>5, <2>1, <2>2 DEF Counted
  <2> QED BY <1>1, <1>3, <2>1, <2>3, LoopStep DEF TransientFailure, loop, Inv, TypeOK
<1> QED BY <1>6, <1>7

\* A post has been answered: the next one starts with fresh counters.
LEMMA FreshCounts ==
    ASSUME FreshPost, UNCHANGED <<retries, call>>, call # "none",
           outcome' \in {"running", "ok"}
    PROVE  Counted'
BY DEF FreshPost, Counted

LEMMA FreshTypes ==
    ASSUME FreshPost, retries \in Retries, retries' = retries
    PROVE  /\ attempt' \in 0 .. MaxAttempts /\ delay' \in 0 .. MaxDelay
           /\ asleep' \in BOOLEAN
           /\ asked' \in 0 .. TotalAttempts'
<1>1. attempt' \in 0 .. MaxAttempts /\ delay' \in 0 .. MaxDelay
  BY ConfigAssumption DEF FreshPost
<1>2. asleep' \in BOOLEAN
  BY Zenon DEF FreshPost
<1>3. asked' = 0 /\ TotalAttempts' = TotalAttempts
  BY DEF FreshPost, TotalAttempts
<1>4. TotalAttempts \in 0 .. MaxAttempts
  BY TotalFacts
<1>5. asked' \in 0 .. TotalAttempts'
  BY <1>3, <1>4, ConfigAssumption
<1> QED BY <1>1, <1>2, <1>5

LEMMA FetchEntriesInv == ASSUME Inv, NEW ks \in KeyLists, FetchEntries(ks) PROVE Inv'
<1>1. ks \in Seq(Keys) /\ \A i, j \in 1 .. Len(ks) : ks[i] = ks[j] => i = j
  BY DEF KeyLists
<1>2. TypeOK'
  BY <1>1 DEF Inv, TypeOK, FetchEntries, network, results, loop, TotalAttempts
<1>3. found = {}
  BY DEF Inv, Answered, FetchEntries
<1>4. Prefix(ks, ks, {}, served')
  BY <1>1 DEF Prefix
<1>5. Answered'
  BY <1>1, <1>3, <1>4 DEF Answered, FetchEntries, results
<1>6. Counted'
  BY DEF Inv, Counted, FetchEntries, loop, TotalAttempts
<1>7. Dated'
  BY DEF Inv, Dated, CloseTimeOfLatest, FetchEntries, network, results
<1> QED BY <1>2, <1>5, <1>6, <1>7 DEF Inv

LEMMA GetLatestLedgerInv == ASSUME Inv, GetLatestLedger PROVE Inv'
<1>1. TypeOK'
  BY DEF Inv, TypeOK, GetLatestLedger, network, results, loop, TotalAttempts
<1>2. Answered'
  <2>1. Prefix(keys, todo, found, served)'
    BY DEF Inv, Answered, GetLatestLedger, results
  <2> QED BY <2>1 DEF Inv, Answered, GetLatestLedger, results
<1>3. Counted'
  BY DEF Inv, Counted, GetLatestLedger, loop, TotalAttempts
<1>4. Dated'
  BY DEF Inv, Dated, CloseTimeOfLatest, GetLatestLedger, network, results
<1> QED BY <1>1, <1>2, <1>3, <1>4 DEF Inv

LEMMA NetworkClosesInv == ASSUME Inv, NetworkCloses PROVE Inv'
<1>1. ledger' \in 1 .. MaxLedger
  <2>1. ledger \in 1 .. MaxLedger /\ ledger < MaxLedger /\ ledger' = ledger + 1
    BY DEF Inv, TypeOK, NetworkCloses
  <2> QED BY <2>1, ConfigAssumption
<1>2. upstream' \in [Keys -> {Absent} \cup 1 .. MaxLedger]
  <2>1. PICK touched \in SUBSET Keys, v \in {Absent, ledger + 1} :
          upstream' = [k \in Keys |-> IF k \in touched THEN v ELSE upstream[k]]
    BY DEF NetworkCloses
  <2>2. v \in {Absent} \cup 1 .. MaxLedger
    BY <1>1 DEF NetworkCloses
  <2> QED BY <2>1, <2>2 DEF Inv, TypeOK
<1>3. TypeOK'
  BY <1>1, <1>2 DEF Inv, TypeOK, NetworkCloses, results, loop, TotalAttempts
<1>4. Answered'
  <2>1. Prefix(keys, todo, found, served)'
    BY DEF Inv, Answered, NetworkCloses, results
  <2> QED BY <2>1 DEF Inv, Answered, NetworkCloses, results
<1>5. Counted'
  BY DEF Inv, Counted, NetworkCloses, loop, TotalAttempts
<1>6. Dated'
  <2>0. ledger \in 1 .. MaxLedger /\ latest \in {NoLedger} \cup 1 .. MaxLedger
    BY DEF Inv, TypeOK
  <2>1. /\ ledger \in Nat /\ ledger' = ledger + 1
        /\ latest' = latest /\ closed' = closed /\ outcome' = outcome /\ call' = call
    BY <2>0, ConfigAssumption DEF NetworkCloses, results
  <2>2. latest # NoLedger => latest \in Nat
    BY <2>0, ConfigAssumption
  <2>3. latest <= ledger - Retention /\ latest \in Nat => latest <= ledger' - Retention
    BY <2>1, ConfigAssumption
  <2>4. latest <= ledger /\ latest \in Nat => latest <= ledger'
    BY <2>1
  <2>5. call = "latest" /\ outcome = "ok" /\ closed # latest => latest # NoLedger
    BY DEF Inv, Dated
  <2> QED BY <2>1, <2>2, <2>3, <2>4, <2>5 DEF Inv, Dated, CloseTimeOfLatest
<1> QED BY <1>3, <1>4, <1>5, <1>6 DEF Inv

\* The rest of the keys, and those of the chunk, at their places among the keys.
LEMMA ChunkFacts ==
    ASSUME todo \in Seq(Keys)
    PROVE  \E m \in 0 .. Len(todo) :
             /\ Chunk = {todo[i] : i \in 1 .. m}
             /\ AfterChunk \in Seq(Keys)
             /\ Len(AfterChunk) = Len(todo) - m
             /\ \A i \in 1 .. Len(todo) - m : AfterChunk[i] = todo[m + i]
<1> DEFINE m == Min(MaxKeys, Len(todo))
<1>1. m \in 0 .. Len(todo)
  BY ConfigAssumption DEF Min
<1>2. AfterChunk = SubSeq(todo, m + 1, Len(todo)) /\ Chunk = {todo[i] : i \in 1 .. m}
  BY DEF AfterChunk, Chunk
<1> HIDE DEF m
<1>3. \A i \in m + 1 .. Len(todo) : todo[i] \in Keys
  BY <1>1
<1>4. /\ AfterChunk \in Seq(Keys)
      /\ Len(AfterChunk) = IF m + 1 <= Len(todo) THEN Len(todo) - (m + 1) + 1 ELSE 0
      /\ \A i \in 1 .. Len(todo) - (m + 1) + 1 : AfterChunk[i] = todo[m + 1 + i - 1]
  BY <1>1, <1>2, <1>3, SubSeqProperties
<1>5. Len(AfterChunk) = Len(todo) - m
  BY <1>1, <1>4
<1>6. \A i \in 1 .. Len(todo) - m : AfterChunk[i] = todo[m + i]
  BY <1>1, <1>4
<1> QED BY <1>1, <1>2, <1>4, <1>5, <1>6

\* The first m keys of ts are answered with more, which leaves us: up is what the
\* network has, had and had2 what was served before and after.
Grown(ks, ts, had, m, us, more, up, had2) ==
    /\ m \in 0 .. Len(ts) /\ Len(ks) \in Nat /\ Len(ts) \in Nat
    /\ Len(us) = Len(ts) - m
    /\ \A i \in 1 .. Len(ts) - m : us[i] = ts[m + i]
    /\ \A i \in 1 .. m : had2[ts[i]] = up[ts[i]] /\ up[ts[i]] # NoLedger
    /\ \A i \in 1 .. Len(ks) - Len(ts) : had2[ks[i]] = had[ks[i]]
    /\ \A e : e \in more <=> \E i \in 1 .. m :
                up[ts[i]] # Absent /\ e = [key |-> ts[i], modified |-> up[ts[i]]]

\* The rest stays the rest, and what is found grows by the answer.
LEMMA PrefixGrows ==
    ASSUME NEW ks, NEW ts, NEW fs, NEW had, NEW m, NEW us, NEW more, NEW up, NEW had2,
           Prefix(ks, ts, fs, had), Grown(ks, ts, had, m, us, more, up, had2)
    PROVE  Prefix(ks, us, fs \cup more, had2)
<1>0. /\ m \in 0 .. Len(ts) /\ Len(ks) \in Nat /\ Len(ts) \in Nat
      /\ Len(us) = Len(ts) - m
      /\ \A i \in 1 .. Len(ts) - m : us[i] = ts[m + i]
      /\ \A i \in 1 .. m : had2[ts[i]] = up[ts[i]] /\ up[ts[i]] # NoLedger
      /\ \A i \in 1 .. Len(ks) - Len(ts) : had2[ks[i]] = had[ks[i]]
      /\ \A e : e \in more <=> \E i \in 1 .. m :
                up[ts[i]] # Absent /\ e = [key |-> ts[i], modified |-> up[ts[i]]]
  BY DEF Grown
<1> USE <1>0
<1> DEFINE n == Len(ks) - Len(ts)
           q == Len(ks) - Len(us)
           all == {[key |-> ks[i], modified |-> had2[ks[i]]] :
                     i \in {i \in 1 .. q : had2[ks[i]] # Absent}}
<1>1. /\ n \in Nat /\ m \in Nat /\ q = n + m
      /\ n + m <= Len(ks) /\ Len(us) = Len(ks) - q /\ m <= Len(ts)
  BY DEF Prefix
<1>2. \A i \in 1 .. Len(ts) : ts[i] = ks[n + i]
  BY DEF Prefix
<1>3. \A i \in 1 .. Len(us) : us[i] = ks[q + i]
  <2> SUFFICES ASSUME NEW i \in 1 .. Len(us) PROVE us[i] = ks[q + i]
    OBVIOUS
  <2>1. us[i] = ts[m + i] /\ m + i \in 1 .. Len(ts)
    BY <1>1
  <2>2. ts[m + i] = ks[n + (m + i)]
    BY <1>2, <2>1
  <2>3. n + (m + i) = q + i
    BY <1>1
  <2> QED BY <2>1, <2>2, <2>3
<1>4. \A i \in 1 .. n : had[ks[i]] # NoLedger
  BY DEF Prefix
<1>5. fs = {[key |-> ks[i], modified |-> had[ks[i]]] : i \in {i \in 1 .. n : had[ks[i]] # Absent}}
  BY DEF Prefix
<1>6. \A i \in 1 .. q :
        \/ i \in 1 .. n
        \/ i - n \in 1 .. m /\ ks[i] = ts[i - n]
  <2> SUFFICES ASSUME NEW i \in 1 .. q, i \notin 1 .. n
               PROVE  i - n \in 1 .. m /\ ks[i] = ts[i - n]
    OBVIOUS
  <2>1. i - n \in 1 .. m /\ i - n \in 1 .. Len(ts) /\ n + (i - n) = i
    BY <1>1
  <2> QED BY <1>2, <2>1
<1>7. \A i \in 1 .. m : n + i \in 1 .. q /\ ts[i] = ks[n + i]
  BY <1>1, <1>2
<1>8. \A i \in 1 .. n : i \in 1 .. q
  BY <1>1
<1> HIDE DEF n, q
<1>9. \A i \in 1 .. n : had2[ks[i]] = had[ks[i]]
  BY DEF n
<1>10. \A i \in 1 .. q : had2[ks[i]] # NoLedger
  <2> SUFFICES ASSUME NEW i \in 1 .. q PROVE had2[ks[i]] # NoLedger
    OBVIOUS
  <2>1. CASE i \in 1 .. n
    BY <1>4, <1>9, <2>1
  <2>2. CASE i - n \in 1 .. m /\ ks[i] = ts[i - n]
    BY <2>2
  <2> QED BY <1>6, <2>1, <2>2
<1>11. fs \cup more = all
  <2>1. ASSUME NEW e \in fs
        PROVE  \E i \in 1 .. q :
                 had2[ks[i]] # Absent /\ e = [key |-> ks[i], modified |-> had2[ks[i]]]
    <3>1. PICK i \in 1 .. n : had[ks[i]] # Absent /\ e = [key |-> ks[i], modified |-> had[ks[i]]]
      BY <1>5
    <3>2. i \in 1 .. q /\ had2[ks[i]] = had[ks[i]]
      BY <1>8, <1>9
    <3> QED BY <3>1, <3>2
  <2>2. ASSUME NEW e \in more
        PROVE  \E i \in 1 .. q :
                 had2[ks[i]] # Absent /\ e = [key |-> ks[i], modified |-> had2[ks[i]]]
    <3>1. PICK i \in 1 .. m : up[ts[i]] # Absent /\ e = [key |-> ts[i], modified |-> up[ts[i]]]
      OBVIOUS
    <3>2. n + i \in 1 .. q /\ ts[i] = ks[n + i] /\ had2[ts[i]] = up[ts[i]]
      BY <1>7
    <3> QED BY <3>1, <3>2
  <2>3. ASSUME NEW i \in 1 .. q, had2[ks[i]] # Absent
        PROVE  [key |-> ks[i], modified |-> had2[ks[i]]] \in fs \cup more
    <3>1. CASE i \in 1 .. n
      BY <1>5, <1>9, <2>3, <3>1
    <3>2. CASE i - n \in 1 .. m /\ ks[i] = ts[i - n]
      <4>1. had2[ks[i]] = up[ts[i - n]] /\ up[ts[i - n]] # Absent
        BY <2>3, <3>2
      <4> QED BY <3>2, <4>1
    <3> QED BY <1>6, <3>1, <3>2
  <2>4. \A e : e \in all <=> \E i \in 1 .. q :
                 had2[ks[i]] # Absent /\ e = [key |-> ks[i], modified |-> had2[ks[i]]]
    OBVIOUS
  <2> HIDE DEF all
  <2> QED BY <2>1, <2>2, <2>3, <2>4
<1>12. Prefix(ks, us, fs \cup more, had2)
  BY <1>1, <1>3, <1>10, <1>11 DEF Prefix, q, all
<1> QED BY <1>12

LEMMA EntriesAnsweredInv == ASSUME Inv, EntriesAnswered PROVE Inv'
<1>0. todo \in Seq(Keys) /\ keys \in Seq(Keys) /\ found \subseteq [key : Keys, modified : 1 .. MaxLedger]
  BY DEF Inv, TypeOK
<1>1. PICK m \in 0 .. Len(todo) :
        /\ Chunk = {todo[i] : i \in 1 .. m}
        /\ AfterChunk \in Seq(Keys)
        /\ Len(AfterChunk) = Len(todo) - m
        /\ \A i \in 1 .. Len(todo) - m : AfterChunk[i] = todo[m + i]
  BY <1>0, ChunkFacts
<1>2. Chunk \subseteq Keys
  BY <1>0, <1>1
<1>3. \A k \in Keys : upstream[k] \in {Absent} \cup 1 .. MaxLedger
  BY DEF Inv, TypeOK
<1>4. TypeOK'
  <2>1. found' \subseteq [key : Keys, modified : 1 .. MaxLedger]
    <3>1. Response(Chunk) \subseteq [key : Keys, modified : 1 .. MaxLedger]
      BY <1>2, <1>3 DEF Response
    <3> QED BY <1>0, <3>1 DEF EntriesAnswered
  <2>2. served' \in [Keys -> {NoLedger, Absent} \cup 1 .. MaxLedger]
    BY <1>3 DEF Inv, TypeOK, EntriesAnswered
  <2>3. /\ attempt' \in 0 .. MaxAttempts /\ delay' \in 0 .. MaxDelay
        /\ asleep' \in BOOLEAN
        /\ asked' \in 0 .. TotalAttempts'
    BY FreshTypes DEF Inv, TypeOK, EntriesAnswered
  <2>5. outcome' \in {"ok", "running"} /\ todo' \in Seq(Keys)
    BY <1>1 DEF EntriesAnswered
  <2> QED BY <2>1, <2>2, <2>3, <2>5 DEF Inv, TypeOK, EntriesAnswered, network
<1>5. Prefix(keys', todo', found', served')
  <2> DEFINE up == upstream
             had == served
             had2 == served'
  <2>1. /\ Len(keys) \in Nat /\ Len(todo) \in Nat
        /\ \A i, j \in 1 .. Len(keys) : keys[i] = keys[j] => i = j
        /\ Prefix(keys, todo, found, had)
    BY <1>0 DEF Inv, Answered
  <2>2. /\ \A k \in Chunk : had2[k] = up[k] /\ up[k] # NoLedger
        /\ \A k \in Keys \ Chunk : had2[k] = had[k]
    BY <1>2, <1>3, MarkerAssumption, ConfigAssumption DEF EntriesAnswered
  <2>3. \A i \in 1 .. m : had2[todo[i]] = up[todo[i]] /\ up[todo[i]] # NoLedger
    BY <1>1, <2>2
  <2>4. \A i \in 1 .. Len(keys) - Len(todo) : had2[keys[i]] = had[keys[i]]
    <3> SUFFICES ASSUME NEW i \in 1 .. Len(keys) - Len(todo) PROVE keys[i] \in Keys \ Chunk
      BY <2>2
    <3>1. i \in 1 .. Len(keys) /\ keys[i] \in Keys
      BY <1>0, <2>1 DEF Prefix
    <3>2. ASSUME NEW j \in 1 .. m PROVE todo[j] # keys[i]
      <4>1. /\ j \in 1 .. Len(todo)
            /\ Len(keys) - Len(todo) + j \in 1 .. Len(keys)
            /\ Len(keys) - Len(todo) + j # i
        BY <2>1 DEF Prefix
      <4>2. todo[j] = keys[Len(keys) - Len(todo) + j]
        BY <2>1, <4>1 DEF Prefix
      <4> QED BY <2>1, <3>1, <4>1, <4>2
    <3> QED BY <1>1, <3>1, <3>2
  <2> DEFINE more == Response(Chunk)
             us == AfterChunk
  <2>5. \A e : e \in more <=> \E i \in 1 .. m :
                 up[todo[i]] # Absent /\ e = [key |-> todo[i], modified |-> up[todo[i]]]
    BY <1>1 DEF Response
  <2>6. Len(us) = Len(todo) - m /\ \A i \in 1 .. Len(todo) - m : us[i] = todo[m + i]
    BY <1>1
  <2>7. found' = found \cup more /\ todo' = us /\ keys' = keys /\ served' = had2
    BY DEF EntriesAnswered
  <2> HIDE DEF up, had, had2, more, us
  <2>8. Grown(keys, todo, had, m, us, more, up, had2)
    BY <2>1, <2>3, <2>4, <2>5, <2>6 DEF Grown
  <2>9. Prefix(keys, us, found \cup more, had2)
    BY <2>1, <2>8, PrefixGrows
  <2> QED BY <2>7, <2>9
<1>6. Answered'
  <2>1. keys' = keys /\ call' = "entries"
    BY DEF EntriesAnswered, Trying
  <2>2. outcome' = "ok" => todo' = <<>>
    BY DEF EntriesAnswered
  <2> QED BY <1>5, <2>1, <2>2 DEF Inv, Answered
<1>7. Counted'
  BY FreshCounts DEF EntriesAnswered, Trying
<1>8. Dated'
  BY DEF Inv, Dated, CloseTimeOfLatest, EntriesAnswered, Trying, network
<1> QED BY <1>4, <1>6, <1>7, <1>8 DEF Inv

\* A post of get_latest_ledger has nothing to do with the keys.
LEMMA LatestStep ==
    ASSUME Inv, call = "latest", FreshPost,
           UNCHANGED <<retries, network, call, keys, todo, found, served>>,
           outcome' \in {"running", "ok"}, Dated',
           latest' \in {NoLedger} \cup 1 .. MaxLedger,
           closed' \in {NoLedger} \cup 1 .. MaxLedger
    PROVE  Inv'
<1>1. TypeOK'
  <2>1. /\ attempt' \in 0 .. MaxAttempts /\ delay' \in 0 .. MaxDelay
        /\ asleep' \in BOOLEAN
        /\ asked' \in 0 .. TotalAttempts'
    BY FreshTypes DEF Inv, TypeOK
  <2> QED BY <2>1 DEF Inv, TypeOK, network
<1>2. Answered'
  <2>1. Prefix(keys, todo, found, served)'
    BY DEF Inv, Answered
  <2> QED BY <2>1 DEF Inv, Answered
<1>3. Counted'
  BY FreshCounts
<1> QED BY <1>1, <1>2, <1>3 DEF Inv

LEMMA LatestAnsweredInv == ASSUME Inv, LatestAnswered PROVE Inv'
<1>1. latest' \in 1 .. MaxLedger /\ latest' <= ledger'
  <2>1. ledger \in 1 .. MaxLedger /\ ledger' = ledger /\ latest' = ledger
    BY DEF Inv, TypeOK, LatestAnswered, network
  <2> QED BY <2>1, ConfigAssumption
<1>2. outcome' = "running"
  BY DEF LatestAnswered, Trying
<1>3. Dated'
  BY <1>1, <1>2 DEF Dated, CloseTimeOfLatest
<1> QED BY <1>1, <1>3, LatestStep DEF LatestAnswered, Trying, Inv, TypeOK

\* The page is headed by the ledger asked for, or by a later one because that one
\* has left the window.
LEMMA HeadFacts ==
    ASSUME NEW n \in 1 .. MaxLedger, ledger \in 1 .. MaxLedger, n <= ledger,
           NEW head \in HeadOfPage(n), head # NoLedger
    PROVE  /\ head \in 1 .. MaxLedger
           /\ head = n \/ (n <= ledger - Retention /\ n < head)
<1>1. CASE n \in Described
  BY <1>1 DEF HeadOfPage
<1>2. CASE n \notin Described
  <2>1. head \in 1 .. ledger /\ head > ledger - Retention
    BY <1>2 DEF HeadOfPage, Described
  <2>2. n \in Nat /\ ledger \in Nat /\ MaxLedger \in Nat /\ Retention \in Nat /\ n >= 1
        /\ ledger <= MaxLedger
    BY ConfigAssumption
  <2>3. ~ (n > ledger - Retention)
    BY <1>2, <2>2 DEF Described
  <2> QED BY <2>1, <2>2, <2>3
<1> QED BY <1>1, <1>2

\* An attempt that ends the call with an error that is not retried.
EndsCall ==
    /\ Trying
    /\ outcome' \in {"rpc error", "fatal"}
    /\ asked' = asked + 1
    /\ UNCHANGED <<retries, network, call, keys, todo, results, loop, served>>

LEMMA EndingsInv == ASSUME Inv, EndsCall PROVE Inv'
<1>1. /\ outcome = "running" /\ ~asleep /\ attempt < TotalAttempts /\ asked' = attempt + 1
      /\ call # "none" /\ UNCHANGED loop /\ outcome' \in {"rpc error", "fatal"}
      /\ UNCHANGED <<retries, network, call, keys, todo, results, served>>
  BY DEF EndsCall, Trying, Inv, Counted
<1>2. retries \in Retries /\ attempt \in 0 .. MaxAttempts /\ asleep \in BOOLEAN
      /\ delay \in 0 .. MaxDelay
  BY DEF Inv, TypeOK
<1>3. TotalAttempts \in 0 .. MaxAttempts
  BY <1>2, TotalFacts
<1>4. asked' \in 0 .. TotalAttempts
  <2>1. attempt \in Nat /\ TotalAttempts \in Nat
    BY <1>2, <1>3, ConfigAssumption
  <2>2. attempt < TotalAttempts /\ asked' = attempt + 1
    BY <1>1
  <2> QED BY <2>1, <2>2
<1>5. Counted'
  <2>1. attempt' = attempt /\ asleep' = asleep /\ TotalAttempts' = TotalAttempts /\ call' = call
    BY <1>1 DEF loop, TotalAttempts
  <2> QED BY <1>1, <2>1 DEF Counted
<1> QED BY <1>1, <1>2, <1>4, <1>5, LoopStep DEF loop

LEMMA CloseTimeAnsweredInv == ASSUME Inv, CloseTimeAnswered PROVE Inv'
<1>1. PICK head \in HeadOfPage(latest) :
        IF head = NoLedger
        THEN outcome' = "rpc error" /\ asked' = asked + 1 /\ UNCHANGED <<closed, loop>>
        ELSE closed' = head /\ outcome' = "ok" /\ FreshPost
  BY DEF CloseTimeAnswered, AskedFor
<1>2. /\ Trying /\ call = "latest" /\ latest # NoLedger
      /\ UNCHANGED <<retries, network, call, keys, todo, found, latest, served>>
  BY DEF CloseTimeAnswered
<1>3. CASE head = NoLedger
  BY <1>1, <1>2, <1>3, EndingsInv DEF EndsCall, results
<1>4. CASE head # NoLedger
  <2>1. ledger \in 1 .. MaxLedger /\ latest \in 1 .. MaxLedger /\ latest <= ledger
        /\ ledger' = ledger
    BY <1>2 DEF Inv, TypeOK, Dated, network
  <2>2. /\ head \in 1 .. MaxLedger
        /\ head = latest \/ (latest <= ledger - Retention /\ latest < head)
    BY <1>4, <2>1, HeadFacts
  <2>3. Dated'
    BY <1>1, <1>2, <1>4, <2>1, <2>2 DEF Dated, CloseTimeOfLatest
  <2> QED BY <1>1, <1>2, <1>4, <2>1, <2>2, <2>3, LatestStep
<1> QED BY <1>3, <1>4

LEMMA WakeInv == ASSUME Inv, Wake, outcome = "running" PROVE Inv'
<1>1. Counted' /\ call # "none"
  BY DEF Wake, Inv, Counted, TotalAttempts
<1> QED BY <1>1, LoopStep DEF Wake, Inv, TypeOK

LEMMA ExhaustedInv == ASSUME Inv, Exhausted PROVE Inv'
<1>1. retries \in Retries /\ attempt \in 0 .. MaxAttempts
  BY DEF Inv, TypeOK
<1>2. TotalAttempts \in 0 .. MaxAttempts
  BY <1>1, TotalFacts
<1>3. attempt = 0 /\ TotalAttempts = 0 /\ asked = 0 /\ call # "none"
  BY <1>1, <1>2, ConfigAssumption DEF Exhausted, Inv, Counted
<1>4. Counted'
  BY <1>3 DEF Exhausted, Counted, TotalAttempts, loop
<1> QED BY <1>3, <1>4, LoopStep DEF Exhausted, loop, Inv, TypeOK

LEMMA NextInv == ASSUME Inv, [Next]_vars PROVE Inv'
<1>1. CASE NetworkCloses
  BY <1>1, NetworkClosesInv
<1>2. CASE \E ks \in KeyLists : FetchEntries(ks)
  BY <1>2, FetchEntriesInv
<1>3. CASE GetLatestLedger
  BY <1>3, GetLatestLedgerInv
<1>4. CASE EntriesAnswered
  BY <1>4, EntriesAnsweredInv
<1>5. CASE LatestAnswered
  BY <1>5, LatestAnsweredInv
<1>6. CASE CloseTimeAnswered
  BY <1>6, CloseTimeAnsweredInv
<1>7. CASE RpcError \/ FatalStatus
  BY <1>7, EndingsInv DEF EndsCall, RpcError, FatalStatus
<1>8. CASE TransientFailure
  BY <1>8, FailureInv
<1>9. CASE Wake
  <2>1. outcome = "running"
    BY <1>9, Zenon DEF Inv, Counted, Wake
  <2> QED BY <1>9, <2>1, WakeInv
<1>10. CASE Exhausted
  BY <1>10, ExhaustedInv
<1>11. CASE UNCHANGED vars
  <2>1. Prefix(keys, todo, found, served)'
    BY <1>11 DEF Inv, Answered, vars, results
  <2>2. TypeOK'
    BY <1>11 DEF Inv, TypeOK, vars, network, results, loop, TotalAttempts
  <2>3. Counted' /\ Dated'
    BY <1>11 DEF Inv, Counted, Dated, CloseTimeOfLatest, vars, network, results, loop, TotalAttempts
  <2>4. Answered'
    BY <1>11, <2>1 DEF Inv, Answered, vars, results
  <2> QED BY <2>2, <2>3, <2>4 DEF Inv
<1> QED BY <1>1, <1>2, <1>3, <1>4, <1>5, <1>6, <1>7, <1>8, <1>9, <1>10, <1>11
        DEF Next, ClientStep

-------------------------------------------------------------------------------
(* The theorems.                                                           *)

\* The state is always well typed: no post makes more attempts than it may, and
\* no sleep exceeds the longest duration.
THEOREM SpecTypeOK == Spec => []TypeOK
<1>1. Inv => TypeOK
  BY DEF Inv
<1> QED BY <1>1, InitInv, NextInv, PTL DEF Spec

\* A successful fetch_entries answers for every key what the network had when
\* its chunk was answered, for any number of keys and any size of chunk.
THEOREM SpecFetchIsComplete == Spec => []FetchIsComplete
<1>1. Inv => FetchIsComplete
  <2> SUFFICES ASSUME Inv, call = "entries", outcome = "ok"
               PROVE  /\ \A i \in DOMAIN keys : served[keys[i]] # NoLedger
                      /\ found = {[key |-> keys[i], modified |-> served[keys[i]]] :
                                    i \in {i \in DOMAIN keys : served[keys[i]] # Absent}}
    BY DEF FetchIsComplete
  <2>1. todo = <<>> /\ Prefix(keys, todo, found, served)
    BY DEF Inv, Answered
  <2>2. Len(keys) - Len(todo) = Len(keys) /\ DOMAIN keys = 1 .. Len(keys)
    BY <2>1 DEF Inv, TypeOK
  <2> QED BY <2>1, <2>2 DEF Prefix
<1> QED BY <1>1, InitInv, NextInv, PTL DEF Spec

\* The close time of get_latest_ledger is that of the ledger it comes with, or that
\* ledger has fallen out of what the RPC describes and the time is a later one's:
\* for any number of ledgers closed between its two posts and any window.
THEOREM SpecCloseTimeOfLatest == Spec => []CloseTimeOfLatest
<1>1. Inv => CloseTimeOfLatest
  BY DEF Inv, Dated
<1> QED BY <1>1, InitInv, NextInv, PTL DEF Spec

\* A post gives up after retries + 1 attempts that reached the network, for any
\* number of retries whose successor is a u32.
THEOREM SpecGivesUpAfterAllAttempts == Spec => []GivesUpAfterAllAttempts
<1>1. Inv => GivesUpAfterAllAttempts
  BY TotalFacts DEF Inv, TypeOK, Counted, GivesUpAfterAllAttempts
<1> QED BY <1>1, InitInv, NextInv, PTL DEF Spec

-------------------------------------------------------------------------------
(* The backoff.                                                            *)

LEMMA ProductGrows == \A a, b, c \in Nat : b < c => a * b + a <= a * c
<1> SUFFICES ASSUME NEW a \in Nat, NEW b \in Nat, NEW c \in Nat, b < c
             PROVE  a * b + a <= a * c
  OBVIOUS
<1>1. c - b - 1 \in Nat /\ c = b + 1 + (c - b - 1)
  OBVIOUS
<1>2. a * (c - b - 1) \in Nat
  BY <1>1, ProductFacts
<1>3. a * c = a * b + a + a * (c - b - 1)
  BY <1>1
<1>4. a * b \in Nat /\ a * c \in Nat
  BY ProductFacts
<1> QED BY <1>2, <1>3, <1>4

\* What each sleep may be, in terms of its factor.
LEMMA DelayFacts ==
    ASSUME NEW n \in Nat, NEW d \in BackoffDelays(n)
    PROVE  \E jitter \in Nat :
             /\ jitter < Base \/ jitter = 0
             /\ d = Min(Base * Saturated(2 ^ n) + jitter, MaxDelay)
BY ConfigAssumption DEF BackoffDelays

\* The factor doubles, and the part drawn at random is less than the base: a
\* later sleep is no shorter than an earlier one, whatever is drawn.
LEMMA DelaysGrow ==
    ASSUME NEW n \in Nat, n > 0, 2 ^ n \in 0 .. MaxAttempts, n <= MaxAttempts,
           NEW d \in BackoffDelays(n - 1), NEW e \in BackoffDelays(n)
    PROVE  d <= e
<1> DEFINE f == 2 ^ (n - 1)
           g == 2 ^ n
<1>1. n - 1 \in 0 .. MaxAttempts /\ (n - 1) + 1 = n
  BY ConfigAssumption
<1>2. f \in Nat /\ g \in Nat /\ f < g
  <2>1. f \in Nat \ {0} /\ 2 ^ ((n - 1) + 1) = 2 * f
    BY <1>1, PowersAssumption
  <2>2. g = 2 * f
    BY <1>1, <2>1
  <2> HIDE DEF f, g
  <2> QED BY <2>1, <2>2
<1>3. Saturated(f) = f /\ Saturated(g) = g
  <2>1. g \in 0 .. MaxAttempts
    OBVIOUS
  <2> HIDE DEF f, g
  <2>2. f \in 0 .. MaxAttempts
    BY <1>2, <2>1, ConfigAssumption
  <2> QED BY <2>1, <2>2 DEF Saturated
<1>4. PICK i \in Nat : (i < Base \/ i = 0) /\ d = Min(Base * Saturated(f) + i, MaxDelay)
  BY <1>1, DelayFacts
<1>5. PICK j \in Nat : e = Min(Base * Saturated(g) + j, MaxDelay)
  BY DelayFacts
<1> HIDE DEF f, g
<1>6. Base * f + i <= Base * g + j
  <2>1. Base * f \in Nat /\ Base * g \in Nat /\ Base \in Nat
    BY <1>2, ProductFacts, ConfigAssumption
  <2>2. Base * f + Base <= Base * g
    BY <1>2, ProductGrows, ConfigAssumption
  <2> QED BY <1>4, <2>1, <2>2
<1>7. Base * f + i \in Nat /\ Base * g + j \in Nat /\ MaxDelay \in Nat
  BY <1>2, ProductFacts, ConfigAssumption
<1> QED BY <1>3, <1>4, <1>5, <1>6, <1>7 DEF Min

\* The last sleep of a post is one that its number of failures allows.
Slept == attempt > 0 => delay \in BackoffDelays(attempt - 1)

LEMMA AttemptFacts == ASSUME Inv PROVE attempt \in Nat /\ attempt <= MaxAttempts
<1>1. attempt \in 0 .. MaxAttempts
  BY DEF Inv, TypeOK
<1> QED BY <1>1, ConfigAssumption

LEMMA NextSlept == ASSUME Inv, Slept, [Next]_vars PROVE Slept'
<1>1. CASE TransientFailure
  <2>1. attempt \in Nat
    BY AttemptFacts
  <2>2. CASE attempt + 1 < TotalAttempts
    <3>1. attempt' = attempt + 1 /\ delay' \in BackoffDelays(attempt)
      BY <1>1, <2>2 DEF TransientFailure
    <3>2. attempt' - 1 = attempt
      BY <2>1, <3>1
    <3> QED BY <3>1, <3>2 DEF Slept
  <2>3. CASE ~ (attempt + 1 < TotalAttempts)
    BY <1>1, <2>3 DEF TransientFailure, loop, Slept
  <2> QED BY <2>2, <2>3
<1>2. CASE FreshPost
  BY <1>2 DEF FreshPost, Slept
<1>3. CASE attempt' = attempt /\ delay' = delay
  BY <1>3 DEF Slept
<1>4. TransientFailure \/ FreshPost \/ (attempt' = attempt /\ delay' = delay)
  BY Zenon DEF Next, NetworkCloses, FetchEntries, GetLatestLedger, ClientStep, EntriesAnswered,
         LatestAnswered, CloseTimeAnswered, RpcError, FatalStatus, Wake, Exhausted, vars, loop
<1> QED BY <1>1, <1>2, <1>3, <1>4

\* Until its factor saturates no sleep of a post is shorter than the one before,
\* whatever is drawn at random, for any base and longest duration.
THEOREM SpecBackoffGrows == Spec => BackoffGrows
<1>1. Init => Slept
  BY DEF Init, Slept
<1>2. ASSUME Inv, Slept, [Next]_vars,
             ~asleep /\ asleep' /\ attempt > 0 /\ 2 ^ attempt <= MaxAttempts
      PROVE  delay' >= delay
  <2>1. TransientFailure /\ attempt + 1 < TotalAttempts
    <3>1. TransientFailure
      BY <1>2, Zenon DEF Next, NetworkCloses, FetchEntries, GetLatestLedger, ClientStep,
             EntriesAnswered, LatestAnswered, CloseTimeAnswered, RpcError, FatalStatus,
             Wake, Exhausted, vars, loop, FreshPost
    <3>2. asleep' = asleep \/ attempt + 1 < TotalAttempts
      BY <3>1 DEF TransientFailure, loop
    <3> QED BY <1>2, <3>1, <3>2
  <2>2. attempt \in Nat /\ attempt <= MaxAttempts
    BY <1>2, AttemptFacts
  <2>3. 2 ^ attempt \in 0 .. MaxAttempts
    <3> DEFINE g == 2 ^ attempt
    <3>1. g \in Nat /\ g <= MaxAttempts
      BY <1>2, <2>2, PowersAssumption, ConfigAssumption
    <3> HIDE DEF g
    <3>2. g \in 0 .. MaxAttempts
      BY <3>1, ConfigAssumption
    <3> QED BY <3>2 DEF g
  <2>4. delay \in BackoffDelays(attempt - 1) /\ delay' \in BackoffDelays(attempt)
    BY <1>2, <2>1 DEF Slept, TransientFailure
  <2>5. delay <= delay'
    BY <1>2, <2>2, <2>3, <2>4, DelaysGrow
  <2>6. delay \in 0 .. MaxDelay /\ delay' \in 0 .. MaxDelay
    BY <1>2, NextInv, <2>2, <2>4, BackoffFacts DEF Inv, TypeOK
  <2> QED BY <2>5, <2>6, ConfigAssumption
<1> DEFINE Grows == ~asleep /\ asleep' /\ attempt > 0 /\ 2 ^ attempt <= MaxAttempts
                      => delay' >= delay
<1>3. Inv /\ Slept /\ [Next]_vars => Grows
  BY <1>2
<1>4. Spec => [][Grows]_vars
  BY <1>1, <1>3, InitInv, NextInv, NextSlept, PTL DEF Spec
<1> QED BY <1>4 DEF BackoffGrows

===============================================================================
