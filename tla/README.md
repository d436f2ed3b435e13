# soroban-fork, specified and checked

TLA+ specifications of soroban-fork: a library and JSON-RPC server that forks a
Stellar/Soroban network lazily, keeps every change local, and remembers what it
fetched in a cache file. The modules are translated from the Rust code in
`src/src`; TLC checks them on small instances, and TLAPS proves for any instance
all that the passing runs check but the liveness properties: every invariant, every
action property, and that the detailed specifications implement the abstract
ones.

## 1. The system

| Part | State | Operations | Hard about it |
|---|---|---|---|
| `RpcSnapshotSource` (`source.rs`) | map key -> entry or "known absent", under a mutex; an atomic fetch counter | `get` (lookup, fetch, insert), `set_entry`, `preload`, `bump_account_seq`, `apply_changes`, `entries` | the lock is not held over the fetch; absence is memoized too; Strict and Lenient failure |
| `RpcClient` (`rpc.rs`) | none between calls; the retry counter and delay within one | `fetch_entries` in chunks, `get_latest_ledger` in two posts, `get_network`; retry with backoff and jitter | the network moves between two posts of a call; attempt counting; saturation |
| Cache file (`cache.rs`, `lib.rs` build / save / drop) | the file, temporary siblings | `load_snapshot`, `save_snapshot` (temporary file, rename), `save_cache`, `Drop` | crashes and failing file operations; several forks on one file |
| `ForkedEnv`, `ForkConfig` (`lib.rs`) | the SDK's `Env`, reported ledger and time, fork point, fee cell | `build`, `warp*`, `deal_token`, `fee_configuration`, `save_cache` | saturation; staleness of the fee schedule; clock buffer |
| Worker and mailbox (`server/actor.rs`) | the environment, receipts by hash, a bounded channel | one command at a time: reads, writes, simulate, send | queue limits, lost replies, death of the only worker |
| Server life cycle (`server/mod.rs`, `bin/`) | server task, shutdown channel, worker thread | start (build, bind), shutdown, drop of the handle, process exit | order of shutdown; nobody joins the worker |
| JSON-RPC handlers (`server/handlers.rs`) | the request in hand | chains of one to four commands per method | other clients' commands run in between |
| Trace, auth tree (`trace.rs`, `auth_tree.rs`) | none (pure) | rebuild a call tree from diagnostic events, render authorisations | unbalanced event streams |
| Fees, test accounts, workspace helper, errors and wire types | none, or read once | fee schedule fetch, key derivation, `cargo build`, serde | - |

How they interact: an axum handler sends a command through the mailbox and
awaits the reply on a one-shot channel. The worker owns the only `ForkedEnv`;
the host inside it reads entries through `RpcSnapshotSource::get`, which asks
`RpcClient` for what the cache lacks, and a successful transaction comes back as
`apply_changes` and `bump_account_seq`. Building a fork preloads the cache file,
dropping it writes the file. A fetch that fails for good in Strict mode panics
and thereby kills the worker. Outside the server the source is `Send + Sync` and
documented as shareable between threads.

What makes each part correct, in one line: the source is *frozen* (a key answers
with the last local write, or for ever with its first fetch) and never makes
absence up; the client loses and invents no entry; the file is never
half written and gives back what was captured; every request ends and is
answered only when all of its commands were executed; a method has the effect of
a single step unless its reading was overwritten; the clock never goes back and
is no older than the entries it is compared with; the call tree is the tree of
the calls.

## 2. Modules

| Module | Models | Instance for TLC | Proofs |
|---|---|---|---|
| `SourceService` | what the source promises to a lone owner (abstract) | - | - |
| `SnapshotSource` | `source.rs`, any number of threads | `MCSnapshotSource` | `SnapshotSourceProofs` |
| `CommandService` | what the server promises to one request (abstract) | - | - |
| `Actor` | mailbox, worker thread, handlers as senders, life cycle | `MCActor` | `ActorProofs` |
| `ForkLedger` | the worker's state and its commands, each one step | - | in `HandlersProofs` |
| `ForkApi` | requests of clients, each one step on `ForkLedger` (abstract) | - | - |
| `Handlers` | the methods as chains of commands of several clients | `MCHandlers` | `HandlersProofs` |
| `RpcClient` | one call of the client over a moving network | `MCRpcClient` | `RpcClientProofs` |
| `CacheService` | what the cache file promises to the forks that share it (abstract) | - | - |
| `CacheFile` | forks living off one cache file, step by step | `MCCacheFile` | `CacheFileProofs` |
| `ForkedEnv` | successive lives of one fork: fork point, clock, entries, fees, label of the file | `MCForkedEnv` | `ForkedEnvProofs` |
| `CallTrace` | the host's event stream and the call tree made from it | `MCCallTrace` | `CallTraceProofs`, `CallTreeProofs` |

Each abstract module leaves out the steps, the failures and the partners that its
users need not know of, and is implemented by the detailed one: an `INSTANCE`
with a refinement mapping, whose specification is a TLC property and a theorem.

| Abstract | Implemented by | What becomes one step |
|---|---|---|
| `SourceService` | `SnapshotSource`, with one thread | lookup, fetch and insert of a `get` |
| `CommandService` | `Actor` | the way of a command through the mailbox |
| `ForkApi` | `Handlers`, any number of clients | the chain of commands of a method |
| `CacheService` | `CacheFile` (any number of forks) and `ForkedEnv` (one) | a save: temporary file, rename, whatever fails or crashes in between |

This is also how the modules fit together. `Actor` says that commands are
serialised and executed at most once; `Handlers` starts from there and leaves the
mailbox out, as `Actor` leaves out what a command does. `SourceService` is why
`ForkLedger`, `CacheFile` and `ForkedEnv` may have a `get` in one step: their
source has one owner. `CacheFile` and `ForkedEnv` look at the same fork from two
sides, the one at the steps of a save and at several forks on one file, the
other at clock, fees and the age of entries with a save in one step; that both
implement `CacheService` is what makes them views of one thing.

### State and actions against the code

`PROJECT.json` maps every definition to its lines. The outline:

* **SnapshotSource.** `cache` is the map (`Unasked` for no key, `Absent` for the
  `None` marker), `fetchCount` the counter, `pc`/`want`/`got` a thread inside
  `get`. `Hit` and `Miss` are the lookup under the lock, `CountFetch`, `Answer`,
  `FailStrict`, `FailLenient` the unlocked part of `fetch_from_rpc`, `Memoize`
  the insert. The writers hold the lock for their whole batch and are one step.
  An entry is reduced to kind, one `payload` (the sequence number of an account)
  and live-until.
* **Actor.** `blocked` are senders waiting for a place, `mailbox` the channel,
  `current` the command the worker executes, `stage` where a handler is.
  `Admit` grants places in order (tokio's fair semaphore), `SendFails` and
  `ReplyLost` are the two ways `ActorHandle::send` returns `WorkerGone`,
  `Panic` drops receiver and queue, `Exit` is the end of main. `DropEnv` drops the
  environment: `save` says whether the cache was saved, could not be, or there was
  nothing to save (no cache file, or an empty cache).
* **Handlers.** `pc[c]` names the command c's handler sends next; each action is
  that command with the handler's code up to the following one. `seen` is what
  the handler keeps from its replies. `Abandon` is axum dropping the future.
  `dirty` are the handlers whose reading others have overwritten, `due` is the
  number each account should have: both are history variables.
* **ForkApi.** `request[c]` is what c waits for; its effect (`Perform`) comes once
  before the answer, `served` are those who have had it. `Prepare` is what a
  method may do before (bring an entry into the cache, install code), `Refuse`
  what a refused one leaves. A client in `raced`, whose entry others changed while
  it waited, may write back what it had read (`Overwrite`).
* **RpcClient.** `attempt`, `asleep`, `delay` are the loop of `rpc_post`, `todo`
  the keys of the chunks not sent yet. `NetworkCloses` is the environment. What
  was found is a set: the order of a response is the server's. `HeadOfPage` is
  what the RPC may answer to `getLedgers`: the ledger asked for while it describes
  it; after that nothing, or its oldest ledger. The code takes what it gets.
* **CacheFile.** `phase` is where a fork is between build and drop; `Create`,
  `Written`, `Rename` are the three steps of `save_snapshot`, each of which may
  fail, and `Crash` happens anywhere.
* **ForkedEnv.** `config` is what the builder was asked for, while an environment
  exists; `point` its fields `ledger_sequence`, `timestamp`, `protocol_version`;
  `clock` what the `Env` reports. `Build`, `Save`, `End` are build, `save_cache`
  and drop; `Read` and `Write` go through the source, and a fetch sees the
  network (`net`, `upstream`) as it is then, not as it was at the fork point.
  `ReadFees`, `ApplySetting`, `FeesKnown` are `fees.rs`, one get per setting:
  `applied` counts them, `schedule` is the one being made. An entry written in
  the fork is any setting, whatever its key, or none (`IsSetting`); it is applied
  as the setting that it is.
  `Warp`, `WarpTime`, `WarpLedger` move the clock with the saturation and the
  truncation to u32 of the code. `Drop` inside `Read` and `ApplySetting` is the
  panic of Strict mode, which unwinds through the drop.
* **CallTrace.** `Invoke`, `Call`, `Return`, `Fail`, `Publish` and `Orphan` are the
  host, which the parser has as its environment: they fill `events` and keep in
  `frames` what really happened. `Trace` starts `Trace::from_events` on `input`;
  `nodes` are the frames it makes, `stack` those it holds open, `attached` those
  in the tree, each step one iteration of its two loops.

Variables named in a comment as history variables are read by no action; they
record what the properties are about (what a reader was promised, which keys
were raced, whose reading was overwritten).

Definitions whose name has an underscore and a fault after it
(`Write_OnlyUnknown`) are deliberate faults: substituted for the definition they
belong to, they make a property fail, which shows that the property depends on
that piece of code.

## 3. Runs

All runs end in about three minutes on two cores.

| Run | Question | Instance | States |
|---|---|---|---|
| `SourceShared` | what do threads sharing a Lenient source still get? | 2 threads, an account and a contract key, symmetric threads | 205 thousand |
| `SourceSolo` | is a lone Strict fork frozen, is a get one step, and does it end? | 1 thread, 2 keys, sequence numbers 0..1, FairSpec | 9.8 thousand |
| `ActorProgress` | does the mailbox implement the service, does everything end? | 3 requests of 1 or 2 commands, mailbox of 1, FairSpec | 155 thousand |
| `MethodsBalances` | is each request on a balance one step, and does the number count? | 2 clients; `fork_setBalance` native and token, raw writes, a mint, reads; an account that may be missing or unknown to the cache, balances 0..1, 2-bit numbers | 1.4 million |
| `MethodsContracts` | the same for codes, an instance and the clock | 2 clients; etch, `fork_setCode`, a raw entry of the wrong kind, an invocation, polling, closing ledgers; 2 codes, 2 storages, ledger up to 3, time up to 4 | 1.3 million |
| `RpcCalls` | chunks, retries, backoff, two-post calls | 3 keys in chunks of 2, 3 ledgers, the last 2 described, 0, 3 or "u32::MAX" (7) retries, FairSpec | 141 thousand |
| `CacheShared` | is the file safe, and a save one step, with two forks, crashes and failures? | 2 forks, 1 key, network and file arbitrary | 327 thousand |
| `EnvLives` | do clock, entries, fees and file stay consistent over a fork's lives? | 2 keys, both settings; one Lenient user without wishes, one Strict who pins ledger, time and too new a protocol; time up to 5 | 2.8 million |
| `TraceRebuilt` | is the rebuilt tree the call tree? | 4 calls, 2 events that are noise | 1.2 million |
| `TraceMispaired` | is a frame called trapped only if it never returned? (violated) | 3 calls | |
| `ActorSavedOnShutdown` | has the drop come to its save when the process ends? (violated) | 2 requests | |
| `EnvFees` | has a kept fee schedule all of its fees from the ledger? (violated) | 2 settings, written under either key | |

### What each passing run shows

* `SourceShared`: `CoherentUnlessRaced` - a reader can be denied its last local
  write or its first answer only on a key whose fetch overlapped a write or
  another fetch; `OneFetchPerThread` - no thread pays twice for a key, absent
  ones included.
* `SourceSolo`: `Frozen` (no exception with one thread), `AbsenceIsReal` (a
  transport failure never becomes an absent entry in Strict mode), `TypeOK` with
  the wrap of `bump_account_seq`, `GetsEnd`, and `ImplementsService`: what a get
  answers, and not only what the cache holds, is settled in one step.
* `ActorProgress`: `ImplementsService` (in particular a full mailbox delays and
  does not refuse, which is proved by itself too), `WaitingIsQueued` (no waiting handler is forgotten
  while the worker lives, at most one command each), `EveryRequestEnds` and
  `WorkerEnds`, with build failures, panics, cancelled clients, both ways the
  server may be told to stop, and process exit.
* `MethodsBalances`: `ImplementsApi` ties every command of every handler to the
  request in hand: its effect comes at most once, before an answer that is ok, and
  never with an answer that is an error; the excuse of a race holds only for a
  handler whose very entry others changed after it had read it, and lets it write
  back nothing but what it may have read. `NumbersCount`: an account's number is
  the one it was given plus its transactions since; a `fork_setBalance` in between
  that did not race takes none back, and a created account starts with the shifted
  (wrapped) ledger. Excepted are transactions of an account the cache did not hold
  (`bump_account_seq` does nothing) and accounts a race wrote back.
* `MethodsContracts`: `ImplementsApi` for etch, code, instance, invocations and
  the clock, over an instance that may be missing, there, or of the wrong kind;
  `InstanceRunnable`: wherever an etch is interrupted or overtaken, the instance's
  code is installed (a client that writes the instance raw can break that, and
  this run has only raw entries that are none). `AnswersCurrent`: the ledger and
  the time of an answer were each current during its request, though not
  necessarily at one moment. `ReceiptsNotFromFuture`, `ClockNeverBack`.
* `RpcCalls`: `FetchIsComplete`; `CloseTimeOfLatest` - the time belongs to the
  ledger it comes with, unless the RPC dropped that ledger between the two posts
  and answered with a later one; `GivesUpAfterAllAttempts`, `BackoffGrows`,
  `CallEnds`.
* `CacheShared`: `ImplementsService` - to every fork, a save of its own or of
  another is one step that stores all it holds or nothing, wherever it fails or is
  killed, so that a readable file stays readable; `KeepsWhatItRead`, what that
  means for the entries of earlier runs.
* `EnvLives`: `EntriesNotFromFuture` - what the buffer added to the close time is
  for: a contract that subtracts an entry's time from the ledger's does not
  underflow, also for entries that an earlier run fetched later and saved.
  `LabelCoversEntries` - that a warped run labels the file with its fork point.
  `ScheduleFromCache` - a fee schedule is what transactions see, one failing
  setting notwithstanding: something was found under every key, and each fee whose
  setting lies under its own key alone is from there. That it is whole is not so
  (`EnvFees`). `ClockPaced` - the
  truncation in `warp_time` and both saturations only ever slow the ledgers down.
  `TypeOK` holds the protocol cap. `ImplementsService` - fork and file are those of
  `CacheService`; an empty cache never replaces a saved one.
* `TraceRebuilt`: `TreeIsCallTree` - parents, results, rollbacks and the order of
  children, as long as no contract caught a failure; `EachCallOnce` and
  `FailuresNoticed` even then.

### Bounds, and why they are enough

* *Threads, clients, forks: two.* The races are between one read-modify-write
  and one other writer, or between two fetches; the code treats all others
  alike. `Actor` has three requests so that one executes, one is queued (the
  mailbox holds one, 32 in the code) and one is blocked.
* *Keys: two, one an account.* Keys interact only through batches
  (`apply_changes`, `preload`), for which two are needed. `CacheShared` has one
  key because no operation there relates two keys. The two keys of `EnvLives` are
  both settings (six in the code): a reading can end before, between and after
  them.
* *Commands: two* per request in `Actor` (up to four in the code): a handler is
  between two commands, or at its last.
* *Integers.* Sequence numbers have 1 bit (`SourceSolo`) or 2 bits, so that
  counting wraps; with `SeqUnit` (2^32) at 2, ledger 1 stands for the ledgers from
  2^31 on, whose shifted numbers wrap. The clock of `MethodsContracts` reaches its
  end by closing once or twice. Balances 0..1 make a mint fail and a target lie
  above, below or at the balance. Trustlines, which go through the same code with
  a limit in place of the number, and longer balances are left to the theorems.
  `SourceShared` has a single payload: what it asks for does not depend on the
  number.
* *`RpcClient`*: two keys per chunk and three keys give a full and a partial
  chunk. With a base of 2 and `MaxDelay` 8, the second sleep of three retries does
  not saturate and the third does. One call per behaviour, as a client keeps
  nothing from one call to the next.
* *Network*: three ledgers in `RpcCalls`, so that both posts of a call and every
  retry may see another one; two in `EnvLives`, at 1 or 2 seconds' distance with a
  buffer of 1, so that a fetch falls before and after the end of the buffer.
* *Clock of `EnvLives`*: ledgers of 2 seconds, one-bit ledger numbers, time up to
  5. Advances of 1, 2 and 4 seconds are part of a ledger, one ledger, and two that
  the truncation makes none; from 0 or 1 none of them saturates the time, and
  repeated they all do.
* *Calls*: four, so that a failure can pass through a caller that itself has a
  finished child, and be caught above. Two events of noise: one before and one after a call, or a pair that
  looks like a call and its return.

### Fairness and deadlock

Fairness is assumed of what the runtime schedules and of nothing else. A thread
inside `get` runs, and each RPC call ends because the client has a request
timeout and bounded retries (`RpcCalls` checks that: `CallEnds`). The worker,
the channel's admission, handlers with a reply or an error in hand, and the
draining server task run. Clients never have to call, to wait or to hang up,
nobody has to ask for a shutdown, and `main` need not exit.

`CHECK_DEADLOCK FALSE` is set where the system may stop: `SourceSolo` (every
thread panicked), the `Actor` runs (the process has
exited, or every request has ended and nobody shuts the server down), and
`RpcCalls` (the call has ended).

## 4. Theorems

Checked by tlapm, for any values of the constants that satisfy the named
assumptions of the modules.

`SnapshotSourceProofs` (from `ModeAssumption`, `SeqAssumption`,
`AccountsAssumption`, `MarkerAssumption`):

* `SpecTypeOK`: `Spec => []TypeOK`. It rests on `WriteStepWrites`, which reduces
  the four writers to one `Write` of a function from some keys to values.
* `SpecCoherent`: `Spec => []CoherentUnlessRaced`. The property is not
  inductive: `Memoize` inserts unconditionally, so one must know that no promise
  exists when it does. `Settled` says it: on a key never raced at most one get is
  in flight, and none once the key is known; `PromisedIffKnown` ties promises to
  the cache. Both are preserved because a write sets `raced` exactly when a fetch
  is in flight, and a second `Miss` does.
* `SoloFrozen`: with one thread `Spec => []Frozen`. A lone thread is idle when it
  writes or misses, so no key is ever raced, and `SpecCoherent` gives the rest.
* `SoloImplementsService`: with one thread `Spec => ImplementsService`. `Settled`
  and the absence of races say that the key is still unknown when it is memoized,
  and `AnswersFit` that the answer in hand is one of that key: the insert, which
  looks at neither, is then the abstract step.
* `SpecOneFetchPerThread`: from `FetchedOnce`, that a thread which has fetched a
  key is still fetching it, or has made it known, or is dead.
* `SpecAbsenceIsReal`: from `AbsenceInv`, which says the same of the answer a
  thread is about to memoize.

`CacheFileProofs` (from `MarkerAssumption`, `TestKeysAssumption`):

* `SpecTypeOK`: type correctness for any number of forks and keys.
* `SpecFileStaysWhole`: `Spec => FileStaysWhole`. Only a rename changes the file
  (`FileChanges`), and by the invariant `RenamesExport` a fork about to rename has
  exactly what its cache exports in its temporary file, which is a snapshot.
* `SpecKeepsWhatItRead`: `Spec => KeepsWhatItRead`. `HoldsWhatItRead` is needed on
  top: a live fork's cache agrees with what its build read on every key the fork
  has not written. Minting makes it inductive only with `BuildsUntouched`: before
  it is built a fork has written nothing.
* `SpecOnlyNewFetched`: `Spec => []OnlyNewFetched`, from `KnowsWhatItRead`: a live
  fork never comes to not knowing a key that it read; only an unknown key is
  fetched.

* `SpecImplementsService`: `Spec => ImplementsService`. The rename is the step of
  the save, and what it renames is what the fork holds at that moment
  (`RenamesExport`, since nothing else happens in a fork that saves), which is not
  nothing (`SavesSomething`); all before it, and what fails, is a stutter or the
  end of the fork.

`ActorProofs` (from the assumptions of `Actor`, for any number of requests, any
number of commands each and any capacity of the mailbox):

* `SpecTypeOK`, `SpecFailureMeansNoWorker`, `SpecWaitingIsQueued`. None is
  inductive alone. The invariant adds `Orderly` (where a request can be, given
  what its handler waits for: blocked senders once, the mailbox or the worker
  once, a cancelled handler's last command included), `Counted` (commands left
  to each), `BuiltFirst` (nobody is served before the environment is there).
* `SpecImplementsService`: `Spec => ImplementsService`, step by step, one lemma
  per action: each maps to a step of `CommandService` or to a stutter.
* `SpecPendingOnlyIfOvertaken`: after a requested shutdown the save is still
  pending at the end of the process exactly if the worker has not ended. This is
  the other half of the finding `ActorSavedOnShutdown`: no order of handlers,
  queued commands and panics keeps the drop from coming to its save, only the end
  of the process before that of the worker. Whether the save then succeeds is
  another matter; one that fails is only logged (`lib.rs:468-470`).

`HandlersProofs` (for any clients, accounts, codes, values and integer ranges):

* `LedgerInv` is about the fork and kept by each command; `ClientInv` is about one
  client. Its parts: `Ready`, what a handler read is no younger than the clock;
  `Fresh`, it is still what the fork holds, unless the client is `dirty`. That
  another client's command keeps `Fresh` is `OthersKeep`: whoever is overwritten
  is marked.
* `SpecTypeOK`, `SpecAnswersCurrent`, `SpecReceiptsNotFromFuture`,
  `SpecClockNeverBack` follow from `Ready`.
* `SpecImplementsApi`: `Spec => ImplementsApi`, for any number of clients. Each
  command is one of five kinds of step of `ForkApi`, or a stutter, with one lemma
  per command. From `Fresh`, the command that lands a method has the effect of the
  request on the fork as it is now; if the handler is `dirty`, only `Ready` is left
  and it is an `Overwrite`. `ApiInv` says that only handlers about to write back
  are `dirty`, and `WatchRaces` says that `dirty` marks those whom `ForkApi` lets race.
* `SpecInstanceRunnable`, where the raw instances that clients write are none:
  `Ready` says that an etch on its way has its code installed, and no code is
  removed.
* `SpecNumbersCount`, from `DueInv`: what has a number due is an account with that
  number, and what a handler that is not `dirty` has read of it still has it.

`RpcClientProofs` (any keys, chunk size, retries and network): the keys answered
are a prefix of those asked for and what was found is what the network had under
them (`Answered`); the attempts counted are those that reached the network
(`Counted`). From these `SpecTypeOK`, `SpecFetchIsComplete`,
`SpecGivesUpAfterAllAttempts`. `SpecCloseTimeOfLatest` is about an RPC that may head
its page with another ledger than the one asked for. `SpecBackoffGrows` compares
two sleeps of one post: `Slept` says that the delay in force is one that the
previous attempt allowed, and `DelaysGrow` that any delay of an attempt, jitter
and saturation included, is at least any of the attempt before. It needs
`PowersAssumption`, the recursion of powers of two, for which the provers have no
rules; it is a truth of arithmetic and no restriction, and TLC evaluates it.

`ForkedEnvProofs` (any bounds, users' choices, settings): `SpecTypeOK`;
`SpecEntriesNotFromFuture`, which needs that entries of the file are no younger
than the network's clock was, in any life that may have saved them;
`SpecLabelCoversEntries`; `SpecScheduleFromCache`, with the part of the schedule
already read (`ScheduleSoFar`), for settings under any key; `SpecClockPaced`, for which division must round down and the
truncation to u32 never add; `SpecImplementsService`, one step of `CacheService`
or none per action, for which there must be nothing in the cache before there is
an environment (`FreshUnbuilt`).

`CallTraceProofs` (invocations and noise of any length): `SpecTypeOK`, for which
the indices on the host's stack must be frames (`FramesOpen`), and
`SpecEachCallOnce`. `TreeInv` adds that the parser's stack is ordered
(`Ordered`) and apart from what is attached (`Apart`), so that a frame's parent
was called before it.

`CallTreeProofs` (likewise): `SpecTreeIsCallTree`, `SpecFailuresNoticed` and
`SpecTrappedNeverReturned`. They compare a tree made from events with frames that
the parser does not see; the event buffer connects the two.

* `HostInv` says which facts about the frames can be read off the positions of
  the events: a call's caller is the last frame before it that had not returned
  (`Callers`), and all that was called within a frame has returned when it returns
  (`Nested`), if no failure was caught.
* `ParseInv` says what the parser has made of the events it has read: its stack
  is the frames that have not returned there, in order (`StackOpen`), and what it
  has closed is attached under its caller with its own result (`AttachedClosed`,
  `AttachedRight`). Caught failures break `Nested` and with it all of this, which
  is the finding `TraceMispaired`; `SpecTrappedNeverReturned` says that nothing
  else does.
* That failures are noticed even then is counting: every return is used for one
  frame at most (`ReturnsUsed`), so if one frame has none, one frame at least is
  left without any.

Only model-checked: the liveness properties `GetsEnd`, `EveryRequestEnds`,
`WorkerEnds` and `CallEnds`. They need fairness and ENABLED, which the prover has
no rules for. The safety half of what they say is proved: `SpecWaitingIsQueued`
(nobody waits for what will not come), `SpecGivesUpAfterAllAttempts` and the
bound on attempts in `SpecTypeOK` of `RpcClient`.

## 5. Where documents and code disagree

Three disagreements are shown by runs that are expected to fail (`PROJECT.json`,
findings): `ActorSavedOnShutdown` (nobody joins the worker), `TraceMispaired` (a
caught failure mispairs calls and returns) and `EnvFees` (`fees.rs:80` applies a
setting by its own variant, not by the one that was asked for: a key written
locally with another of the six leaves a default in the schedule without an
error). Others, met while translating:

* `source.rs:132-134` and `src/README.md:521-522` let `set_entry` win over what
  is fetched: a write that lands between a get's lookup and its insert
  (`source.rs:293`) is overwritten by the insert. With one thread, as in the
  server, it cannot happen (`SoloFrozen`); `CoherentUnlessRaced` excepts it.
* `server/handlers.rs:891-893` "only `balance` changes": the balance is written
  back with the rest of an entry read one command before, so a transaction in
  between loses its sequence number (`handlers.rs:1109`).
  `ImplementsApi` and `NumbersCount` except it.
* `src/README.md:625-627` calls the second run fully local: keys known to be
  absent are not saved (`source.rs:243`) and asked for again.
* `lib.rs:196` promises `deal_token` an exact amount, but `lib.rs:236` passes a
  u128 to `burn`, whose amount is an i128 in SEP-41: lowering a balance traps.
* `workspace.rs:128-132`: profile "dev" builds into `debug/`, and the artefact is
  looked for in `dev/`.
* `ForkedEnv`: an entry written by a run that warped ahead is saved, and preloaded
  by a later run whose clock is behind it; the label's time has the buffer of
  3600 seconds in it, so a saved file is labelled younger than its ledger.
* Lenient mode: one passing failure while the fee settings are read is memoized
  as absence and leaves the session without fees (`fees.rs:60`).
* `rpc.rs:133-134` "Returns an error if the ledger is outside the RPC's retention
  window": the head of the page is taken for the ledger that was asked for, and
  its `sequence` (`rpc.rs:459-461`) is not looked at. If the RPC has dropped the
  ledger and answers with its oldest one, the close time is that one's;
  `CloseTimeOfLatest` excepts it.
* `rpc.rs:174`: `chunks` panics if `max_keys_per_request` is 0;
  `ConfigAssumption` excludes it.
* `server/handlers.rs:1229`: `target - current` of two i128 overflows when a token
  reports a hugely negative balance.
* `src/README.md:80` "Each unique entry = one HTTP call": two threads that miss
  the same key both fetch it (`source.rs:311`).
* `source.rs:196-198` says of `apply_changes` that live-until is kept; a change
  replaces it with its own.
* `server/mod.rs:189-190` "Dropping the handle does **not** stop the server": the
  drop closes the shutdown channel, which ends the graceful-shutdown future and
  so stops the server (`DropHandle`).
* `server/actor.rs:287-291`: the full mailbox is spoken of as an error; `send`
  waits for room.
* `server/handlers.rs:1128-1129` sets an exact token balance; the delta comes
  from an earlier simulation, and a mint in between leaves another balance with
  the answer still ok.
* `server/handlers.rs:1364-1368`: etch copies storage "verbatim", from a reading
  one command old: a transaction in between is undone. The comment at 1357-1362
  admits the race with another etch only.
* `server/types.rs:596-599` "only the `executable` field swaps": the live-until
  is replaced as well, by none when the client leaves it out.
* `server/handlers.rs:1055-1057`: `(ledger as i64) << 32` is negative from ledger
  2^31 on, which `fork_closeLedgers` reaches. `ForkApi` states the wrapped number.
* `server/actor.rs:248-250` says each send advances the ledger; the code and
  `src/README.md:443-447` say it does not.
* `src/README.md:272-274`: the sequence number increments only if the cache
  holds the account; `NumbersCount` therefore excepts accounts it did not hold.
* `rpc.rs:32-34` "Total attempts is `retries + 1`": at u32::MAX the sum wraps in a
  release build (a debug build panics) and no attempt is made; `RpcCalls`
  includes that configuration, `GivesUpAfterAllAttempts` excepts it.
* `src/README.md:82` "mutations happen in memory only": everything the source
  holds is saved to the cache file and preloaded by the next run.

## 6. Not modelled

* XDR and JSON encoding, error texts, logging, HTTP; requests that are refused
  before they send a command.
* The Soroban host: a transaction mints, burns or stores one value, or fails for
  reasons of its own. Fee computation and the result XDR are left out.
* Power loss: `save_snapshot` renames without syncing, which a crash of the
  process (modelled) survives and a crash of the machine need not.
* Two saves that would get the same temporary name (same pid, same nanosecond).
* The rendering of traces; the auth tree, which wraps and renders the payloads the
  host recorded and has no state, order or failure of its own; test accounts'
  key derivation; the workspace helper, which runs `cargo`; error and wire
  types.
* `ForkedEnv` in part: `deal_token`, a sequence of contract calls; the fee
  formulas, which are the host crate's.
* The network's own faults: RPC answers that are wrong rather than missing, but for
  a `getLedgers` page that starts with a later ledger.

## 7. Plan

Done: `SnapshotSource`, `Actor` and `CommandService`, `ForkLedger`, `ForkApi` and
`Handlers`, `RpcClient`, `CacheFile`, `ForkedEnv`, `CallTrace`, each with proofs of
all its safety properties, and `SourceService` and `CacheService` over them.

What would add most from here:

1. `Handlers` over a Lenient source: a made-up absence under `fork_setBalance`
   (hazard `source.rs:284`).
2. A run of `CacheFile` with two forks and two keys, if its state space can be
   brought down by symmetry.
