# Formal models of the Alpen dashboard backend

This directory holds TLA+ models of the Alpen status dashboard
(`src/backend`), the configurations that model-check them with TLC, and
proofs of their main properties checked by TLAPS.

    tlc -config MCBridgeMonitor.cfg MCBridgeMonitor.tla     # one model-checking run
    tlapm BridgeMonitor_proofs.tla                          # the proofs of one component

`PROJECT.json` is the index: which module stands for which lines of the source
(`map`), what each run checks, a plausible bug for each property that the run
must catch (`mutants`), the hazards the properties are aimed at, what the
runs found (`findings`) and what is proved (`theorems`).

## 1. The system

The backend is one process with three long-running tasks and an HTTP server.

| Component | State | Operations |
|---|---|---|
| **Bridge monitor** (`bridge/src/status.rs`, `state.rs`, `cache.rs`) | `BridgeStatusCache` under an `RwLock`: operators, deposit, withdrawal and reimbursement rows, pairings and four cursors (deposit info, pairing, withdrawal status, reimbursement status) | one task; a tick every `status_refetch_interval`: operators, deposits, pairing, withdrawals, reimbursements, then `mark_status_available` |
| **Bridge status database** (`bridge/src/db/status`) | sled: pairings, Complete withdrawal rows, the four cursors | put / delete rows and cursors, snapshot at start |
| **Withdrawal indexer** (`bridge/src/withdrawal_indexer`) | none but its database | one task; a tick scans one range of finalized EVM blocks |
| **Withdrawal index database** (`bridge/src/db/withdrawal_index`) | sled: requests by sequence number, event index, last scanned block | `insert_withdrawal_event` (a transaction), `put_indexer_state`, range reads |
| **Network monitor** (`network/src/status.rs`, `types.rs`) | `NetworkStatus` under an `RwLock` | one task; a poll asks sequencer, RPC endpoint and bundler in turn |
| **Initial-status gate** (`bridge/src/context.rs`, `network/src/types.rs`) | an `AtomicBool` and a `Notify` | `mark_status_available`; `wait_until_initial_status` in the handlers |
| **Retry policy, RPC failover** (`utils/src`, `bridge/src/bridge_rpc.rs`) | none that outlives a call | delays; retries per client, clients in order |
| **Esplora client** (`bridge/src/esplora.rs`) | none | confirmations of a transaction |
| **Configuration** (`config/src/lib.rs`) | read once | — |
| **Frontend** (`src/frontend`) | what it last fetched | renders both endpoints |

How they interact:

* The *indexer* is the only writer of the index database, the *monitor* reads it
  while it grows (`withdrawal_requests.rs`, `withdrawal_status.rs`). Nothing else
  is shared between the two tasks.
* The *monitor* is the only writer of the cache and of the status database; HTTP
  handlers read the cache under the read lock. Within a tick every phase reads the
  cache, awaits queries, writes the database and then the cache. The four phases are
  a pipeline: the pairing cursor is the frontier of the withdrawal cursor, which is
  the frontier of the reimbursement cursor.
* Both monitors open their *gate* at the end of their first completed poll.
* All databases are sled: a kill takes the writes made since the last background
  flush (every 500 ms), and what is left is a prefix of the writes.

What is hard here:

* *Crashes and partial failure.* A phase is a series of single writes, not a
  transaction. It can fail or be killed between any two of them, and the order of rows,
  cursor, deletions and cache update decides whether a row is lost, shown for ever, or
  paired twice.
* *Sparse cursors.* `next_sparse_status_cursor` passes every index that has no row. A row
  that is not there yet, or not there any more, is a row nobody ever sees.
* *FIFO pairing* is recomputed after crashes from a database and an index that lose
  their tails independently. It has to come out the same.
* *Replays.* The indexer has no transaction around a batch, so a batch interrupted
  anywhere is replayed in full.
* *Lagging nodes.* Different nodes may answer `eth_blockNumber` and `eth_getLogs`; the bridge
  nodes know different things of one item; the Bitcoin tip is read long before the
  transactions whose depth is counted from it.
* *Lost wakeups, deadlines* in the gate.
* *Retries, timeouts and services that flap* in the network monitor.

What makes each component correct:

* Bridge monitor: requests are paired with completed deposits in FIFO order, for good;
  no deposit falls between two stages; no row stays in the response with nobody to update
  it; memory is never ahead of the disk; everything drains once faults stop.
* Deposit rows: shown until settled *and* durably passed.
* Queries: a query ends with the first client in key order that keeps up; an item is settled
  only by a transaction no reorganisation can undo; an operator's status follows its node.
* Index database: whatever writers race, an event's rows are one gapless range and one whole
  decoding; to its callers an insert is one step.
* Both together: a deposit is never joined with another's request, whatever each database
  has lost.
* Indexer: its database is always a prefix of the chain's units, only of final
  blocks, and the scan position never covers a log that is not indexed.
* Gate: no lost wakeup, no default status served, no answer that goes back.
* Network monitor: a status is true of its poll, outages shorter than the retries do not
  show, lasting ones do, and polling goes on.

## 2. Modules

| Module | What it models | State ↔ code |
|---|---|---|
| `BridgeMonitor` | pairing, withdrawal and reimbursement phases, status database, restart | `cache` = `BridgeStatusCache`, `disk` = the status database as its handles see it, `flushed` = the prefix a kill leaves, `pc` = where the tick stands, `plan` = `WithdrawalPairingUpdate`, `answers` / `next` / `todo` / `purged` = locals of the phase |
| `BridgeMonitorLive` | the same after the last fault | adds `calm` |
| `DepositInfo`, `DepositInfoLive` | the deposit phase and its dense cursor | `rows`, `cursor` of the cache, `disk`, `flushed`, `pc`, `answers`, `next` |
| `CursorLoops` | where the loops that move the status cursors stop, without the loops | no state |
| `StateLoops` | `plan_withdrawal_pairings`, `next_sparse_status_cursor` and `next_deposit_info_cursor` as recursive functions, on numbers as wide as their types | no state |
| `WithdrawalIndexer`, `WithdrawalIndexerLive` | indexer task and its database | `db` / `flushed` = the three trees, `head` = the chain, `pc`, `from`, `to`, `batch` = the tick |
| `StatusGate` | flag, `Notify`, handlers with deadline and disconnection | `available`, `status`, `task`, `handler`, `waiters`, `woken`, `response` |
| `RetryPolicy` | `get_delay` as an exact fraction, rounded | no state |
| `NetworkMonitor` | one poll after another over three services | `query`, `sleeping`, `retries`, `elapsed`, `found` = the task; `status` = `network_status`; `service` = the outside world; `seen`, `outages`, `downFor` record what it did |
| `WithdrawalPipeline` | what the monitor's database promises: a FIFO pipeline of three stages that moves in single steps, and loses to a kill only whole steps | `working`, `synced` |
| `WithdrawalIndexDb` | `insert_withdrawal_event` in its two halves (read of the last sequence number, transaction) under several writers, the batched reads, kills, restarts with another denomination | `db` / `flushed` = the two trees, `at`, `call`, `answer` = the writers, `reader` = `fetch_withdrawal_requests` |
| `WithdrawalRequestLog` | what the index promises: the `WithdrawalIndexerDb` trait as `mock.rs` implements it, one step per call | `rows`, `index`, `answer` |
| `Dashboard` | indexer and monitor over their two databases, by INSTANCE of `WithdrawalRequestLog` and EXTENDS of `BridgeMonitorLive` | adds `scanned`, `position` = the indexer's task |
| `BridgeRpc` | `RpcClientManager`: the clients, `query_clients_with_retry` with `execute_with_retries`; nodes that fail and recover | `up` = the nodes, `query` = client and attempt, `steady` = the nodes up since the query began |
| `OperatorStatuses` | the operator list of a tick, over `BridgeRpc` | `phase`, `statuses` = the list being collected, `operators` = the list served |
| `MonitorQueries` | what a tick asks about one item, over `BridgeRpc` and a Bitcoin chain with reorganisations | `view` = what each node knows, `tip` / `height` = the chain, `seenTip`, `info`, `confirmations` = the tick, `row` / `settled` = the cache |
| `MC…` | instances for TLC | |
| `…_proofs` | theorems | |

Granularity. One task writes each store, so a step of a model is what no other party can
cut in two: one database write, one cache update under the lock, one round of queries, one
load of the flag, one sleep. `Crash` may come between any two of them. A put of one
sled key is atomic, so is `insert_withdrawal_event` (a sled transaction); a loop over puts is
one step per row.

Loops. `BridgeMonitor` and `DepositInfo` take a loop that moves a cursor as one step and say
where it stops (`CursorLoops`, `SeqAt`). `StateLoops` has the
same loops as recursive functions and states that they stop there and pair what they should,
and that at the end of a type they pair nothing twice or out of order. TLC evaluates this at the
start of `dashboard`, on every input of three indices and three numbers; `Dashboard_proofs` proves
it for types of every width (`StatusLoops`, `PlanLoops`), and that the pairing step of
`BridgeMonitor` makes the plan that the loop makes (`PlansAsTheLoop`).

Data. Deposits are their indices. A status is what the code tells apart: for a withdrawal
none, in progress, terminal below `max_tx_confirmations` (or with an unknown number),
terminal at it ("Deep"). A query that fails after its retries, and one whose answer is not
usable, contributes "none". A chain log is its position and its number of units. A poll in
`StatusGate` is its number.

`DepositInfo` is a module of its own because the phase shares no state with the
others: pairing queries the status of its own candidates again. The phases of a tick that only
ask others (`OperatorStatuses`, `MonitorQueries`) are apart from those that move cursors
(`BridgeMonitor`, `DepositInfo`), which leave the answers open: any answer at all, including
none, at any step. What the latter are shown to do therefore holds whatever the former return.

Two refinements tie a detailed module to an abstract one:

* `BridgeMonitor` implements `WithdrawalPipeline` (`ImplementsPipeline`). `PipelineOf` maps a
  store to its three cursors, the number of requests taken, and the pairings between the first
  two cursors. Rows written before their cursor, or deleted after it, do not show; a put of a
  cursor is one stage, `Flush` a sync, `Crash` a loss, and everything else a stutter.
* `WithdrawalIndexDb` implements `WithdrawalRequestLog` (`ImplementsLog`): rows and index are
  mapped as they are, the read of the sequence number is a stutter, and a kill with its restart
  reopens a prefix of whole events. `Dashboard` builds on the abstract log.

## 3. What the runs check

| Run | Question | Bounds, and why they are enough |
|---|---|---|
| `bridge` | The safety of the pipeline under every combination of answers, failed and partial writes, flushes and crashes; that it implements `WithdrawalPipeline` (617,501 states) | three deposits, the middle one Failed, three requests, batch size 2: a Failed deposit between two takers, a pairing window smaller than the bridge, and two rows, so that every loop over rows can stop between two |
| `bridge_restart` | *violation*, see section 6 | as `bridge` |
| `dashboard` | Indexer and monitor composed, each losing its own unflushed suffix: is a deposit only ever joined with its own request, and does a fault-free process drain everything from every state faults can lead to? | two deposits, the first Failed, and two events of one request each (300,430 states): the one deposit that takes a request must never be joined with the second event's, whichever of the two the index has lost. With no Failed deposit and one event of two requests it passes too, in 2,062,650 states; that takes longer than a run should, so it is not one of the runs |
| `deposit` | The dense cursor, rows that settle out of order, crashes; where the rows end up | three deposits: a settled one behind and before an unsettled one |
| `indexer` | Prefix, no skipped log, finality, replay, crash; is every final log indexed, as far as the first undecodable one? | four logs in three blocks: two in one block, one of two units, one undecodable; a scan from block 0, which the code takes for final even while the chain is shorter than the lag (harmless, since the genesis block has no logs), with the first log in block 1; batch of two blocks, so that ranges have seams; lag 2 on nodes and in the configuration, head up to 8 so that all of it becomes final |
| `index_db` | Several writers, kills, another denomination: are the rows and the event index of one piece, are reads runs, does nobody starve, is an insert one step? | two writers with scans that overlap, denominations 0 (the decoder panics and the process has to be started again, with this denomination or another), 1 and 2, two restarts, at most five rows (`MaxRows`, the most the events can have), reads of three rows in batches of two |
| `gate` | Lost wakeup, default status, order of answers, end of waits | two requests in flight on connections that are used again, two polls: the first opens the gate, the second changes the answer |
| `operators` | Which node ends a query; does the list follow the nodes? | three operators, one without a node and one listed twice, listed against the order of their keys; the three retries of the code |
| `queries` | Is an item settled only for good, and always in the end? (378,378 states) | two nodes listed against the order of their keys, one retry; a withdrawal that completes (settled by its last transaction, its row stays) and a reimbursement that aborts (settled by its first, its row goes); reorganisations of one block, two confirmations, three blocks (`MaxTip`): one more than it takes to bury a transaction after a reorganisation |
| `network` | Status against what the services did, outages against retries, convergence (244,232 states) | two retries, hence one delay of 0 s and one that counts; each request refused at once or timed out; all three services fail and recover freely |
| `network_total`, `network_hang` | *violations*, see section 6 | the documented policy; one retry |

The properties, in words, stand above each definition. The ones to look at
first: `PairingIsFIFO`, `NoPairingLost`, `HandoffRetained`, `OnlySettledPassed`,
`ImplementsPipeline` (`BridgeMonitor`), `PairedWithOwnRequest` (`Dashboard`),
`IndexIsChainPrefix` and `NoLogSkipped` (`WithdrawalIndexer`), `RowsMatchIndex` and
`ImplementsLog` (`WithdrawalIndexDb`), `ShownUntilSettled` (`DepositInfo`), `SettledForGood`
(`MonitorQueries`), `FailoverInOrder` (`BridgeRpc`), `NoLostWakeup` and `AnswersGoForward`
(`StatusGate`), `OutageTolerated` (`NetworkMonitor`).

Bounds: `N`, `Requests`, `L`, `MaxHead`, `MaxPolls`, `MaxTip`, `MaxRows`, `MaxRestarts` and the
sets of services and handlers are finite for TLC only. `Requests` is fixed in `bridge` while the
real index grows, but a read may stop at any row, so every smaller index is included; in
`dashboard` the index does grow. `MaxTip` bounds the chain of `queries` by switching its growth
off; a run in which the item is not deep by then is one in which `SettlesInTheEnd` promises
nothing.

`MonitorQueries` assumes `MaxReorg < MaxConfirmations`, which is what `max_tx_confirmations` is
for, and that a reorganisation makes the chain longer (the longest chain wins, so the tip
esplora reports never goes down).

## 4. Fairness

Nothing is promised while faults go on, so the `…Live` modules and `Dashboard` split a
behaviour into a stormy part (the full `Next`, no fairness) and, after `GoCalm`, a part in which
no query or write fails and the process stays up. Only that part is fair:

* weak fairness of the task's step: `tokio::time::interval` goes on ticking and tokio
  runs a future that can go on;
* weak fairness of `Flush`: sled flushes every 500 ms;
* weak fairness of block production, for the indexer (the chain goes on up to `MaxHead`), and
  of the indexer's task in `Dashboard`.

`GoCalm` itself is not fair; the properties begin with `<>calm`.
`StatusGate` has fairness for the task and for the steps the runtime takes by itself, and
none for deadlines and disconnections. `NetworkMonitor` has fairness for the task, whose
JSON-RPC requests end with their timeout; fairness of the bundler's reply is a separate
assumption (`FairSpec`), because the code has no timeout there. `WithdrawalIndexDb` has fairness
for each writer by itself, since each is a future of its own. `OperatorStatuses` and
`MonitorQueries` have fairness for the task (every request is answered, refused or timed out)
and none for the nodes and the chain: what these must do is a premise of the properties.

## 5. What is proved

For every value of the constants, under the named assumptions of the modules
(sizes are natural numbers; `Failed` are deposits; the chain's logs are ordered by block
and their offsets grow; operators have positive keys, 0 standing before all of them;
**`RpcLag <= FinalityLag`** and **`MaxReorg < MaxConfirmations`**, which the code relies on
and does not check).

* `BridgeMonitor_proofs`: the inductive invariant `IInv`, and from it `TypeOK`,
  `PairingIsFIFO`, `CursorOrder`, `NoPairingLost`, `HandoffRetained`, `NoStrandedRow`,
  `CacheBehindDisk`, `OnlySettledPassed`, `DurableProgress`. The properties speak of
  the stores; they are not inductive because a phase carries its decisions in local
  variables from the queries to the last write. `IInv` adds what those locals promise:
  `PlanSound` (planned pairings are the FIFO ones, and those no longer in `todo` are on disk),
  `WithdrawalPhaseSound` and `ReimbursementPhaseSound` (the cursor to be written passes only
  settled deposits whose rows are written), `CursorsAgree` (memory and disk differ only in
  the steps between a cursor's write and the cache update), `FlushedBehind` and
  `FailedHasNoRow`. The arithmetic core is `SeqAtIsRank`: pairing on from a cursor that is
  FIFO gives each deposit its rank among the completed ones, by `RankSplits` on
  cardinalities.
  `CandidatesContiguous` is about a read: the numbers of the withdrawal candidates must fill one
  run, or a batched read for them asks for the wrong rows. Ranks alone do not give that, since a
  pairing may be stored above a pairing cursor that a kill took back. `PairedInOrder` is what was
  missing: from the withdrawal cursor on the pairings are a run of the completed deposits, on the
  disk, in what is flushed and in the cache. `CandidatesClose` then turns the run of deposits into
  one of numbers.
  Last, `BridgeMonitor` implements `WithdrawalPipeline` (`RefinesPipeline`). By `IInv` what a store
  shows of the pipeline is a function of its three cursors (`StoreShows`), so the proof is about the
  three steps that put a cursor, `Flush` and `Crash` (`ShapeMoves`); each of the three is a stage
  (`PairingStage`, `SettlingStage`, `FinishingStage`) or leaves its cursor where it is.
* `Dashboard_proofs`, the two tasks together. A step of the composition is a step of the monitor
  or none of its own (`MonitorMoves`: reading all that the index has is one of the reads the
  monitor is ready for), hence `RunsTheMonitor`: `DashSpec => Spec`, and with it every theorem
  about the monitor. `IndexInv` says that the index holds a prefix of the chain's events, each in the
  place that the units before it leave, and that the indexer stands at one of these events or at the
  next one, so that what it inserts either is there or is the next to come (`UnitsAddUp`,
  `AppendNext`), also after a kill that took the last of them (`KillKeepsEvents`). `KeepsTheLog`:
  the index implements `WithdrawalRequestLog`. `PairedWithOwn` joins both: the pairing's number is
  the deposit's rank by `FifoPairing`, and the request under that number is the unit of that rank by
  `IndexInv`, so the deposit is joined with its own request whatever either database has lost.
  The last section is about the loops of `state.rs` (see *Loops* above). `PlanLoops` needs that there is
  such a recursive function at all (`PlanLoopExists`, built from the last index downwards) and, by
  the same induction, what it has done wherever it is entered (`Planned`, `EarlierPass`).
* `WithdrawalIndexer_proofs`: `IndexerInv`. Its core is that the index is determined by one
  number, how many logs it holds (`NextSeqIsOffset`, `InsertExtendsPrefix`), and that the
  batch still to be persisted begins at or before the first log not indexed. From it
  `IndexIsChainPrefix`, `NoLogSkipped`, `OnlyFinalIndexed` and `DurableProgress`.
* `StatusGate_proofs`: `GateInv` relates where a request stands to the flag, the waiter
  list and the notification; from it `NoLostWakeup`, `OnlyPolledServed`, `AnswersGoForward`.
* `DepositInfo_proofs`: `DepositInv` adds that the cursor on its way to the disk passes
  only settled deposits; from it all four safety properties.
* `NetworkMonitor_proofs`: `PollInv`, what a poll has found is true of what it has seen;
  from it `StatusOfThisPoll`, under every retry policy. `TimesInv` adds what the clock of a query can
  show: the delays waited for so far and at most one timeout per request sent, and of a single
  outage at least the delays since it began. The delays are rounded fractions of the total, so the
  proofs rest on lemmas about their sums: the delays before the last one never add up to more than
  the total, since what rounding adds to them is no more than the next delay (`DelaysFit`,
  `DelaysWithin`), hence `WithinBudget` for every policy. The other direction depends on the policy: rounding can take up to half a second of each delay
  (`OutagesNearlyBridged`), so `OutageTolerated` is proved under `DelaysAddUp`, that the rounded delays
  add up to the total at least (`OutagesBridged`). `retry_policy.rs`'s test asserts the sum for 15
  retries and 3600 s; it holds for the 5 retries and 60 s of the example configuration too, but not for
  every policy (5 retries and 13 s add up to less).
* `WithdrawalIndexDb_proofs`: `IndexDbInv` adds to `RowsMatchIndex` that every number below the
  one a pending call has read is in use (`CallSound`: rows are only ever added while it waits,
  so a transaction that finds its numbers free finds them to be the next ones) and that what is
  flushed is the database cut between two events (`FlushedIsPrefix`). Its core is
  `InsertKeeps`, one insert at the first free number. From it `RowsMatchIndex`, `ReadsAreARun`
  (with `FetchIsDownClosed`: a batch leaves no row out) and `ImplementsLog`.
* `MonitorQueries_proofs`: `FailoverInOrder` from `PassedOver` (a node is passed over only
  after it has been down), with lemmas that speak of `BridgeRpc` alone and so hold of
  `OperatorStatuses` too (`ListFailsOverInOrder`); and `SettledForGood`
  from `SettlingInv`: the tip that was read is not ahead of the chain, so confirmations counted
  from it are too few rather than too many (`ConfirmedIsBuried`), and what is buried stays so
  while the answer waits to be applied (`ExtendKeeps`).

`Dashboard` assumes that every event has at least one unit (`UnitsAssumption`), since `decode`
refuses an amount of zero.

*Induction.* The library's induction theorems take an operator as a parameter and cannot be used
here. The proofs that need induction go over a set instead: a set of naturals that is not empty has a
least element (`LeastNatural`, from `WFMin` and `NatLessThanWellFounded`), hence a set of indices that
holds the last one, and each one before a member, holds them all (`DownwardInduction`); the sums of
delays and of units go the same way. So what a recursive function returns is proved here too.

Only model-checked: the liveness properties `DrainsOnceCalm`, `CatchesUpOnceCalm`,
`EventuallyIndexed`, `WaitsEndOnceOpen`, `ConvergesOnceCalm`, `OperatorsConverge`, `SettlesInTheEnd`
and `StatusConverges`. They depend on fairness, and TLAPS has no ENABLED to reason about it. Every safety invariant and every action property of the
passing runs is stated by a theorem.

## 6. What was found

* `bridge_restart` (`state.rs:359-363`): a comment says that Complete withdrawals kept for
  the reimbursement stage are omitted from the response at `max_confirmations`. After a
  restart they come back with unknown confirmations, which the filter lets through, and no
  later tick asks for them again. They are shown until their reimbursement settles. The test
  `hydrates_persisted_status_snapshot` (`state.rs:838`) asserts just that of a row below the
  withdrawal cursor, so comment and test disagree.
* `network_total` (`network/src/status.rs:51`, `config/src/lib.rs:92`): the configured
  "total time to spend retrying" is not spent: delays start at `get_delay(0) = 0` and the last,
  longest one is never used; with the example's 5 retries and 60 s it is 37 s.
  `execute_with_retries` uses `get_delay(attempt + 1)` and does not have this.
* `network_hang` (`network/src/status.rs:100`, `:120`): the bundler's health request has no
  timeout; a bundler that never answers ends the polling, and the endpoint goes on serving
  the last status.

## 7. What is not modelled, and why

* *Configuration* (`config/src/lib.rs`): values are constants of the models; parsing and the
  default values are a library's work on a declaration. A changed denomination and a changed
  set of operators are covered (`index_db`; every value of `Operators`).
* *Extreme values.* `from + batch_size - 1` overflows for a batch size near 2^64, and a
  `withdrawal_pairing_batch_size` of 0 stops pairing without a message: both need a value
  nobody would configure; the other models use unbounded naturals and positive batches.
  Indices and sequence numbers at the end of their types are in `StateLoops`.
* *Delays between retries* of `execute_with_retries`: their number and order are in
  `BridgeRpc`, their lengths are those of `RetryPolicy` and decide nothing there.
* *Decoding of logs, keys, values and responses*: conversions that keep everything the
  models tell apart. What decoding decides, accepted or not and into how many units, is in
  `WithdrawalIndexDb` (`Decodes`, `Panics`, `Requests`).
* *The HTTP server, signals, the task manager*: the models let the process die at any step,
  which is more than a shutdown can do (it drops the indexer's tick at one of its queries, before
  anything is written). A panic of a task ends the process (`Panic` in `WithdrawalIndexDb`).
* *Frontend*: it keeps no state that the backend depends on.

## 8. Plan

Done: every task and store of the backend, the composition of the two that share the index,
the loops that move the cursors; two refinements, the monitor inside the composition, every safety
property and the loops proved. Left, in this order:

1. The safety cores of the liveness properties: that each step of a calm process either moves a
   measure down or has nothing left to do, which needs no fairness and is what the `~>` rest on.
2. Type correctness as a theorem of its own for `OperatorStatuses`, whose proof does without it.
