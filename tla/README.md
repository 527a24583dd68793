# robinhood-arb: verification

TLA+ models of this repository: its live research runtime, the commands that
read the node, the replays, the feed, the quotes and the reports; the TLC runs
that check them and the TLAPS proofs about them. Paths are relative to
`src/crates/` unless they start with `docs/`.

## 1. The system

The program reads a chain (chain id 4663) through one RPC endpoint, keeps what
it read in one SQLite database, derives from each block the state of a fixed set
of pools and the two-leg arbitrage candidates in it, simulates the candidates
over RPC and reports. It sends no transaction. One `run` process works on a
database at a time (a lock file beside it); the other commands take no lock.

| Part | Code | State it keeps | Operations |
|---|---|---|---|
| Live runtime | `arb-app/src/runtime.rs` | a `Pipeline` in memory | open, poll, fetch, commit, replay_committed, recover, initialize, checkpoint |
| Recovery plan | `arb-app/src/recovery.rs` | the plan, stored as a job | build, load, execute |
| Pipeline | `arb-app/src/pipeline.rs` | the pool state, `paused` | process_records, process, process_timed |
| Replays | `arb-app/src/replay.rs` | the timeline and the pending parts | replay_chain, replay_observed, replay_checkpoint |
| Store | `arb-adapters/src/store*` | tables: raw_records, source_cursors, ingest_gaps, derived_blocks, checkpoints, recovery_jobs, simulations, feed_* | one transaction per method |
| Simulation queue | `arb-app/src/simulation_queue.rs` | bounded channel, running jobs | submit, dispatch, run_job, shutdown |
| Collection commands | `arb-app/src/ingest.rs` | none | collect, collect_feed |
| RPC source | `arb-adapters/src/rpc.rs` | rate limiter | fetch_block, latest_position, request |
| Bootstrap | `arb-adapters/src/bootstrap.rs` | the snapshot it is putting together | bootstrap |
| Discovery | `arb-adapters/src/discovery.rs`, `store/catalog.rs` | table pool_registry | discover, insert_pool, read_pools |
| Simulation over RPC | `arb-adapters/src/simulation.rs` | none | simulate, parse_result |
| Feed | `arb-adapters/src/feed.rs` | none | connect, receive, decode |
| Assembly, decoding | `arb-adapters/src/assemble.rs`, `decode.rs` | none | pure |
| State | `arb-core/src/state.rs` | `StateView` | from_bootstrap, apply_block |
| Quotes, routes | `arb-core/src/protocol`, `route.rs`, `opportunity.rs` | none | pure |
| Reports | `arb-research/src`, `arb-app/src/report.rs` | none | pure, read-only |
| Wallet facts | `arb-adapters/src/wallet.rs`, `arb-core/src/wallet.rs` | none | fetch, classify |

How they interact: `run()` owns the runtime and the simulation queue and calls
the node; the runtime and the pipeline write the store; the queue's workers
write the store from other threads while the runtime does; the feed collector
and the reports are other processes over the same database. What one part hands
to another is a database row, and what survives a crash is exactly the rows.

What is hard here:

* the node's branch can change between any two requests, also inside a recovery;
* the process can die between any two transactions, and the next one has only
  the tables to go on;
* a recovery is a sequence of transactions that must look like one switch to
  readers, and be resumable from any point of it;
* simulation results arrive late, out of order, after a stop or after their
  block was retracted;
* pools become unproven and are bootstrapped again, so the same block can be
  reached with different states;
* an answer that is put together from several requests can be of two branches,
  also when the requests before and after agree;
* the pools a database knows are written once, while the branch they were
  launched on can be left;
* an observed replay sees records of several observers, whose clocks run back,
  in parts, late, and of blocks that lost.

What makes each part correct:

* runtime and recovery: published blocks are one branch, the cursor's; a crash
  anywhere leaves a database a restart can continue from; a block is retracted
  only by a recovery; the runtime catches up;
* store: cursor, gaps, checkpoint and job agree with each other;
* queue: every admitted candidate gets exactly one final row; a validated
  simulation is of a published block; a stopped run leaves no open row;
* feed: no sequence number disappears without a gap row;
* collection: a stored bundle is one block's, the stored blocks are one branch;
* discovery: every pool of the published branch is registered;
* bootstrap, simulation, wallet facts: the answer is of the one block it names;
* replays: a row is dated with the moment at which its block was known, an
  outcome is known when its receipt is, and no side of a fork is guessed;
* state: the tracked liquidity is the chain's, and what a snapshot no longer
  proves is not quoted;
* quotes and routes: rounding never favours the trader, and an accepted amount
  pays its costs and leaves its profit;
* reports: whenever one opens it is of the published branch and nothing else.

## 2. Plan

1. `ForkTree`, `RuntimeStore`, `RuntimeEngine`, `PublishedChain`: the runtime
   and its recovery, refinement of the published branch, first proofs. **Done.**
2. `SimulationStore`, `SimulationQueue` over `PublishedChain`: candidates, late
   results, shutdown and restart, and the proofs of the safety properties.
   **Done.**
3. `FeedStore`, `FeedCollector`: durable sequence, gaps, conflict rollback,
   reconnection, several collectors, and the proofs of the safety properties.
   **Done.**
4. `NodeReads`, `CollectCommand`: answers put together from several requests
   while the node moves, the collect command over its cursor, and the proofs of
   its safety properties. **Done.**
5. `PoolRegistry`, `BootstrapRead`, `NodeQueries`, composed in `NodeClients`:
   the other readers of the node, over several runs and recoveries, and the
   proofs. **Done.**
6. `StoredReplay`: both replays of stored records, and the proofs. **Done.**
7. `TickQuote`, `PoolTracking`, `RouteSearch`: the state of a pool against the
   chain's, quotes, depth and routes. **Done.**
8. `ResearchReport` over the queue's tables: what a report sees. **Done.**
9. The runtime for every tree of blocks: what is published, what a restart and
   a pending job find, and the step refinement `RuntimeEngine` =>
   `PublishedChain`; the lone collector of a reliable relay; the tracked pool,
   its quotes and the search over it (`PoolMarket`). **Done.**
10. The report, for any branch and any samples on it. **Done.**

## 3. Modules

### ForkTree

A block hash commits to all the blocks below it, so a block is modelled as its
history, a sequence of branch choices: `Number` is the length, `Parent` the
sequence without its last element, and equality of values is equality of hashes.
`Block` is a finite, prefix-closed set of histories, a constant.

### RuntimeStore

The tables as variables, and one operator per transaction. A crash falls between
operators, never inside one, because each is one SQLite commit.

| Variable | Table |
|---|---|
| `raw` | `raw_records`: the blocks whose bundle is stored |
| `cursor` | the `rpc` row of `source_cursors` |
| `gaps` | `ingest_gaps` with `resolved = 0` |
| `derived` | `derived_blocks`, with the canonical flag and the pools of the derived state |
| `checkpoints` | `checkpoints` in id order; the last is the row `runtime_checkpoints` points to |
| `job` | the pending row of `recovery_jobs` with its plan |

One research run uses the database. Row encodings, size budgets and hash checks
of the plan are left out; plans are compared by value.

### RuntimeEngine

One action per stretch of code between two points where it can stop. `pc` names
the point. Beside the process, `Extend` and `Reorganise` move the node's head
(external code), and `Crash`, `Stop`, `RequestFails`, `DiskRefuses` are the
faults. `run()` ends in `Exit`, which clears everything volatile; `Open` is the
next process.

| Action | Code |
|---|---|
| `Open` | `RuntimeEngine::open`, up to the pending recovery, if there is one |
| `ReplayCommitted`, `Checkpoint` | `replay_committed` for one block |
| `Poll`, `Sleep`, `Fetch` | the loop's poll and `fetch_block` |
| `Commit`, `CommitGap`, `Process` | `commit`: comparison, raw append, publication |
| `Bootstrap` | `source.bootstrap` and `initialize` |
| `FindAncestor`, `BuildPlan`, `AppendReplacement` | `recover`, one fetch or commit each |
| `Begin`, `ReplayStep`, `Finish` | `RecoveryPlan::execute`, one commit each |

A state is the block it is at and the state of all its pools, a member of the
constant set `Pools`, and two derivations of a block are compared by all of it,
as `process_timed` does. What the pools are is a constant too: `Apply` is what
the events of a block make of them, `Fresh` what a bootstrap at a block may read
(a set, never empty: words are read around the price, by a node that may
answer differently), and `Pending` the pools of which one is not proven, after
which `run()` bootstraps again. The set of pools stays: a bootstrap of a run that
has a pipeline reads the pipeline's own (`runtime.rs:581`). `Rejected` are the
blocks `apply_block` refuses, which depends on the events and the descriptors
and so on the block alone, and `PoolBlock` those that create a pool.

`MCRuntimeEngine` gives the runs one pool that keeps the words of the bitmap it
has read: blocks that cross into another word leave it Pending if that word was
not read, an edit of its liquidity drops the words, a bootstrap reads the word of
the price. In `runtime_safety` the price leaves its word and comes back, so a
block can be derived twice, Pending both times and with other words.

### PublishedChain

The abstract specification, as the readers of `derived_blocks` see it: one
branch is published block by block; a switch retracts all that is not common at
once and is announced until its last block is published. `RuntimeEngine`
instantiates it with the canonical rows and the pending job's last block.

Beside the branch it keeps the blocks that were ever published: outside a switch
only a block that never was published is added, a retracted one comes back by a
switch only.

### SimulationStore and SimulationQueue

The queue is composed with `PublishedChain`, not with the whole runtime: what
its rows depend on is which blocks are canonical and whether a recovery is
pending, and `ImplementsPublishedChain` shows that the runtime changes these
only as `PublishedChain` does. `SimulationStore` is the `simulations` table and
one operator per transaction that writes it, also of those that belong to the
runtime (`Retract` is `begin_recovery`, `CompleteSwitch` the end of a recovery).
A row is its phase, whether it has a result that confirms the candidate
(`proven`) and its two flags; the outcomes are not told apart.

| Variable | Code |
|---|---|
| `process`, `todo` | where `run()` is; the candidates it has still to submit |
| `submitter` | the `submit` that awaits its insert, with its permit |
| `channel`, `dispatcher`, `job` | the bounded channel, the worker task and its `JoinSet` |
| `writes` | the inserts and saves that run on blocking threads |
| `simulated` | history: the candidates the node was asked about |

| Action | Code |
|---|---|
| `PublishBlock`, `SwitchBranch`, `RestoreBlock`, `FinishSwitch` | the runtime; after a block or a recovery the candidates of the last block are submitted, after a replayed block they are not |
| `Start`, `StartQueue`, `EndOfWork`, `Exit` | `run()`: open, interrupt and new queue, `select!`, end |
| `Submit`, `CommitInsert` | `submit` up to its await, `insert` and the send |
| `Take`, `Call`, `CommitSave`, `Join` | `dispatch` and `run_job`, one await each |
| `Drained`, `DrainTimeout`, `Interrupt` | `shutdown` |
| `Crash`, `WriteFails`, `DiskRefusesSave`, `InterruptFails` | faults |

An insert or a save is in `writes` from the moment its thread is asked for until
it commits: dropping or aborting the task that awaits it leaves it there, as
`spawn_blocking` does. `Exit` drops what has not committed, because the executor
waits for threads that run and drops those that were never started; the first
are the behaviours in which they commit before `Exit`. Deadlines are choices: a
job may have expired whenever it is taken, a call may be answered or run into
its deadline at any moment.

### FeedStore and FeedCollector

`FeedStore` is the feed's tables and `append_feed`. A transaction is a working
copy, `tx`, that takes one message of its packet after the other; it begins with
the write lock, so there is one at a time, and only its commit changes the
tables. Beside them `first` keeps the number the observation began with: the
code has no such row, and it is what "every number" starts from.

| Variable | Code |
|---|---|
| `seen`, `gaps`, `next` | `feed_seen`, `feed_gaps` in id order, `feed_cursors.next_sequence` |
| `kept` | the messages of the `feed-frame-v1` rows in `raw_records` |
| `requested`, `packet`, `count`, `reconnects` | the session's request and the locals of `collect_feed` |
| `head`, `reliable`, `position` | external: what the relay has, whether it keeps it, and what it sends next in a session |

| Action | Code |
|---|---|
| `Start`, `Connect`, `Receive`, `Reconnect`, `GivesUp` | `collect_feed` up to a packet; every `timeout` may be over at any moment, and what `decode` refuses is an error of `receive` |
| `Begin`, `AppendMessage`, `Conflict`, `Commit` | `append_feed` on its thread, and the count of frames |
| `AppendFails`, `Crash` | no lock or no disk before the transaction; a kill anywhere |

The relay may send any message it has, again, late, out of order or with another
content, in packets of any length, also none (a confirmation). Or it is
`reliable`, a choice of `Init`: then it sends in order from the number asked
for; asked for none, it starts where it will. Each collector is a process:
nothing keeps a second one from the same database. The digest of a message
stands for its content; run identifiers, frame numbers and payloads are left
out.

### NodeReads and CollectCommand

`RuntimeEngine` takes the block it fetches and the snapshot it bootstraps from
as one step each. This module and the next are about what is inside such a step.
`NodeReads` is the endpoint: it answers one request at a time, each from the
branch that is its own at that moment, and may change the branch between any
two. A transaction is a member of a set that the blocks of both branches share,
since a switch puts most transactions back; `Logging` says which of them leave
logs. With `returns` false, a choice of `Init`, the node never comes back to a
block it left.

| Action of `CollectCommand` | Code |
|---|---|
| `Run` | `collect`: the start from the stored cursor |
| `AskBlock`, `AskReceipts`, `AskLogs`, `AskEnd` | the requests of `fetch_block` in their order; `AskLogs` also validates (`Valid`), `AskEnd` also compares the parent |
| `AskFails` | `request`: no answer after the last retry, or an answer that is an error |
| `WriteBatch`, `WriteGap` | a command to the writer thread and its acknowledgement |
| `Crash` | a killed process or a refused write |

The height is asked for by number for the block and its receipts, and by hash
for the logs, which is why receipts come from the branch of the moment and logs
from the block. The node may leave out any part of an answer. The command sends
one command to the writer and waits for it, so the channel between them holds
one at most and is not modelled. `docs/operations.md:36` asks the operator not
to run collection commands beside each other on one database; one command runs
at a time here, any number one after the other.

### PoolRegistry and BootstrapRead

`PoolRegistry` is the table of pools and what fills it: `discover` over the
receipts of a block, in the transaction that appends the block, and the
replacements of a recovery. A pool is launched by three events, which `discover`
wants in one transaction and the contracts (`Live`, external) have seen on the
branch at all; `Launches` gives the events of each block. A row is written once.
`AppendBranch` is a recovery that ends: the replacements, one transaction each,
and the switch of the cursor. `AppendPart` is one that ends early, after any
number of these transactions: the rows of those blocks are there, the cursor is
where it was, and `gap` says that the gap is open. A node that goes back to the
old branch then makes the next block a plain append, any other one a recovery.
Between two of the transactions nothing else in the process runs, and what a
command beside it would find is the state after `AppendPart`.

`BootstrapRead` is `run()` as far as it concerns the pools that are followed,
and `bootstrap` request by request: the header of the number, the code, `Words`
calls for each pool in order, the header again. A word is the block it was
answered from. The first calls for a pool (`Asked`) are to the factory, the hook
and the manager, and `ReadWord` refuses a pool one of them does not know at the
block it is answered from; the answers after them, the liquidity and the words of
the bitmap, say nothing of a launch and are taken as they come. What else makes a
word implausible is data; `Fails` may happen anywhere.

| Action | Code |
|---|---|
| `CollectBlock` | a block is committed; without a pipeline the registered pools are read at it, with one its own are, if the block left one unproven (a choice) |
| `RecoverBranch` | `recover`, to its end or a part of it: the switch may cross any snapshot of the run but the first, `snapshot.first` |
| `NewRun` | the next process has another `run_id` and so no checkpoint |
| `Header`, `Code`, `ReadWord`, `End` | `bootstrap` |

### NodeQueries

`simulate` of a candidate and `wallet_facts` of a transaction, one action per
request. Only the requests that name or return a hash tell which branch they are
of: the simulated call names a number and its reply the parent it was made on
(`Parsed`), a receipt names its block, balances and code name nothing.

### NodeClients

The composition of the readers of the node. They are commands and tasks that
share nothing but the node, so a behaviour has one of them, chosen in
`ClientInit`; the node is the shared environment. `ClientsCollect` (section 5)
says that the composition implements `CollectCommand` alone.

### StoredReplay

`raw_records` in id order, filled by collectors (`AppendBundle`: the records of
a bundle with a time each), and the two replays over it. A behaviour has one
kind; each has a research run, and so rows, of its own. `Start` is the
checkpoint's block and `after` its `last_raw_id`: an observed replay reads the
records after it, so the records of blocks that were stored before the
checkpoint are invisible to it, also when the blocks are above it (`MaxPrior`),
and the replay then ends with an error.

| Action | Code |
|---|---|
| `BeginChain`, `ReplayHeight`, `EndChain` | `replay_chain`, one height a step |
| `BeginObserved` | `replay_observed` up to its loop, with `ObservedReplay::new` |
| `Advance` | `ObservedReplay::advance` to the next time and the look at each record |
| `Apply` | one turn of the inner loop |
| `EndObserved` | the check of the height |
| `Crash`, `Fails` | a kill, an error: only the rows stay, and the replay may be run again |

A part of a block is present or not: `assemble_block` is `Whole`, all kinds of
one observer. The field `read` of a row is a history variable, the records the
replay had read when it wrote the row. `AppendBundle` is not enabled inside an
observed replay, which reads its records before its first step.

### TickQuote, PoolTracking, RouteSearch and PoolMarket

`TickQuote` is `quote` and `quote_depth` of `verified.rs` over scaled-down
widths: `Q` for 2^96, words of `WordSize` bits, `SqrtAtTick` any increasing
table. Checks of width are against `MaxWord`, so they happen.

`PoolTracking` has the chain's own pool (positions, price, fees; external)
beside the state the program tracks. `Swap`, `ModifyLiquidity` and
`SetProtocolFee` put events in the block being built; `ApplyBlock` is
`apply_block` over all of them, with what takes the proof of a pool away;
`Bootstrap` reads the chain at the end of a block. The properties compare the
two.

`RouteSearch` is `route_candidates` over lists of descriptors and `evaluate`,
`scan` and the cost conversion over pairs of pools. They are functions; `asked`
is what they are asked about, so that a run goes through all lists and pairs.
`PoolMarket` puts the two beside each other: a view is asked about before the
tracked pool takes a step, and neither touches the other's variables.

### ResearchReport

`export_report` and the windows of `summarize_opportunities` as operators over
`PublishedChain` and `SimulationStore`. `open_report` reads everything in one
transaction whose first statement pins the snapshot (SQLite's, external), so a
report is a function of the one state in which it was opened, and the property
is asked of every state of the queue's run: between any two steps of the
runtime, the queue, a recovery and a crash. The code's sort by height is
`Place`, the number of samples before one; the windows are a fold over the
samples in that order.

## 4. Runs

Deadlock is checked everywhere (an idle runtime polls).

| Run | Configuration | Shows |
|---|---|---|
| `runtime_safety` | `RuntimeSafety` | the safety properties and the refinement of `PublishedChain`, with a pool that blocks leave Pending and bootstraps prove again, three switches and two faults |
| `runtime_liveness` | `RuntimeLiveness` | that the runtime comes to rest, and with what published; that no replay is refused when no block leaves a pool Pending; start at the head, late pools, a short lookback and a refused block: the paths that end in a pause |
| `runtime_idempotence` | `RuntimeIdempotence` | the first violation of section 6 |
| `queue_safety` | `QueueSafety` | flags, ends and owners of the rows with two workers, a channel of one, switches in both directions and a fault; and the report opened at any moment of it |
| `queue_liveness` | `QueueLiveness` | every admitted row ends |
| `queue_stop` | `QueueStop` | the second violation of section 6 |
| `feed_safety` | `FeedSafety` | numbers, gap rows and digests agree, whatever two collectors are sent; a reliable relay leaves no gap, over a reconnection, crashes and restarts |
| `node_clients` | `NodeClients` | what collect, a run, a simulation and the facts of a transaction return is of one block and one branch; a collect command ends |
| `bootstrap_returning` | `BootstrapReturning` | the third violation of section 6 |
| `registry_orphans` | `RegistryOrphans` | the fourth violation of section 6 |
| `replay` | `Replay` | both replays, over forks, late parts, clocks that run back, crashes and second attempts |
| `market` | `Market` | the tracked pool against the chain's, quotes, depth, routes and accepted amounts |

Bounds of the runtime. The tree has a main branch of five blocks, a branch that
leaves it above the first block and one above the second: reorganisations of
depth one to three, nested ones (a second switch during the recovery from the
first), and a branch that is left and comes back. Three switches allow all of
these in one behaviour; two faults allow a crash in a recovery and another in
the recovery from it. Longer chains repeat these cases: every comparison in the
code is between a block and its parent or between two heights.

Bounds of the queue. Two blocks on one parent let a block leave the branch and
come back; switches and restarts are not bounded, since the state they act on is
finite. With three candidates, one place in the channel and two workers a
candidate meets a full channel, a full set of tasks and an empty one, while
another is on its way at each of its awaits. One fault falls at every step. The
liveness run has one worker and two candidates, which is enough for a full set
of tasks with a job behind it.

The report needs a route over two blocks on one side and one with a block
without it on the other: a window of two blocks, and two windows apart.

Bounds of the feed. Four numbers and packets of two let a packet jump over one
or two numbers, go back, repeat itself, and meet a conflict as its second
message, after a gap row or a digest of its first; restarts and crashes are not
bounded. Two digests are a content and another one. While two collectors work at
once (`SharedIsSmall`) there are three numbers, one message in a packet, no
other content and no reconnection: one moves the cursor twice while the other
holds an older one, and what a lone collector does in those cases is checked in
full.

Bounds of the node's clients. Two branches of three and four blocks, where each
branch has a block with the transactions of the other's, one of them with other
logs, one transaction at different heights, and blocks without any: receipts of
the other branch can look right in all but their block. One pool is launched
below the fork, one on the first branch only, with an event of it on the second,
one on both at different heights. Four calls for a pool, three that ask of its
launch and one that does not, let the node switch before, between and after
them, three pools between two pools. Switches, commands, runs, queries and
crashes are not bounded. `CollectSeesAll` leaves out collect over a node that
does not come back: that node's behaviours are among those of one that may.

Bounds of the replays. Two heights above the checkpoint with a fork at each, two
kinds of records, two observers, two times, six records (three bundles), two of
which may be older than the checkpoint. A bundle late, a block known to one
observer before the other, a second whole block in the same moment, later, or
below the view, and a clock that runs back all need three bundles at most;
restarts and crashes are not bounded.

Bounds of the market. Seven ticks two by two and words of two bits: four words,
so that a price crosses a tick inside a word, a word's end, and leaves the words
that were read. Three ranges share ends, so that a tick stays initialized when
one of its two ranges is emptied. Blocks have two events at most. Lists of up to
four of six descriptions hold every order of an agreement and a conflict. Every
pair of 76 pools is tried with every amount up to `MaxAmount` and five costs.

Properties worth a comment:

* `PublishedFollowsCursor` relates the canonical flags to the cursor after any
  sequence of switches and crashes, and is what the reports rely on.
* `RestartCanReplay` says that `replay_chain` meets neither a gap nor an
  ambiguous fork, although the raw records of abandoned branches stay.
* `PendingJobIsComplete` makes the stored plan enough by itself: the process
  that executes it may never have seen the blocks.
* `OnlyRecoveryRetracts` is an action property: what no single transaction may
  do.
* `ImplementsPublishedChain` is the refinement.
* `EventuallyCaughtUp` assumes `WF(Engine)` (a process that runs makes progress,
  `run()`'s awaits all have timeouts) and `WF(Open)` (a process that ended is
  started again: `docs/operations.md:66` has systemd restart it after a crash
  and the operator after a pause). Nothing is assumed of the node. Faults are
  bounded, so the property is about what happens when they are over. It then
  rests in one of three ways, and in none of them with a recovery half done:
  - `Asleep`: the node has no further block. What the pipeline stands on is the
    cursor's block; when the node has switched to a branch no longer than the
    stored one, that is the old branch, published whole.
  - `Paused`: the gap is recorded and there is a reason a restart cannot remove:
    the switch crosses the first snapshot (`Stranded`), is deeper than the
    lookback (`TooDeep`), where the documents ask for a manual bootstrap, or goes
    over a block the state refuses (`RefusedAhead`). The old branch is published
    whole here too, up to the cursor's block.
  - `StopsBelowRefused`: `commit` stored a block before the state refused it;
    the pipeline stands right below that block, which every restart meets again.
  Without any one of these the run has a counterexample.
* `ValidatedIsPublished` and `FlagsFollowChain` relate the rows to the branch
  through every order of answers, switches and restarts; the first says that
  nothing is counted too much, the second also that nothing is forgotten.
* `OpenRowsAreOwned` is why `submit` takes the permit before it inserts.
* `EndedRowsAreFinal` and `SimulatedOnce` are about writes that come late and
  candidates that are submitted again.
* `EverySequenceIsExplained` and the theorem `GapRowsAreApart` together are what
  the feed is for: each number is accounted for, and once.
  `ObservationIsHistory` says that later messages do not rewrite that account.
  Numbers below the first observed one are no gap, also when one of them comes
  later.
* `ReliableRelayLeavesNoGap` is about one collector (two that both ask for no
  number may be started at different ones), and is why `next` is read from the
  database at every connection, and not kept by the process.
* `BundleIsOneBlock` is what the five requests of `fetch_block` are for, and
  `StoredIsOneBranch` what the parent check is for, also across commands.
* `OpenGapsAreMissing` is how a gap is closed: with the block of its height, in
  the transaction that stores it.
* `EveryCommandEnds` assumes `WF(Command)`: every request has a timeout and a
  limit of retries, and every write ends or is refused. It assumes nothing of
  the node.
* `SteadySnapshotIsOfOneBlock` and `AnswersAreOfOneBlock` compare blocks, not
  values: words of two blocks may happen to be equal. The facts of a transaction
  are held to it while the node does not come back, as the snapshot is; a
  simulation also when it does, since the reply names the block it was made on.
* `RegistryKnowsBranch` and `FollowedPoolsAreLive` are two sides of the
  registry: no pool of the branch is missed, and none of another one gets into a
  snapshot, although its row is there (section 6).
* `DetectedWhenKnown` is what "observed" means: neither later than the moment at
  which the block and all below it were whole at some observer nor earlier,
  judged from the records that were read, not from the replay's variables.
* `NoForkIsGuessed` is about replays that end: one that meets both sides fails,
  in whichever order, also when the other side's last part comes after its
  height was applied.
* `QuoteCrossesNoTick` compares a quote with the chain's positions at that
  moment, not with the bitmap it was made from.
* `RoundTripNeverGains`, `DepthIsInside` and `ProfitIsReal` are about the
  direction of every rounding.
* `ReportIsOfTheBranch` is `report_bounds`, the gap count and the windows
  against the published branch, stated without the fold.
* `EveryRowEnds` assumes that a write that runs ends (SQLite waits five seconds
  for a lock, then fails), that a call has its deadline, that tasks are
  scheduled, that a shutdown and an open finish, and that a process that ended
  is started again. It does not assume that a run ends, that a drain uses the
  time it has, or that anything is published. It names two exceptions, both
  until the run ends: the row whose own save failed stays as it is, since its
  task is not joined before all places are taken; and then the dispatcher ends
  and drops its queued jobs, whose rows stay Queued while `run()` goes on.

## 5. Proofs

| Module | Theorem | States |
|---|---|---|
| `RuntimeEngine_proofs` | `TypeCorrect` | `Spec => []TypeOK` |
| | `GapsAreExplained` | `Spec => []GapsExplainPauses` |
| | `CursorIsMonotonic` | `Spec => CursorNeverRewinds` |
| | `PublishedIsTheCursorsBranch` | `Spec => []PublishedFollowsCursor` |
| | `RestartReplays` | `Spec => []RestartCanReplay` |
| | `JobsCanBeResumed` | `Spec => []PendingJobIsComplete` |
| | `RetractionsArePlanned` | `Spec => OnlyRecoveryRetracts` |
| | `RuntimeImplementsChain` | `Spec => ImplementsPublishedChain` |
| | `ReadersSeeOneBranch` | `Spec => [](Published!OneBranch /\ Published!NoHoles)` |
| | `RefusedReplaysFollowPendingRows` | `Spec => []RefusalNeedsPendingRow` |
| | `ReplaysAreIdempotent` | `Spec => [](NeverPending => ReplayIsIdempotent)` |
| `PublishedChain_proofs` | `OneBranchWithoutHoles` | `Spec => [](OneBranch /\ NoHoles)` |
| `SimulationQueue_proofs` | `TypeCorrect` | `Spec => []TypeOK` |
| | `ValidationsAreCurrent` | `Spec => []ValidatedIsPublished` |
| | `FlagsAreExact` | `Spec => []FlagsFollowChain` |
| | `RowsHaveOneOwner` | `Spec => []OpenRowsAreOwned` |
| | `EndsAreFinal` | `Spec => EndedRowsAreFinal` |
| | `CallsAreNotRepeated` | `Spec => SimulatedOnce` |
| | `ReportsAreOfTheBranch` | `Spec => []ReportIsOfTheBranch` |
| `FeedCollector_proofs` | `TypeCorrect` | `Spec => []TypeOK` |
| | `NothingVanishes` | `Spec => []EverySequenceIsExplained` |
| | `GapRowsAreApart` | `Spec => []GapsAreApart` |
| | `FramesAgreeWithSeen` | `Spec => []FramesExplainSeen` |
| | `HistoryStays` | `Spec => ObservationIsHistory` |
| | `OneByOneMissesNothing` | `Spec /\ []OneAtATime => []ReliableRelayLeavesNoGap` |
| `NodeClients_proofs` | `TypeCorrect` | `Spec => []TypeOK`, `Spec` of `CollectCommand` here and below |
| | `BundlesAreWhole` | `Spec => []BundleIsOneBlock` |
| | `OneBranchIsStored` | `Spec => []StoredIsOneBranch` |
| | `GapsAreMissing` | `Spec => []OpenGapsAreMissing` |
| | `CollectedIsKept` | `Spec => CollectedStays` |
| | `ClientsCollect` | `ClientSpec => Spec` of `CollectCommand` |
| | `ClientTypesCorrect` | `ClientSpec => []ClientTypeOK` |
| | `ClientsStoreOneBranch` | `ClientSpec => []StoredIsOneBranch` |
| | `AnswersAreWhole` | `ClientSpec => []AnswersAreOfOneBlock` |
| | `RegistryIsComplete` | `ClientSpec => []RegistryKnowsBranch` |
| | `SnapshotsAreWhole` | `ClientSpec => []SteadySnapshotIsOfOneBlock` |
| | `FollowedPoolsWereLaunched` | `ClientSpec => []FollowedPoolsAreLive` |
| `StoredReplay_proofs` | `ReplayTypesCorrect` | `Spec => []TypeOK` |
| | `ForksAreNotGuessed` | `Spec => []NoForkIsGuessed` |
| | `StatusesAreOfTheTime` | `Spec => []StatusIsOfTheTime` |
| | `RowsAreDatedWhenKnown` | `Spec => []DetectedWhenKnown` |
| `PoolMarket_proofs` | `LiquidityAddsUp` | `Spec => []LiquidityIsActive` |
| | `CheckpointsReload` | `Spec => []CheckpointReloads` |
| | `QuotesCrossNoTick` | `Spec => []QuoteCrossesNoTick` |
| | `RoundTripsLose` | `Spec => []RoundTripNeverGains` |
| | `DepthsAreInside` | `Spec => []DepthIsInside` |
| | `MarketTracks` | `MarketSpec => Spec` of `PoolTracking` |
| | `RoutesArePairs` | `MarketSpec => []RoutesAreThePairs` |
| | `ProfitsAreReal` | `MarketSpec => []ProfitIsReal` |

They hold for every tree of blocks that satisfies `BlockAssumption` and all
constants that satisfy the assumption of their module: `EngineAssumption` (what a
bootstrap reads is not Pending: `bootstrap.rs:246` sets another verification);
`CandidateAssumption`, `QueueAssumption` and `ReportAssumption` (a block has
finitely many candidates); `FeedAssumption` and
`CollectorAssumption`; `NodeAssumption`, `BundleAssumption` and
`CursorAssumption`, and beside them `LaunchAssumption`, `ReadAssumption` and
`QueryAssumption` in the composition (that `None` is no block, bundle, cursor or
transaction, that nothing is launched in the root, and that a pool takes the
three calls about its launch); `ReplayAssumption`;
`QuoteAssumption` (the price table grows with the tick, fees are at most the
whole), `TrackingAssumption` (finitely many ranges, each of ticks on the
spacing, in order) and `SearchAssumption` (prices above zero, liquidity, costs
and rates natural numbers, a list is a sequence of anything). So they hold
without a bound on switches, faults, lookback, candidates, capacity, workers, sequence numbers, collectors, the length of a packet, the transactions
of a block, pools and their words, observers, their clocks, the records of a
bundle, the heights replayed, the widths, ticks, ranges and fees of a pool, the
events of a block or the length of a list. `ForkTree_proofs` holds the facts about blocks
and sequences they cite.

The inductive invariant of the runtime, `Inv`, adds to the types which volatile
variable is set at which point of the code (`ControlInv`), that a plan names an
existing checkpoint and is the pending job while it is executed (`PlanInv`), and
that every part of an operation agrees on one height, the cursor's
(`HeightInv`): the block fetched, the last replacement, the end of the plan and
the end of the pending job. `TypeOK` alone is not inductive because the actions
use `incoming`, `pipe` and `plan` without asking; `GapsExplainPauses` and
`CursorNeverRewinds` are not because `Finish` writes the height of the pipeline
into the cursor and resolves the gap of that height, which are the right ones
only because the plan ends there. One lemma per action shows it preserves `Inv`.

What is published needs a second layer, `BranchInv`, which takes `Inv` for
granted. `PublishedFollowsCursor`, `RestartCanReplay` and `PendingJobIsComplete`
speak of the database only, and none of them is inductive, nor are they
together: a commit is right because of what the process that makes it holds.
Half of `BranchInv` (`StoreInv`) is about the rows: the cursor's block is stored
and nothing stored continues it (`CursorInv`), derived blocks are above the
first checkpoint (`RowInv`), the last checkpoint is the cursor's block or its
parent (`CheckpointInv`), and while a job is pending the branch is published up
to the ancestor and a first part of what is replayed (`JobInv`). The other half
(`ProcessInv`) is about each point of the code: where the pipeline stands
(`PipeInv`), that the replacements walk down a branch that is not the stored one
(`WalkInv`), that a plan not yet committed retracts what is above its ancestor
and names no block that will not be stored by then (`DraftInv`), and that the
pipeline follows the replay (`ReplayInv`). A crash forgets the second half and
needs nothing but the first. `OnlyRecoveryRetracts` follows from both.

`RuntimeImplementsChain` maps each step: `Begin` of a recovery to `Announce`,
a published block to `Publish`, a replayed one to `Restore` or, if it was
published already, to nothing, the last step to `Complete`, and every other
step changes neither `derived` nor `job`. `ReadersSeeOneBranch` carries
the invariant of `PublishedChain` back, by the same two lemmas about a branch
(`ExtensionIsBranch`, `TruncationIsBranch`).

`ReplayIsIdempotent` is not a property of every runtime: section 6 has the
behaviour that breaks it. Two theorems say what is left of it.
`RefusedReplaysFollowPendingRows`, for all constants, whatever the pools are and
whatever a bootstrap reads: a replay is never refused because blocks are missing,
out of order or not applicable, but only over a block that was derived before,
with other pools, and whose parent's row has a Pending pool. `ReplaysAreIdempotent`: it is
never refused as long as no block leaves a pool Pending that was not, which is
the case `runtime_liveness` checks and the documents describe.

Both need to know where the pools of a state come from (`OriginInv`). A state at
a derived block, in a checkpoint or in the pipeline, has the pools of that
block's row, or the row has a Pending pool and a bootstrap replaced them
(`Known`); one at a block without a row has those of the first bootstrap. A row
has what `Apply` makes of its parent's row, or that has a Pending pool
(`Continues`). So a derivation of a block that starts from the row
below it is the stored one, and one that differs started, or the stored one did,
from a bootstrap over a Pending row. That two bootstraps at one block may read
different pools is allowed throughout.

For `PublishedChain` the invariant is the statement itself. Its two lemmas are
the two ways the branch changes: a block is added on top, or the branch is cut
at an ancestor.

For the queue, all safety properties follow from one inductive invariant. None
of them is inductive alone: that a row which has ended stays as it ended depends
on which saves can still run (`SaveInv`: one per candidate at most, and over a
row that is open or interrupted), which depends on what each task has done
(`JobInv`), and that on the channel holding a job once and untouched
(`ChannelInv`). `SubmitInv` says that the insert `run()` awaits is the only one
and agrees with its permit, without which a new Queued row might not be sent.
`FlagInv` speaks of every row, not only the finished ones: the flags an
interrupted row got while it was running must be right too when a recovery
refreshes it. The model checker confirmed the invariant on the small instance
before it was proved.

The report takes two facts from the queue's steps: the flags of the rows, from
`Inv`, and that the published blocks are a branch of bounded height
(`ChainInv`, which every step keeps because it changes the branch as
`PublishedChain` does or not at all). On a branch a block is known by its height
(`BranchHeights`), so `Extends`, which the code asks of a height and a hash, and
the ancestry the property speaks of are both comparisons of numbers. The samples
have each a place of its own (`SamplesAreOrdered`, by counting), and `WindowsOK`
is the loop invariant of the fold: every sample taken so far is in one window,
a window has a sample at each of its blocks, and none of its route is next to
it. `AddSampleKeeps` is one turn of the loop, `WindowsCoverSamples` the whole,
through the recursive function of the community module's fold and a
least wrong index, not an induction over sequences. `ReportIsRight` translates
the result back.

For the feed, what holds of the tables (`CopyInv`, `KeptInv`) is required of the
transaction's copy after each message (`TxInv`), because a packet is committed
at once but built up one message at a time. Explanation and separation need
`Below`, that only numbers below the cursor were seen: it is what makes the
numbers of a new gap row unseen. `Continues` relates the copy to the tables it
began from, which nobody else can change meanwhile, and `FrameInv` its digests
to the packet. The two lemmas about a new message hold the arithmetic; every
step outside a transaction leaves tables and copy alone.

That a reliable relay leaves no gap is proved of collectors that run one at a
time (`OneAtATime`), any number after each other: two that are both asked for no
number may be started at different ones, and each then finds a gap that the
other explains, so the property does not hold of two at once and the run does
not claim it either (`SharedIsSmall`). `AloneInv` follows the one number that
matters from the table into the request, the session, the packet and the copy:
what comes next is never beyond the cursor, so no message opens a gap.

For the collect command, `FetchInv` says what the answers taken so far agree on,
request by request: the receipts are of one block, whichever, and from the
validation on they are the block's. That a set of receipts of any one block
which passes `validate_block` is the whole bundle of the block asked for is the
lemma `ValidIsWhole`. `ContinueInv` ties the command's memory, read once at its
start, to the stored cursor; with the heights of a branch (`BranchFacts`,
`HeightFacts`) it gives `NumberIsNext`, that nothing is stored at the height the
command works at, and this is why a gap written there is one.

For the clients of the node, the argument is what two looks at a header are
worth. The history of the node is not in the state, but this much is: while the
node does not come back, a block whose header was seen is on its branch, or in
`left` for good (`Was`). So a second look that finds it says that the node never
left it, and that every answer in between was of its branch; the invariant says
of each answer taken so far "of this block, or the block is left". A simulation
does not need it: its reply names the parent. `RegistryKnowsBranch` goes through
the two ways the database's branch changes: a block on top brings its own pools,
and a recovery those of all its replacements, each of which gets a row by
`RegisterAll` from the lowest replacement that launched it (a well-founded
choice); one that ends early only adds rows. `FollowedPoolsAreLive` needs that
each of the three contracts was asked about each pool, which is why the first
calls of `ReadWord` refuse a pool that is not there, and that what was live at
the first snapshot's block stays live above it. `ClientsCollect` is a refinement: a
step of the composition is one of `CollectCommand` or leaves its variables
alone, and the theorems about `CollectCommand` carry over.

For the replays, the records that were drained are exactly those up to the clock
(`TimeInv`), each of a block of the view or waiting in `pending` (`PartsInv`).
So a block that continues the view is whole among the pending parts exactly when
it is whole among the drained records (`WaitingParts`), and a rival of a block
of the view cannot become whole without a record that fails the replay
(`ForkInv`). `MomentInv` carries "not known before this moment" from the end of
one moment, where nothing was ready, through the blocks that are applied one on
another in the next. An unmarked timeline is in stored order because the first
record that is earlier than one before it would have been counted
(`UnmarkedIsOrdered`).

For the tracked pool, the invariant is about `View`, what the view will be once
the events of the block being built are applied: the pool is as the chain's
(`Follows`), and each word of the bitmap is unknown or the chain's. The actions
append one event at a time, and the fold over the events is unfolded from its
end (`FoldAppend`). The fold, and the sum over the positions of which the
liquidity is made, are recursive functions of the community modules over finite
sets; that these functions exist is proved for any set (`FoldExists`,
`TotalSums`), and a change of one range changes the sum at the ticks it covers
by the same amount (`TotalChanges`).

A quote crosses no tick because its price stays between the two boundaries
(`EndsBelow`, `EndsAbove`), because a boundary is the price of a tick inside the
words that were read (`BoundaryIsPrice`), and because there is no initialized
tick of the chain before it (`NoTickBelow`, `NoTickAbove`): the words are the
chain's as long as they are kept, since every change of liquidity forgets them.
All rounding is brought down to what a floor and a ceiling are
(`Quotients`): `PriceDown`, `PriceUp`, `GrossDown` and `GrossUp` bound a step
from each side, and `NoGain` composes two of them. An accepted amount pays only
over a gap because each swap gives at most its exact rate (`SwapRate`), which
two pools that agree make a loss (`RatesApart`).

The routes need what the loop over the descriptors ends with: `Described` is its
result in closed form, the last description of each id and the ids that have
two, and `DescribedStep` is one turn of the loop. `Grouped` then is the set of
clear descriptors (`GroupedIsClear`), whatever the order of the list.

`TypeOK` of `StoredReplay`, `GapsAreApart`, `FramesExplainSeen`,
`CursorNeverRewinds`, `CollectedStays` and `RefusalNeedsPendingRow` are proved; no
run repeats them.

Every invariant and action property of the passing runs is stated by a
theorem, `ReplayIsIdempotent` under the condition of `ReplaysAreIdempotent`.
Only model-checked: the liveness properties `EventuallyCaughtUp`,
`EveryRowEnds` and `EveryCommandEnds`, which are out of the prover's reach
(liveness under fairness).

## 6. Disagreements with the documents

### A recovery that cannot be resumed

`runtime_idempotence` shows a behaviour without any fault in which a recovery
cannot be completed:

1. block B leaves a pool Pending, and the runtime bootstraps again at B;
2. C, above B, is derived from the bootstrapped state and published;
3. the node switches to another branch and the runtime follows;
4. the node comes back to the first branch. The recovery replays from a
   checkpoint below B, and so applies C to the Pending pool B left and not to the
   bootstrapped one. The C it computes differs from the stored one, in the
   verification of the pool or, when C leaves it Pending both times, in the words
   of its bitmap only, and `process_timed` answers "processed block conflict".

The job stays pending and `open` repeats the same failure at every restart.
`docs/architecture.md:234` says that blocks already written are reused
idempotently, `docs/operations.md:44` that a restart continues a recovery that
failed. `runtime_liveness` shows that both hold when no block leaves a pool
Pending.

A block that `apply_block` refuses has a similar effect without a switch:
`commit` stores the block and moves the cursor before it applies the block, and
every restart then fails in `replay_committed`. No document says otherwise;
`EventuallyCaughtUp` has it as `StopsBelowRefused`.

### A row left open by a stop

`queue_stop` shows, without any fault:

1. `run()` submits a candidate; `submit` has its permit and awaits the insert,
   which waits for its thread or for the database;
2. the stop signal wins `run()`'s `select!` and drops `submit`, not the insert;
3. `shutdown` finds an empty channel, drains at once and interrupts the rows
   that are open: the new one is not there yet;
4. the insert commits, and the run ends with a row that says Queued.

`docs/operations.md:42` says that what the drain does not finish is marked
Interrupted. The next start of the same run interrupts the row, which is why
`EveryRowEnds` holds; until then the table shows a job that is waiting.

### A snapshot of two blocks

`bootstrap_returning` shows:

1. `run()` has processed block B and bootstraps; the first header of B's height
   is B's;
2. the node switches to another branch; a call that names the height is answered
   from it;
3. the node comes back to B; the other calls and the second header are B's.

The snapshot is stored under B with a word of another block.
`docs/architecture.md:105` asks that two pools always show one position.
`SteadySnapshotIsOfOneBlock` shows that the two headers are enough when the node
does not come back to what it left. `fetch_block` has the same two looks but
needs neither of them for its bundle: receipts and logs name their block.

### A registry of a branch that was left

`registry_orphans` shows:

1. a run has its pipeline and commits a block that launches a pool; the pool
   gets its row;
2. the node switches to a branch without the launch, or with it at another
   height, and the run recovers;
3. the row stays as it was written.

`docs/architecture.md:180` says that after a recovery the state is that of a
full replay of the right branch and what was derived from the old one is void.
The running pipeline does not notice. A new run over the same database, which is
how `docs/operations.md:34` has new pools taken up, reads all rows, and
`bootstrap` refuses the pool the factory does not know, and with it the whole
snapshot. `FollowedPoolsAreLive` shows that it does refuse it.

## 7. Not modelled

Left out as a whole, status `not_modelled` in `PROJECT.json`:

* block assembly and log decoding: pure functions of the stored bytes, without
  state. What they need of a block, all parts of one observer, is `Whole` of
  `StoredReplay`; their checks of single fields are data here.
* the configuration, the CLI and the migrations: nothing in them is concurrent,
  and the other components share no state with them.

Left out of components that are `partly` modelled: row encodings, size budgets
and the hash checks of plans and checkpoints (the store and its simulations
table); the rate limiter, the simulation lane and `latest_position` (the RPC
source); the classification of wallet facts, a table of conditions without
state; amounts, exclusions, the wallet summary, the counts of gap rows, scan
budgets and the two output formats of the reports.

Two things a reader of the models should know:

* A checkpoint's `last_raw_id` is the highest id of all raw records, so blocks
  above the checkpoint that were collected before it are invisible to an
  observed replay of it, which then ends with "observed replay data gap". Rows
  of an earlier attempt are kept when a replay is run again; both are in
  `StoredReplay` as they are.
* A second research run over one database may be stopped at a height with two
  whole blocks (`replay.rs:71`): the raw records of a branch that only the other
  run left stay. `RuntimeEngine` has one run; `NoForkIsGuessed` has it that the
  replay stops there and does not guess. No document promises more.
