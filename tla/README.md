# TLA+ models of the synchronous rollup composer

The composer is a rollup node on top of reth. L1 is the sequencer:
`Rollups.sol` holds the state root of the rollup, and everything a node needs
to know can be derived from its `BatchPosted` and `ExecutionConsumed` events.
A **builder** runs ahead of L1: it builds L2 blocks, posts them in batches
together with *cross-chain entries* (the L1 side of calls between L1 and L2),
and must then find out which of the entries L1 consumed, because the state
root depends on it. Every other node derives the same chain from L1 alone.

What makes the program hard is that the builder's speculative chain, reth's
database, the pending queues, the derivation cursor and L1 all move at
different times and fail independently, and that a family of recovery paths
(rewind, sibling reorg, anchor refresh, hold deferral, requeue, restart) has
to bring them back together. On top of that, every cross-chain call is answered
from a table that is written *before* the call runs: the composer guesses by
simulation what will be called and returned, and the table builder lays the
guesses out so that two contracts, which look entries up by hash, meet them in
the right order. These models are about both.

Sources are under `crates/based-rollup/src`; paths below are relative to it.
`PROJECT.json` maps every definition to its lines.

## Inventory

| Component | State | Operations | Talks to |
|---|---|---|---|
| Driver (`driver/*.rs`) | mode, pending blocks, pending L1 entries, hold, anchor, rewind / sibling / refresh requests, immutable ceiling, mismatch and cycle counters | `run`, `step`, `step_sync`, `step_builder`, `step_fullnode`, `flush_to_l1`, `verify_local_block_matches_l1`, `rewind_l2_chain`, `rebuild_block_as_sibling`, `rebuild_with_fresh_l1_context` | engine API, derivation, proposer, RPC queues |
| Derivation (`derivation.rs`) | last processed L1 block, last derived L2 block, last L1 info, cursor | `derive_next_batch`, `commit_batch`, `detect_reorg`, `rollback_to`, `prune_finalized`, checkpoints, cursor rebuild | L1 provider, driver |
| Proposer (`proposer.rs`) | cached nonce, last bundle target | `send_to_l1`, `submit_to_l1`, waits, `last_submitted_state_root` | L1 |
| Hold and recovery rules (`driver/hold.rs`, `driver/types.rs`, `driver/flush_plan.rs`) | the hold | `arm`, `defer`, `clear`; pure decisions | driver |
| Pending L1 queue (`driver/pending_queue.rs`) | entries, group starts with trigger data | `append_group`, `truncate_to`, `trim_entries_from_front`, `clear` | driver |
| Call queues (`rpc.rs`, `driver/step_builder.rs`, `driver/flush.rs`) | three mutex-protected vectors shared by RPC handlers and driver | handlers push; `drain_rpc_queues`, `rollback_queue_drain`, `forward_queued_l1_txs`, `compute_gas_overbid` | RPC threads, driver, L1 |
| Entry queue (`entry_queue.rs`) | items with receipt states, a Notify | `push`, `wait_confirmation`, `drain_pending`, `confirm`, `rollback`, `remove` | composers, driver |
| Execution tables (`cross_chain.rs`, `table_builder.rs`, `execution_planner.rs`) | none | pure construction, reordering, filtering and attribution of entries | RPC handlers, driver, derivation |
| Composer RPC (`composer_rpc/`) | per request: detected calls, return calls, flags | trace, walk, discover until stable, enrich, simulate deliveries, choose a route, queue, hold or forward | nodes of both chains, `rpc.rs` |
| Consensus, EVM config, payload builder, config, health, UI | none of the protocol | hooks, wiring, I/O | reth |

Correctness, per component:

* **Driver**: what it submits is what everyone will derive; when it is
  settled its chain is L1's; an entry block is verified before anything is
  built or submitted past it; a recovery ends, loses no block that still has to
  be submitted, and never replaces a block L1 has confirmed.
* **Derivation**: after a rollback no block is skipped and none is derived on
  the wrong context; the cursor finds the reorganisations of the batches in its
  window.
* **Call queues**: a call is neither lost nor duplicated; a user's L1
  transaction follows the batch with its entries, at a lower price, once.
* **Entry queue**: a permit proves confirmation; nothing stays reserved for
  ever; a waiter whose receipt is confirmed returns.
* **Execution tables**: every lookup on either chain finds its entry; each call
  takes effect once and each caller gets the answer the callee computes; the
  root on L1 moves to the block's root; a node that sees only the events finds
  that root.
* **Composer RPC**: what is queued is what the transaction will do; nothing is
  queued that it does not do; a transaction is held or forwarded, never both.

Where it is hard: L1 advancing between two reads of one step; the receipt wait
timing out while the batch lands; a crash between the engine's commit and the
checkpoint; an FCU to an ancestor that reth accepts without unwinding; RPC
threads pushing between the two drains of a tick; partial consumption of a
batch; a simulation that hides calls behind one it cannot answer yet; two
entries with one hash; a request that fails in the middle of a discovery.
`PROJECT.json` lists these hazards with the line where each bites.

## Modules

| Module | Models |
|---|---|
| `EntryQueue` | the shared entry queue with its waiters |
| `EntryQueueProofs` | theorems about it |
| `RecoveryRules` | the pure decisions the driver takes: hold, divergence, rewind targets |
| `Positions` | filters of a sequence by position, shared by `DerivationPipeline` and `Composer` |
| `DerivationPipeline` | derivation as functions from an L1 chain and a cursor to blocks and a cursor |
| `DerivationProofs` | what derivation computes, as lemmas and a theorem |
| `Driver` | `EXTENDS` both: the node's driver against an L1 |
| `DriverProofs` | `EXTENDS` `DerivationProofs`: theorems about the driver's own state |
| `DriverL1Proofs` | `EXTENDS` it: theorems about the driver and L1 |
| `PendingL1Queue` | the queue of L1 entries with its groups |
| `QueueLemmas` | lemmas: sequences, sets, filters and folds |
| `CallQueues` | `EXTENDS` it: the way of a user's call from the RPC handler to L1 |
| `CallQueuesProofs`, `CallQueuesBelowCap` | lemmas about the operators of `PendingL1Queue`; theorems about `CallQueues` without hypotheses, and below the cap |
| `ExecutionTables` | the two tables of a transaction, as operators: `table_builder.rs`, the entry builders, deltas and filters of `cross_chain.rs` |
| `SynchronousCalls` | abstract: a transaction and all its calls happen as one step per chain |
| `TableReplay` | `EXTENDS` `ExecutionTables`: a block of transactions replayed on both chains through the tables; implements `SynchronousCalls` |
| `Composer` | the composer RPC of both directions, from `eth_sendRawTransaction` to the queued calls |
| `ComposerProofs` | theorems about it |
| `MCEntryQueue`, `MCCallQueues`, `MCTableReplay`, `MCComposer` | constant values and symmetry for TLC |

### Abstractions

A **state root** is the sequence of everything that determines it: for each L2
block the L1 context it was built on (number and hash) and the number `k` of
entries whose effects it holds. Two blocks have the same root exactly if they
are the same block on the same parent, so agreement of roots in the model is
agreement of chains. The *clean* root of a block has `k = 0`; its *intermediate
roots* have `k = 1, 2, ...`. Transactions are not represented.

An **L1 chain** is a sequence of blocks, each with a hash (the reorganisation
that produced it) and at most one batch: its L2 blocks, the entries posted, how
many of them were consumed, and the resulting root.

A **call** in `CallQueues` is a model value with a kind, a price and a number
of L1 entries. What the driver decides there from L1 is a bounded
nondeterministic choice: `CallQueues` and `Driver` look at the same program
from two sides, one with the identity of calls and without L1, the other with
L1 and without the identity of calls. `Composer` ends where `CallQueues` begins:
its `node` is what the RPC handlers accept. `TableReplay` takes what `Composer`
should have found (`FoundOnL1`, `FoundOnL2`, `FoundReturns`) and begins where
the handlers build tables.

In `ExecutionTables` the **hash of an action is the action**; a destination
stands for the contract and its calldata, return data is a small number with 0
for empty, and a value is 0 or 1. In `Composer` a **contract** is the one call
it makes back, whether it returns data, and a counter that makes answers depend
on order: its k-th execution in a transaction returns k.

### Driver

The driver is one async task; `step()` is cut into actions where it observes L1
or calls the engine, and `pc` says where it is. `d` is the `Driver` struct;
`chain` is reth's canonical chain, `checkpoint` (and `d.anchor`) what the
database keeps, `l1` and `mempool` are external. The actions follow the code:

* `Step`, `StepRewind`, `StepRefresh`: the head of `step()`. Then L1 is read three
  times, each time by an action of its own because it may change in between:
  `StepUnchanged` or `StepReorg` reads its number and compares the cursor with it
  (`detect_reorg`), `StepLogs` queries the logs of the scan range, `StepDerive`
  fetches transactions and headers of the blocks that had logs, and derives.
  `StepFails` is the failure of any of them. `SyncInsert`, `SyncSkip`, `SyncRebuild`, `SyncCommit`:
  `step_sync`; `VerifyBlock`, `VerifyInsert`, `VerifyCommit...`:
  `derive_and_verify_from_l1` and `step_fullnode`.
* `Tick`, `BuildBlock`, `BuildFails`, `FlushReturns`: `step_builder`.
* `FlushSkip` ... `FlushSubmit`: `flush_precheck` and the first half of
  `flush_to_l1`; `TriggersNotSent`, `BatchConfirmed`, `BatchPartlyConsumed`,
  `BatchNotConsumed`, `BatchReverted`, `BatchUnknown`: the outcomes of the wait.
* `Crash`, `Shutdown`: a restart, with what is persisted.
* `L1Mine`, `L1Include`, `L1ForeignBatch`, `L1Reorg`: L1, which moves between
  any two actions of the driver.

**What a reorganisation may do.** `L1Reorg(i, at, batch)` replaces the blocks
from `i` on by as many new ones, of which one, `at`, may carry a batch: none,
a bundle of the builder that the old fork missed or included (a signed batch
stays valid for the sibling of its target as long as its parent is there,
`StillValid`), or any batch of another builder that continues the contract's
root on the new fork. It may come at any point of a step, also between the log
query and the header fetch, and above the newest cursor entry. `AnyReorg = FALSE`
leaves out what `detect_reorg` cannot see (`Detectable`): a batch of the new fork
in a block already scanned while the newest cursor entry survives, and a
reorganisation in the middle of a step. Only the run `fullnode` sets it, and
`v_reorg_unseen` is the run that shows why. A new fork has at most one batch and
the height of the old one; it may grow afterwards. What stays one observation:
the L1 number together with the walk of `detect_reorg`, and all headers of one
scan.

**What a scan may miss.** With `TxsMayBeMissing` a provider may fail to return
the transaction of a batch, or return one that cannot be decoded: the code logs
a warning and goes on with the next log (`derivation.rs` 287-348), and the scan
position moves past the batch all the same. Each such skip counts as a fault.

`MaxFaults`, `MaxReorgs`, `MaxCrashes` and `MaxLost` bound each kind of mishap
and `MaxMishaps` all of them together. `BundlePath` chooses between `eth_sendBundle` (a missed target drops the batch)
and a plain transaction (it reverts). `EngineUnwinds` chooses what a fork choice
update to an ancestor does: the engine API allows both, and
`rewind_l2_chain` handles both.

### CallQueues

The RPC handlers are actions of their own and interleave with the driver
between any two of its lock acquisitions and awaits. `drain_rpc_queues` is two
loops, each under the lock of its queue: `DrainCrossChainCalls` empties the
first queue, one `DrainCall` per call takes them in the order of their price and
sets a second continuation aside, `DrainL2ToL1Calls` and `DrainL2ToL1Call` do the
same for the second queue, and `InjectHeldL2Txs` ends the drain. While a loop
runs, no handler pushes to its queue. The build loop is one action per block;
`flush_to_l1` is cut at its awaits. `tick` and `flight` are the locals that live across them:
the rollback package of the drain, and the plan of the flush. The history
variables `accepted`, `posted`, `confirmed`, `dropped`, `sent` are what the
properties talk about.

### EntryQueue

`wait_confirmation` is cut at its lock (`Look`) and at its registration with the
Notify (`Park`); the future is created after the lock is released, and
`notify_waiters` leaves no permit behind. The module is not wired into the
running node yet (`lib.rs` says so), so it is the component as published.

### ExecutionTables and TableReplay

`ExecutionTables` has no state. Its operators are the functions of
`table_builder.rs` (`BuildContinuationEntries`, `BuildL2ToL1ContinuationEntries`
with the layouts for reentrant, sibling, nested and partly reverted calls, and
`ReorderForSwapAndPop`), the single-call builders, `AttachGenericStateDeltas`,
the consumed-entry filter and effective root of `derive_next_batch`, and
`ConvertL1EntriesToL2Pairs`.

`TableReplay` writes programs (`NewTx`, `NewCall`: trees of calls, levels 1 to
3, with try blocks and failing transactions), builds one block from them
(`Build`), and replays it twice. On L2 the manager takes the first entry with
the hash it meets and fills the gap with the last one; on L1 the contract takes
an entry whose hash *and* current state match, and moves the root. `stack` holds
the contracts that run and the managers that navigate; each of
`ExecuteCrossChainCall`, `ProcessCallAtScope`, `CallReturns`,
`HandleScopeRevert`, `ResolveScopes` is a step of a manager. The contracts are
a submodule that is not in the repository: these actions are external, taken
from what code, tests and documents say of them. `Settle` may come after any
transaction, so that a batch is also consumed in part.

The replay is compared with `SynchronousCalls`: under the mapping `Sync`, what
is visible after each transaction is what one `Land` step makes visible, so
tables, lookups and order of consumption are implementation detail. This is
the refinement the project shows (`ImplementsSynchronousCalls`).

`Shaped` says which programs the builder has a layout for, `Fits` which blocks;
see *Limits of the layouts* for what they leave out and why.

### Composer

One action per request to a node and the code up to the next one; `phase` says
which. From L1: `TraceAndDetectInternalCalls`, `EnrichCalls`, `EnrichChildren`,
`RetraceRound` (the discovery loop), `BottomUp`, `QueueExecutionTable`. From L2:
`TraceAndDetectL2InternalCalls`, `DiscoverRound`, `PostDiscoveryRetrace`, then one
of `RoutePartialRevert`, `RouteDuplicates`, `RouteSeveral`, `RouteSingle`, the
rounds `Deliver`/`NestedCalls`, and the queueing actions with their fallbacks.
Each takes `ok`: the request may fail, and the handler goes on as the code does.
The requests that queue something have three outcomes (`Outcomes`): accepted,
refused, and *lost*, when the builder has queued the call and the handler sees a
timeout or an answer it cannot read. To the handler the last two are the same,
so it goes on to the fallback or the next call, with the same raw transaction.
`node` holds what the builder accepted, with the position of the call the
request was for, whether it carries the raw transaction and whether the handler
saw the answer.
`Answers` is the simulation: a call known to the composer is answered, an
unknown one fails, and an uncaught failure ends the trace, so that later calls
are found only by later rounds.

## Runs

| Run | Question | Bounds |
|---|---|---|
| `entry_queue` | permits, receipts and reservations under all interleavings | 3 composers, drains of 2 |
| `builder` | a builder with entries that L1 consumes fully, partly or not at all, and bundles that miss: queues, anchor and siblings stay right, recoveries end, the node converges | 5 L1 blocks |
| `builder_failures` | an RPC, engine, send or receipt failure or a transaction that is not returned, an L1 reorganisation at any point of a step, a restart, any two of them in any order: hold and rewinds stay disciplined, queue and cursor describe the local chain, nothing confirmed is replaced | 3 L1 blocks, one of each kind, two in all |
| `builder_direct` | the plain transaction path with an engine that unwinds, one fault: agreement with L1, nothing skipped | 4 L1 blocks |
| `fullnode` | another builder with gaps and unconsumed entries; two reorganisations that `detect_reorg` can see and that may bring other batches, or a fault, or a restart, any two of them: sync ends, and the node converges (not if a reorganisation meets one of the others) | 3 L1 blocks |
| `call_queues` | RPC threads, ticks, flushes and recoveries on the shared queues | 2 continuations, 1 outgoing call, 1 direct transaction, 2 faults |
| `tables` | every block of programs within the bounds, replayed on both chains, landing in full or in part: no lookup fails, effects and answers are those of synchronous calls, roots, ether and derivation agree | 2 transactions, 4 calls in all, 2 targets, return data empty or one of 2 values |
| `composer` | every transaction of the bounds in both directions, with at most two requests refused or without an answer: what is queued is what happens, nothing is invented, held or forwarded | 3 calls of 4 entry contracts (plain, reply, reply that is decoded, chain of 3), 4 discovery rounds |

The batch limit is 2, so that a batch of several blocks, a full batch and a
second batch all occur within three or four L1 blocks; three are also enough for a
reorganisation below, at and above the newest batch, before and after it was
scanned. `REORG_SAFETY_THRESHOLD` and the
cursor limits are between 1 and 4, so that both sides of each comparison occur;
with one entry per block all branches of the consumption check are taken. The largest
run, `builder_failures`, has 1.3 million states. Two faults in `call_queues` allow a
timeout followed by a late landing, or a failed build followed by a failed send.
Four calls in `tables` reach every layout: reentrant chains of three levels,
siblings with equal and with different results, a partial revert, and two
transactions whose entries share hashes; three values of return data are
empty, and two that can be confused or not. Targets are symmetric. Three steps
in `composer` are a duplicate with something between, and every order of a
caught, an undone and a plain call; four rounds suffice to find three calls and
to see that nothing is new; two failed requests are a lost answer followed by a
failed fallback, or the first and a later one of three independent calls.
L1 stops at `MaxL1` and calls run out, so the runs do not check for deadlock;
that the driver does not stop by itself is what `SyncEnds`, `Converges` and
`EventuallyPosted` show.

What the properties say is written above each of them in the modules. The ones
that carry most: `SubmittedIsDerivable` (the root on L1 is the one that
derivation computes from the events), `SettledAgrees` (at rest, and whenever a
builder starts a block), `ConfirmedNotReplaced`, `HoldDiscipline`,
`RemembersChain` (pending blocks are local ones, the cursor is sorted; the
former only while no request failed, the latter unless a reorganisation and
another mishap come together, see below), `NothingSkipped`,
`ForwardWithItsBatch`, `OnePlace` (a call is in one queue, and nowhere once
confirmed), `ImplementsSynchronousCalls`, `NeverStuck`, `DerivedRoot`,
`QueuedIsExecuted`.

### Fairness

`Driver`: weak fairness of the driver's own steps, taken together, because it
is one task that tokio polls; nothing is assumed of L1, which may stop mining.
`CallQueues`: the same for tick and flush; the cooldown is a wall-clock interval
and ends; a recovery that is possible again and again is completed, and the
tick finds a block to build again and again, because L1 keeps growing (strong
fairness, as the driver is not at that point all the time). Faults are bounded,
so no fairness limits them. `EntryQueue`: weak fairness of every waiter, of the
notification that follows an unlock and of the drain, and strong fairness of
`Confirm`: submissions do not fail for ever.

## Disagreements between code and text

Runs with expected violations; `PROJECT.json` quotes the text:

* `v_rewind_noop`: after a partial consumption the rewind is a no-op in the
  engine, the ceiling then exempts the surviving blocks from verification, and
  the builder settles on a chain L1 does not have.
* `v_reorg_unseen`: `detect_reorg` compares L1 with the newest cursor entry
  first, and blocks without a batch leave no entry. If the reorganised blocks
  are all above that entry, or there is none, nothing is detected,
  `last_processed_l1_block` stays where it is, and a batch of the new fork at a
  block that was scanned before is never derived. The node stays on its chain
  for good.
* `v_lost_wakeup`: a confirmation between the look and the registration of a
  waiter is lost.
* `v_orphan_tx`: when intermediate roots cannot be computed, the entries are
  discarded but the user's L1 transaction is still released behind the next
  batch.

Others show when the bounds above are combined, which is why the passing runs
do not combine them. Each appears within half a minute when the constants named
are changed, starting from `Driver_builder_failures.cfg` with its mishaps set
to 0 and `TxsMayBeMissing = FALSE` (from `Driver_fullnode.cfg` likewise, and
`MaxGap = 0`, for a fullnode); `MaxMishaps` is the sum of the mishaps named:

* `EntriesWithTheirBlock` with `MaxFaults = 1`: entries requeued after a receipt
  timeout stay when the late batch's blocks are trimmed (`flush.rs` 1167-1196
  against 126-234), and are posted again alone. With `MaxReorgs = 1` likewise: a
  bundle that missed is included by the sibling of its block, and its requeued
  entries are sent once more. With `MaxCrashes = 1`, `MaxL1 = 5` and
  `EngineUnwinds` too.
* `AnchorSound` with `MaxFaults = 1` or `MaxReorgs = 1`: when the root is read
  later than the L1 head of the step, the trim writes `last_seen_l1_block` into
  the anchor (`flush.rs` 220), which may be older than the block that has the
  batch. With `MaxCrashes = 1`, `MaxL1 = 5` and `EngineUnwinds` too.
* `SyncEnds` with `MaxFaults = 1`: the sibling request of
  `flush.rs` 513-562 expects a root that re-derivation of that block cannot give.
* `SubmittedIsDerivable` with `MaxReorgs = 1`: pending blocks keep the context
  of an L1 block that has gone (`flush.rs` 415; `docs/DERIVATION.md` promises the
  context of the including block's parent).
* `ConfirmedNotReplaced` without its condition on reorganisations, `MaxReorgs = 1`:
  the sibling of an L1 block includes a missed bundle between the trim of the queue
  and the refresh, which then rebuilds blocks L1 has just confirmed.
* `SettledAgrees` for a fullnode with `MaxGap = 1` and `MaxReorgs = 1`:
  `rollback_to` restores an L1 info (`derivation.rs` 912) that is not the one
  gap blocks were derived with. The node notices later: `Converges` holds.
* `SettledAgrees` with `MaxCrashes = 1` and `EngineUnwinds`, or on a fullnode
  with also `MaxReorgs = 1`: a restart trusts blocks above the checkpoint
  (`mod.rs` 669) or rebuilds the cursor from headers with the context's number
  in place of the containing block's (`derivation.rs` 1137).
* `Converges` without its exception, on a fullnode with `MaxReorgs = 1` and
  `MaxCrashes = 1` or `MaxFaults = 1`: the rebuilt cursor hides the
  reorganisation; or a sync step fails after blocks were inserted but before
  `commit_batch`, L1 replaces their batch, and the next sync step skips every
  block that is not above the head (`mod.rs` 1235) without comparing it.
* `CursorSorted` without its condition, with `MaxL1 = 4`, `MaxReorgs = 1` and
  `MaxFaults = 1` or `MaxCrashes = 1`: a batch that disappears between `get_logs`
  (`derivation.rs` 240) and the fetch of its header (548) leaves cursor entries
  that carry the hash of the block on the new fork, so `detect_reorg` takes them for
  canonical; or the cursor rebuilt from headers disagrees with what is derived next.
* `NothingSkipped` on a fullnode with `TxsMayBeMissing`, `MaxFaults = 1` and
  `MaxL1 = 4`: a batch whose transaction was not returned is passed over for good.
* `SubmittedIsDerivable` on a fullnode with `DistinctActions = FALSE`: consumption events are
  counted per action hash over the whole scanned range (`derivation.rs`
  242-275), so two batches with the same action share them.

Smaller observations, without a run:

* A catch-up tick puts a held L2 transaction into the first of its blocks and
  loads its entries in the last (`step_builder.rs` 1007 against 249-258).
* After a failed build, a pending block of the old side of a sibling
  reorganisation can stay in `pending_submissions`; the check of the pre-root
  keeps it from being submitted. `RemembersChain` is therefore conditional.
* `step_sync` resets `consecutive_rewind_cycles`, so the branch of
  `flush.rs` 460 is never taken.
* The comment in `flush.rs` 633-637 says that user transactions stay queued
  across a rewind; `clear_internal_state` clears that queue. The code is what
  keeps `ForwardWithItsBatch` true: keeping them is the mutant that breaks it.
* The independent route answers that a transaction is held if any of its requests
  succeeded, while only the first carries the raw transaction
  (`l2_to_l1/process.rs` 1319-1404). If that one is refused and a later one is not,
  the builder has calls and no transaction, although the comment at 1328-1330 says
  that the driver forwards it exactly once.
* A request whose answer is lost after the builder queued it is treated as
  refused: the fallback queues the calls and the raw transaction a second time
  (1148-1216), or the transaction is forwarded to the node while the builder holds
  it too (1018-1026). `HeldOnce` allows a second copy only after a lost answer.
* `flush.rs` 1454 says that the batch overbids the queued transactions. The price
  is computed before the batch is sent (729); a transaction without entries that
  `QueueL1ForwardTx` (`rpc.rs` 586-588) queues after that, and before the release
  (1405-1413), is released behind a batch that need not bid more.
  `BatchOutbidsForwards` names those as its only exception; a transaction with
  entries is never one.
* The catch-up flush returns from `step_builder` before the forward queue is
  extended; if it leaves a hold, the user transactions of that tick are never
  forwarded (`step_builder.rs` 434-455).
* In a catch-up longer than `MAX_BATCH_SIZE`, a build that fails after an inner
  flush was confirmed puts confirmed L2-to-L1 calls back into the queue:
  `OnePlace` holds because the room for pending blocks is at most one
  batch, which is what the bundle path's cap guarantees (`CapWithinBatch`).
* `trim_entries_from_front` leaves the group starts alone, so with the cap
  reached they no longer name their entries. The cap is above the runs' bounds.

## Limits of the layouts

The table builder and the composer are made for the calls the system's own
tests make, and some programs are outside of what they lay out correctly. The
models keep the code as it is and say with `Shaped` and `Fits` where a property
is claimed. Each exclusion was found by TLC and is needed: without it the
property named fails.

Tables (`TableReplay`):

* Two entries with one hash and different continuations in one L2 table
  (`NeverStuck`, `ImplementsSynchronousCalls`): several transactions share the
  table, and the swap of `_consumeExecution` moves the last entry forward.
  `table_builder.rs` 118-120 promises first-in-first-out consumption and
  `docs/DERIVATION.md` 1028 that groups of two or more go first; the code
  returns early unless a group has three (`has_large_groups`), so a pair behind
  another entry stays there and that entry's swap turns the pair around. The
  reordering is also per transaction, and the table is shared.
* Three or more L1 entries with one hash (`RootReached`): the reorder changes
  their order after the roots were chained (`docs/DERIVATION.md` section 14f); an
  independent group may not even have the same call twice.
* A partial revert (`DerivedRoot`): `derivation.rs` 411-412 says that the root
  after a REVERT is the batch's final root; after a partial revert of calls from
  L1 the code of 456-482 keeps the clean root while the replay's L1 has moved. A partial revert is laid out only as a prefix of the calls
  from L1; from L2, and for a transaction of several calls that reverts as a
  whole, nothing is replayed.
* A transaction that reverts on L2 mixed with others in its block
  (`RootReached`): the roots count triggers, and it has none.
* A call from L1 with more than one call back (`NeverStuck`): only the first
  child gets an entry on L1. Siblings whose trace depth grows are taken for
  reentrant calls; the model gives siblings one depth.

Composer (`QueuedIsExecuted`, operator `Fits`):

* Frame flags are corrected only if the first trace ended in an error; caught
  frames that only fail to decode count as reverted in the first loop.
* From L2: return calls of two different calls are tagged with every sibling
  (`delivery.rs` 1456, 1554-1598); early return calls without a parent are given
  to the last call; the route for duplicates covers the pattern of the first
  call only and drops the return's data; calls of a partial revert are simulated
  one by one; calls below the first level are flagged as in a reverted frame.
* From L1: an answer of a nested contract is known only after the last trace; a
  nested contract that returns a value and is used twice is answered wrongly;
  children of undone calls are missing from the chained bundle; the second loop
  gives all new children to the first new call (`process.rs` 1190-1226).

## Proofs

`tlapm` proves what follows for every value of the constants that satisfies the
modules' named assumptions. Every inductive invariant was an invariant of TLC
on the runs' configurations before it was proved.

**Entry queue** (`EntryQueueProofs`): `TypeCorrect`, `PermitSound`,
`ReceiptsNeverShared`, `NothingStranded`, `TransitionsAreLegal`, from
`NoReceiptAssumption` and `DrainMaxAssumption`. The inductive invariant joins the
four state properties with `ReceiptsIssued` (a receipt held by a composer is
below `next_id`, and only a composer before its push holds none):
`ReceiptsDistinct` needs the former, and `PermitProvesConfirmation` needs of
`ReservedIsInFlight` that what is confirmed went through a confirm call.

**Call queues** (`CallQueuesProofs`, `CallQueuesBelowCap`). Without hypotheses:

* `TypesHold`. The hint is a natural number because a discount of more than the
  fee gives 0.
* `NothingIsLost`: `NothingLost`. It needs `TailIsDrained`: during a tick, what
  lies in the pending queue behind the length noted at its start belongs to
  calls that the tick drained. Only then does `rollback_queue_drain`, which cuts
  the queue back to that length and pushes the drained calls again, lose nothing;
  and only since `trim_entries_from_front` moves entries forward does the cap not
  break it.
* `ReleasedOnce`: `ForwardedOnce`. The invariant `Apart` says that the incoming
  queue, the calls in the drain, the forward queue and what was sent are pairwise
  disjoint and without repetition.

Under hypotheses; TLC gives a counterexample when one is dropped:

* `GroupsStayInStep`: `GroupsInStep` as long as `BelowCap`, that is, the pending
  queue has at most `MAX_PENDING_CROSS_CHAIN_ENTRIES` entries:
  `trim_entries_from_front` leaves the group starts where they are.
* `CallsInOnePlace`: `OnePlace` under `BelowCap` and `CapWithinBatch`. The code
  has `BUNDLE_PATH_PENDING_CAP` = 47 below `MAX_BATCH_SIZE` = 50; with more room, a
  build that fails after an inner flush puts confirmed calls back. The invariant
  says that a call in a queue has no entries, that the entries of a call are one
  stretch (`OneStretch`), and that the part of the queue a rollback keeps holds no
  call of the tick (`HeadOf`).
* `ReleasedBehindItsEntries`: `ForwardWithItsBatch` under `BelowCap` and `RootsKnown`
  (no failure of the intermediate roots: `v_orphan_tx` is what happens then).
  `Behind` says that the entries of a transaction in the forward queue are in the
  pending queue or in the batch in flight, and that a flush inside the build loop
  has an unsent block, so that a batch with entries arms the hold.
* `BatchBidsMore`: `BatchOutbidsForwards` for `OverbidPct >= 0`; the option is signed,
  and a negative value is a discount. The property is about every transaction
  that is released, with or without entries; its one exception are those without
  entries that were queued after the hint. `seen`, a field of `flight`, is what
  the hint was computed from, and the invariant says that what waits with entries
  in the batch was already there then.

`CallQueuesProofs` begins with what `append_group`, `truncate_to` and
`trim_entries_from_front` do to entries and group starts, position by position;
`QueueLemmas` says the same for sequences in general, and what a filter by position
(`Nth`, `Retain`) keeps, in which order.

**Derivation** (`DerivationProofs`): `DerivesWithoutHoles`: if the blocks of each
batch have consecutive numbers, `derive_next_batch` returns exactly the numbers
after the last derived one, without hole or duplicate, whatever overlaps and
gaps there are between batches. A fold over the scanned range is a recursive
function; `FoldExists` and `FoldStays` give its value and an invariant of it by a
least counterexample. `Nth`, `Retain`, `FirstOfEach` are counted with
`Cardinality` of the members below.

**Driver** (`DriverProofs`, `DriverL1Proofs`), six arguments, three about what the
driver does by itself and three about L1:

* `HoldIsKept` and `RewindsAreClean`. The invariant is `HoldDiscipline` and
  `RewindIsClean` with `Shape`, the field names of the records `d` and `work`: the
  argument is about control only. The two need each other: that no hold is armed
  when building starts follows from there being no rewind under way, and that a
  rewind finds nothing armed follows from every path that schedules one clearing
  first.
* `DriverTypeCorrect`: `TypeOK`. It includes what the code bounds: the pending queue
  by `MAX_PENDING_SUBMISSIONS` (a requeued batch fits again, since nothing is
  built while it is in flight), the cursor by twice `REORG_CHECK_DEPTH`, the
  deferrals of the hold, and block numbers by the length of L1. The invariant
  `Types` adds how blocks, queues and batches in flight relate in size; what a
  scan returns comes from `DerivationProofs`.
* `QueueFollowsChain`: `QueueIsLocal`, the first half of `RemembersChain`. On top of
  the other two, `Kept` says that a driver in sync mode has nothing queued, that
  a refresh is asked for only outside of it, and that a batch in flight is part of
  the chain. Its condition, that no call failed, is the one of the run: a failed
  build can leave a block of the old side of a sibling reorganisation.
* `MemoryFitsChain`: `RemembersChain` until the first reorganisation or restart, that
  is, the former together with `CursorSorted`, with failures and skipped batches.
  The cursor stays sorted in both coordinates because the batches on L1 are:
  `Ascending` says that the block numbers of a later L1 block are above those of an
  earlier one, and `RootOfLast` that the contract's root is that of the last number
  posted, so the next batch can only continue it. `Recalled` says that a cursor entry
  names a block of the batch in its L1 block. L1 grows between the queries of a
  scan, so what was read is a prefix of what is there (`L1Reads`). Hence
  whatever `derive_next_batch` appends is above the cursor's last entry
  (`NewestIsOnL1`, `ExtendedRemembers`), and every rollback,
  prune and cap keeps a part of the cursor (`Forgets`). A reorganisation may come
  between the logs and the headers, and leaves entries that no batch on L1 stands
  for; a restart rebuilds the cursor from headers, with the L1 context in place of
  the containing block. With either one the property is model-checked only, and
  with a reorganisation and another mishap it is false (see *Disagreements*).
* `AnchorIsSound`: `AnchorSound` under `NoMishap` (no failed call, L1 reorganisation or
  restart so far), for a builder and for a fullnode, which has no anchor. For the builder,
  `BuilderInv` says where the anchor is: `Settled`, exactly at the last batch on L1
  and its last number, at every point but one, namely between the inclusion of
  the batch in flight and the reading of its receipt (`Posted`). That the
  batch in flight is the only one that can still be included follows from its
  target block; that it begins after the last confirmed block (`Ahead`) from the
  pre-root check; and that the trim of the queue leaves the anchor alone
  (`TrimKeepsAnchor`) from the anchor being settled already. Each part of `NoMishap`
  is needed: with one failure, one reorganisation or one restart TLC finds an
  anchor before its batch (see *Disagreements*).
* `EntriesStayWithBlock`: `EntriesWithTheirBlock` on the bundle path, through every
  missed block, requeue, refresh and recovery, under `NoMishap` and `BundleRoom`, with
  L1 growing between any two steps. `flush_to_l1` sends every queued entry with
  the front blocks that share an L1 context, so the claim is that those are all
  the blocks and that the last of them is the one the entries are for. `BundleRoom` is
  what the code configures: `BUNDLE_PATH_PENDING_CAP` = 47 is at most `MAX_BATCH_SIZE` = 50
  and `MAX_PENDING_SUBMISSIONS` = 1000. The invariant `BundleInv` relates the queues to
  L1: what waits fits one batch, its first block has the oldest context, and no context is
  before the last post (`Aligned`), so the trim confirms nothing and a front block that
  is not stale takes the whole queue with it (`TrimsNothing`, `WholeBatch`); where entries
  wait whose blocks may still be submitted on their context there is no room, or no
  L1 block, to build another one behind them (`Belong`); the build loop gets to the
  entries' block without a flush in between (`Building`, `Phases`); and the batch in flight
  is that queue, which goes back whole when its L1 block passes (`InFlight`). TLC refutes
  the property with one failed call, one reorganisation or one restart, with a cap
  above the batch size, and on the direct path.

**Composer** (`ComposerProofs`):

* `QueuedOrForwarded`: `HeldOnce`, on every path, whichever requests are refused and
  whichever answers are lost: held only if a request was acknowledged, forwarded
  only if none was, two requests that carry the transaction only if the answer to
  the earlier one was lost, and a held transaction at the builder exactly if the
  request of its first call was accepted there. The invariant `Handled` follows
  `phase`: before the queueing phases nothing of the transaction is at the builder,
  the fallback starts with at most the request whose answer was lost, and whenever
  the builder has something, one of its requests carries the transaction exactly if
  the first of them is for the first call (`SentAgain`, `FirstCarries`).
* `ComposerTypeCorrect`: `TypeOK`. The invariant `Typed` adds what the later phases
  rely on: the parent of a call back is the position of a call that is there,
  return calls too point into `calls`, and after the first trace there are calls.
  Every rewriting of the list (a longer retrace, children appended, answers
  filled in, simulated deliveries) has to keep those positions valid.
* `CallsInOrder`: `NothingInvented` under `CallsBackDiffer`. The invariant `Ordered` says
  that the calls without a parent are the first steps of the transaction as long
  as the simulation of deliveries has not begun, and that what the discovery adds
  in between are calls back. `FirstSteps` is kept by every new trace because a trace
  is a walk over the steps (`IsWalk`), whichever answers it was given and whichever
  request failed. The hypothesis, that no contract the transaction calls is what
  another one calls back, is needed: `filter_new_by_count` (`cross_chain.rs`) tells calls
  apart by destination, call data, value and source, not by direction, so a call
  back counts as one of the user's calls and the next one is dropped. TLC gives
  the counterexample.

Only model-checked:

* Liveness (`SyncEnds`, `Converges`, `EventuallyPosted`, `ConfirmedWaiterReturns`), which
  needs ENABLED.
* `RemembersChain` after a reorganisation or a restart (`CursorSorted`; the other half
  is proved), and `AnchorSound` and `EntriesWithTheirBlock` beyond the conditions of their theorems.
* `UnconfirmedIsQueued`, `SubmittedIsDerivable`,
  `SiblingMatchesL1`, `SettledAgrees`, `TargetStillAhead`, `NothingSkipped`,
  `ConfirmedNotReplaced`. The first three hold without mishaps and the next three
  on the direct path (see *Disagreements*), some of them only for bounds that fit
  each other, so a theorem would have to say which
  runs it is about; their invariants relate the whole chain to the whole of L1.
* `QueuedIsExecuted` of `Composer`, everything about `TableReplay` and the refinement of `SynchronousCalls`: recursion over trees of
  calls, whose induction takes an operator as parameter.

No module declares a `RECURSIVE` operator.

## Not modelled

In `Driver`: transaction contents and builder nonces, the transaction journal
and reinjection, preconfirmation hashes and their broadcast, L1 provider
failover, entries fetched from L1 by `fetch_execution_entries_for_builder`,
batches with REVERT entries, `MAX_CATCHUP_BLOCKS` and the refresh of the L1
context every 50 blocks, a missing proposer. Entries posted without blocks are
never consumed, and entries are consumed in their batch's L1 block, as the
contract requires.

In `CallQueues`: the pool's gas limit, nonce filter and rejections (every block
takes all that the pool holds), trigger nonces, L1-fetched entries, restarts
(the queues are memory only), reinjection after a rewind. L1 consumes a call's
entries only if the user's transaction was forwarded.

In `ExecutionTables` and `TableReplay`: ABI and RLP encoding, proofs and
signatures, `reconstruct_continuation_l2_entries` (a node's reconstruction of
reentrant tables; `PairsReconstructed` is about plain calls), static calls,
more than three levels of nesting, failed calls inside a table other than try
blocks and single calls. A wrong nonce or gas limit of a trigger is not
represented: a transaction lands or does not.

In `Composer`: gas estimation, batch JSON-RPC requests, a response lost on the way to the user,
calls whose arguments or existence depend on the answers, try blocks around
several calls, patterns of trace depth, accounts without code, missing keys.
Traces are abstract: the walk over frames, the recognition of proxies and the
lookups of their identity are one operator, `WalkTrace`.

Not at all: `execution_planner.rs` (wrappers without state of their own), the
websocket client of `builder_sync.rs`, consensus and EVM hooks, configuration,
health, UI. `Rollups.sol` and `CrossChainManagerL2.sol` are a submodule and
appear as external actions of `Driver` and `TableReplay`.

## Plan

What is left is proof, in this order:

1. `Driver`: that a node out of sync mode has every confirmed number
   (`NothingSkipped` through every rollback of the cursor), on top of `AnchorInv`; then
   `UnconfirmedIsQueued` on the bundle path, on top of `BundleInv`.
2. `TableReplay`: the steps of the refinement that do not depend on a table
   (writing programs, building, a chain's replay begins or ends) and what
   `Undo` and `Consumed` preserve.

Beyond it, what would be worth modelling next: the transaction journal and
reinjection, L1 failover, the proposer's nonces; an abstract specification of
the node ("the settled chain is a prefix of what L1 determines") that `Driver`
implements.
