------------------------------- MODULE Driver -------------------------------
(***************************************************************************)
(* The consensus driver of a rollup node (driver/*.rs) against an L1 that  *)
(* mines, drops, delays and reorganises: mode changes, derivation and      *)
(* verification, block building, submission of batches with cross-chain    *)
(* entries, and every recovery path between them.                          *)
(*                                                                         *)
(* The driver is one task.  Its loop body step() is cut into actions at    *)
(* the points where it observes L1 or calls the engine; pc says where it   *)
(* is.  The in-memory fields of the Driver struct are the record d; what   *)
(* reth keeps (the canonical chain), what the database keeps (checkpoint,  *)
(* and d.anchor, saved at each update) and what L1 keeps are variables of  *)
(* their own.                                                              *)
(***************************************************************************)
EXTENDS RecoveryRules, DerivationPipeline

CONSTANTS
  BuilderMode,            \* config.builder_mode; otherwise a fullnode
  BundlePath,             \* batches go through eth_sendBundle
  EngineUnwinds,          \* FCU to an ancestor removes its descendants
  TxsMayBeMissing,        \* the L1 provider may not return a mined transaction
  AnyReorg,               \* L1 may reorganise in ways detect_reorg cannot see
  MAX_BATCH_SIZE,         \* L2 blocks in one postBatch
  MAX_PENDING_SUBMISSIONS,
  BUNDLE_PATH_PENDING_CAP,
  CHECKPOINT_INTERVAL,    \* L1 blocks between two saved checkpoints
  FINALITY_DEPTH,         \* L1 blocks after which cursor entries are pruned
  \* Bounds of the model
  MaxL1,                  \* L1 blocks mined
  MaxEntries,             \* cross-chain entries drained for one block
  MaxGap,                 \* L2 numbers another builder may skip
  MaxFaults,              \* RPC, engine and receipt failures
  MaxReorgs,              \* L1 reorganisations
  MaxCrashes, MaxLost,    \* restarts, and L2 blocks reth loses in one
  MaxMishaps              \* failures, reorganisations and restarts together

ASSUME DriverAssumption ==
  /\ BuilderMode \in BOOLEAN /\ BundlePath \in BOOLEAN
  /\ EngineUnwinds \in BOOLEAN /\ TxsMayBeMissing \in BOOLEAN
  /\ AnyReorg \in BOOLEAN
  /\ {MAX_BATCH_SIZE, MAX_PENDING_SUBMISSIONS, CHECKPOINT_INTERVAL}
       \subseteq Nat \ {0}
  /\ {BUNDLE_PATH_PENDING_CAP, FINALITY_DEPTH, MaxL1, MaxEntries, MaxGap,
      MaxFaults, MaxReorgs, MaxCrashes, MaxLost, MaxMishaps} \subseteq Nat

VARIABLES
  l1,         \* the canonical L1 chain
  mempool,    \* postBatch transactions that may still be included
  chain,      \* reth's canonical L2 chain; chain[n] is block n
  checkpoint, \* the persisted L1Derivation stage checkpoint
  d,          \* the fields of the Driver struct
  pc,         \* the point of step() the driver is at
  work,       \* locals of step() that live across actions
  used        \* how much of each bound is spent

vars == <<l1, mempool, chain, checkpoint, d, pc, work, used>>

l2_head_number == Len(chain)

NoTx == [root |-> <<>>, first |-> 0, ents |-> <<>>, target |-> 0, sent |-> 0]
NoTick == [goal |-> 0, info |-> DeploymentInfo, k |-> 0, base |-> 0,
           pushed |-> 0, inner |-> FALSE]
NoWork == [todo |-> <<>>, empty |-> TRUE, next |-> NewPipeline, tick |-> NoTick,
           root |-> <<>>, blocks |-> <<>>, sent |-> NoTx, logs |-> <<>>]

FreshDriver ==
  [mode |-> "sync", pending |-> <<>>, entries |-> <<>>, hold |-> Clear,
   anchor |-> NoAnchor, rewind |-> None, sibling |-> NoRequest, refresh |-> 0,
   ceiling |-> 0, mismatches |-> 0, cycles |-> 0, seen |-> 0, cool |-> FALSE,
   dv |-> NewPipeline]

Init ==
  /\ l1 = <<>> /\ mempool = {} /\ chain = <<>> /\ checkpoint = 0
  /\ d = FreshDriver /\ pc = "idle" /\ work = NoWork
  /\ used = [faults |-> 0, reorgs |-> 0, crashes |-> 0]

MishapsLeft == used.faults + used.reorgs + used.crashes < MaxMishaps

\* A call failed: one of the bounded number of faults.
Fault ==
  /\ used.faults < MaxFaults /\ MishapsLeft
  /\ used' = [used EXCEPT !.faults = @ + 1]
NoFault == UNCHANGED used

-----------------------------------------------------------------------------
(* L1, external: the Rollups contract and the network as the code uses them *)

\* The contract's state root: that of the last batch with blocks.
ContractRoot(blocks) ==
  LET posts == {i \in 1 .. Len(blocks) : blocks[i].batch.blocks # <<>>}
  IN  IF posts = {} THEN <<>> ELSE blocks[LastOf(posts)].batch.root
OnChainRoot == ContractRoot(l1)

\* The signed proof binds a batch to one L1 block: once that has passed the
\* batch is worthless, unless the block is replaced by a sibling.
StillValid(tx, height) == tx.target > height \/ used.reorgs < MaxReorgs

\* L1 goes on at any moment of the driver's step.
Mined(batch) ==
  /\ Len(l1) < MaxL1
  /\ l1' = Append(l1, [hash |-> used.reorgs, batch |-> batch])
  /\ mempool' = {tx \in mempool : StillValid(tx, Len(l1'))}
  /\ UNCHANGED <<chain, checkpoint, d, pc, work, used>>

L1Mine == Mined(NoBatch)

\* The L2 blocks of the call data of a transaction.
BlocksOf(tx) ==
  IF tx.first = 0 THEN <<>>
  ELSE [j \in 1 .. (Len(tx.root) - tx.first + 1) |->
          [n |-> tx.first + j - 1, k |-> tx.root[tx.first + j - 1].k]]

\* A deferred entry can be consumed in the L1 block of its batch, in order,
\* only from the root it was computed for, and only if the transaction that
\* triggers it was sent.
Consumable(tx) ==
  IF tx.first = 0 THEN 0
  ELSE Smaller(Smaller(Last(tx.root).k, tx.sent),
               Cardinality({j \in 1 .. Len(tx.ents) : tx.ents[j] = Len(tx.root)}))

\* The builder's transaction succeeds in the block after `blocks`, and what it
\* leaves there.
Accepts(blocks, tx) ==
  /\ tx.target = Len(blocks) + 1
  /\ tx.first # 0 => SubSeq(tx.root, 1, tx.first - 1) = ContractRoot(blocks)
BatchOf(tx, consumed) ==
  [blocks |-> BlocksOf(tx), ents |-> Len(tx.ents), used |-> consumed,
   root |-> IF tx.first = 0 THEN <<>> ELSE WithEntries(tx.root, consumed)]

L1Include(tx, consumed) ==
  /\ Accepts(l1, tx)
  /\ Mined(BatchOf(tx, consumed))

\* Another builder's batch after `blocks`, for a fullnode: it skips `gap`
\* numbers, which everyone fills with empty blocks on the previous
\* submission's context.
ForeignBatch(blocks, gap, count, ents, consumed) ==
  LET base == ContractRoot(blocks)
      prev == IF base = <<>> THEN DeploymentInfo
              ELSE [l1 |-> Last(base).ctx, hash |-> Last(base).hash]
      Block(info, k) == [ctx |-> info.l1, hash |-> info.hash, k |-> k]
      first == Len(base) + gap + 1
  IN  [blocks |-> [j \in 1 .. count |->
                     [n |-> first + j - 1, k |-> IF j = count THEN ents ELSE 0]],
       ents |-> ents, used |-> consumed,
       root |-> base \o [g \in 1 .. gap |-> Block(prev, 0)]
                     \o [j \in 1 .. count |->
                           Block(InfoAt(blocks, Len(blocks)),
                                 IF j = count THEN consumed ELSE 0)]]

\* (A builder makes at most one L2 block per L1 block.)
ForeignFits(blocks, batch) == ~BuilderMode /\ Len(batch.root) <= Len(blocks)

L1ForeignBatch(batch) ==
  /\ ForeignFits(l1, batch)
  /\ Mined(batch)

\* The chain from block i on is replaced by as many blocks, one of which,
\* `at`, may carry a batch: the one that was there, or another.
Fork(i) ==
  [j \in 1 .. Len(l1) |->
     IF j < i THEN l1[j] ELSE [hash |-> used.reorgs + 1, batch |-> NoBatch]]

\* detect_reorg can see the change: its check comes before anything else is
\* read of L1, and either the newest derived batch is in a replaced block or
\* the new blocks that were already scanned carry no batch.
Detectable(i, at, batch) ==
  /\ pc = "idle"
  /\ \/ batch = NoBatch \/ at > d.dv.processed
     \/ d.dv.cursor # <<>> /\ Last(d.dv.cursor).l1 >= i

\* A transaction stays valid only if the parent it was signed for does.
L1Reorg(i, at, batch) ==
  /\ used.reorgs < MaxReorgs /\ MishapsLeft
  /\ AnyReorg \/ Detectable(i, at, batch)
  /\ used' = [used EXCEPT !.reorgs = @ + 1]
  /\ l1' = [Fork(i) EXCEPT ![at].batch = batch]
  /\ mempool' = {tx \in mempool : tx.target <= i}
  /\ UNCHANGED <<chain, checkpoint, d, pc, work>>

L1Reorgs(i) ==
  \/ L1Reorg(i, i, NoBatch)
  \/ \E tx \in mempool : \E consumed \in 0 .. Consumable(tx) :
       /\ Accepts(SubSeq(l1, 1, i - 1), tx)
       /\ L1Reorg(i, i, BatchOf(tx, consumed))
  \/ \E at \in i .. Len(l1), gap \in 0 .. MaxGap, count \in 1 .. MAX_BATCH_SIZE,
       ents \in 0 .. MaxEntries : \E consumed \in 0 .. ents :
         LET before == SubSeq(Fork(i), 1, at - 1)
             batch == ForeignBatch(before, gap, count, ents, consumed)
         IN  ForeignFits(before, batch) /\ L1Reorg(i, at, batch)

L1Next ==
  \/ L1Mine
  \/ \E tx \in mempool : \E consumed \in 0 .. Consumable(tx) :
       L1Include(tx, consumed)
  \/ \E gap \in 0 .. MaxGap, count \in 1 .. MAX_BATCH_SIZE,
       ents \in 0 .. MaxEntries : \E consumed \in 0 .. ents :
         L1ForeignBatch(ForeignBatch(l1, gap, count, ents, consumed))
  \/ \E i \in 1 .. Len(l1) : L1Reorgs(i)

-----------------------------------------------------------------------------
(* Recovery (rewind.rs, types.rs) *)

\* Mutant of ClearInternalState: the L1 entries stay queued.
ClearBlocksOnly(s) ==
  [s EXCEPT !.pending = <<>>, !.sibling = NoRequest, !.hold = Clear]

ClearInternalState(s) ==
  [s EXCEPT !.pending = <<>>, !.entries = <<>>, !.sibling = NoRequest,
            !.hold = Clear]

\* consecutive_rewind_cycles is only compared with 0 and the threshold.
CountCycle(s) ==
  [s EXCEPT !.cycles = Smaller(@ + 1, REORG_SAFETY_THRESHOLD)]

SetRewindTarget(s, target) == [s EXCEPT !.rewind = LowerTarget(@, target)]

\* The pipeline forgets first and is told the target afterwards.
RewindToReDerive(s, target, rollback) ==
  LET cleared == ClearInternalState(s)
      rolled == [cleared EXCEPT !.dv = [RollbackTo(@, rollback)
                                          EXCEPT !.derived = target],
                                !.mode = "sync"]
  IN  SetRewindTarget(CountCycle(rolled), target)

\* apply_sibling_reorg_plan: here the target is set first, so rollback_to
\* overwrites it.
ApplySiblingReorgPlan(s, entry_block, root) ==
  LET target == VerifyPlanTarget(s.anchor, entry_block)
      planned == [ClearInternalState(s) EXCEPT
                    !.sibling = Request(entry_block, root),
                    !.dv = RollbackTo([@ EXCEPT !.derived = target],
                                      RollbackL1(s.anchor)),
                    !.mode = "sync"]
  IN  SetRewindTarget(planned, target)

-----------------------------------------------------------------------------
(* step(), up to the dispatch on the mode *)

\* step() returns; Return carries the driver's fields.
Return(s) ==
  /\ d' = s /\ pc' = "idle" /\ work' = NoWork

\* rewind_l2_chain: the engine either drops the descendants of the target or
\* keeps them, and then nothing up to the tip is verified any more.
RewindL2Chain(s, target) ==
  IF EngineUnwinds
  THEN /\ chain' = SubSeq(chain, 1, target) /\ d' = s
  ELSE /\ d' = [s EXCEPT !.ceiling = l2_head_number] /\ UNCHANGED chain

\* The pending rewind runs first, then the anchor refresh, then L1 is read.
StepRewind ==
  /\ pc = "idle" /\ d.rewind # None
  /\ LET taken == [d EXCEPT !.rewind = None, !.cool = FALSE]
     IN  IF d.rewind < l2_head_number
         THEN RewindL2Chain(ClearInternalState(taken), d.rewind)
         ELSE d' = taken /\ UNCHANGED chain
  /\ pc' = IF d.refresh # 0 THEN "refresh" ELSE "latest"
  /\ NoFault /\ UNCHANGED <<l1, mempool, checkpoint, work>>

\* The fork choice update fails: the target is put back.
StepRewindFails ==
  /\ pc = "idle" /\ d.rewind # None /\ d.rewind < l2_head_number
  /\ Return(ClearInternalState(d))
  /\ Fault /\ UNCHANGED <<l1, mempool, chain, checkpoint>>

Step ==
  /\ pc = "idle" /\ d.rewind = None
  /\ d' = [d EXCEPT !.cool = FALSE]
  /\ pc' = IF d.refresh # 0 THEN "refresh" ELSE "latest"
  /\ NoFault /\ UNCHANGED <<l1, mempool, chain, checkpoint, work>>

\* rebuild_with_fresh_l1_context replaces the block and everything above it
\* by one empty block on the newest L1 context.
StepRefresh ==
  /\ pc = "refresh" /\ d.refresh <= l2_head_number + 1
  /\ chain' = Append(SubSeq(chain, 1, d.refresh - 1),
                     [ctx |-> Len(l1), hash |-> HashAt(l1, Len(l1)), k |-> 0])
  /\ d' = [ClearInternalState(d) EXCEPT !.dv.derived = d.refresh,
                                        !.pending = <<chain'>>,
                                        !.refresh = 0]
  /\ pc' = "latest"
  /\ NoFault /\ UNCHANGED <<l1, mempool, checkpoint, work>>

\* The refresh stays scheduled and the step goes on.
StepRefreshFails ==
  /\ pc = "refresh"
  /\ pc' = "latest"
  /\ IF d.refresh > l2_head_number + 1 THEN NoFault ELSE Fault
  /\ UNCHANGED <<l1, mempool, chain, checkpoint, d, work>>

\* A reorg was detected: derivation rolls back, the checkpoint is saved, and
\* the L2 chain is rewound to the last block derived before the fork.
StepReorg ==
  /\ pc = "latest" /\ ReorgDetected(d.dv, l1)
  /\ LET dv == RollbackTo(d.dv, ForkPoint(d.dv, l1))
         s == [ClearInternalState(d) EXCEPT !.seen = Len(l1), !.dv = dv]
         synced == [s EXCEPT !.mode = "sync"]
     IN  /\ checkpoint' = dv.processed
         /\ \/ /\ dv.derived < l2_head_number
               /\ RewindL2Chain(synced, dv.derived)
               /\ NoFault
            \/ /\ dv.derived < l2_head_number   \* rewind_l2_chain fails
               /\ d' = s /\ UNCHANGED chain
               /\ Fault
            \/ /\ dv.derived >= l2_head_number
               /\ d' = synced /\ UNCHANGED chain
               /\ NoFault
  /\ pc' = "idle" /\ work' = NoWork
  /\ UNCHANGED <<l1, mempool>>

\* step_builder does nothing while a sibling reorg that is too deep waits.
Halted ==
  /\ d.mode = "builder" /\ d.sibling # NoRequest
  /\ ReorgDepthExceeded(l2_head_number - d.sibling.target)

\* No reorg is detected, and every mode goes on by deriving.
StepUnchanged ==
  /\ pc = "latest" /\ ~ReorgDetected(d.dv, l1)
  /\ LET s == [d EXCEPT !.seen = Len(l1)]
     IN  IF Halted THEN Return(s)
         ELSE d' = s /\ pc' = "logs" /\ UNCHANGED work
  /\ NoFault /\ UNCHANGED <<l1, mempool, chain, checkpoint>>

\* derive_next_batch reads the logs up to the L1 block the step has seen ...
StepLogs ==
  /\ pc = "logs"
  /\ work' = [work EXCEPT !.logs = SubSeq(l1, 1, d.seen)]
  /\ pc' = "blocks"
  /\ NoFault /\ UNCHANGED <<l1, mempool, chain, checkpoint, d>>

\* ... and then the transaction and the L1 block of each.  A transaction that
\* was reorganised away meanwhile may be gone, any other one is returned
\* unless the provider fails.
Unreturned(missing) ==
  /\ \A i \in missing : work.logs[i].batch # NoBatch
  /\ IF \A i \in missing : l1[i].batch # work.logs[i].batch
     THEN NoFault ELSE TxsMayBeMissing /\ Fault

\* The call returns a batch or the MAX_BLOCK_GAP error.
Derived(batch) ==
  IF batch.failed THEN Return(d)
  ELSE /\ UNCHANGED d
       /\ pc' = IF d.mode = "sync" THEN "sync" ELSE "verify"
       /\ work' = [NoWork EXCEPT !.todo = batch.blocks,
                                 !.empty = batch.blocks = <<>>,
                                 !.next = batch.next]

StepDerive ==
  /\ pc = "blocks"
  /\ \E missing \in SUBSET (d.dv.processed + 1 .. d.seen) :
       /\ Unreturned(missing)
       /\ \E batch \in {DeriveNextBatch(d.dv, Answered(work.logs, l1, missing),
                                         d.seen)} : Derived(batch)
  /\ UNCHANGED <<l1, mempool, chain, checkpoint>>

\* An RPC, engine or provider call returned an error: step() is left.
StepFails ==
  /\ pc \in {"latest", "logs", "blocks", "sync", "verify", "tick"}
  /\ Return(d)
  /\ Fault /\ UNCHANGED <<l1, mempool, chain, checkpoint>>

\* commit_batch, then maybe_save_checkpoint when blocks were derived.
Commit(s, next, save) ==
  LET due == save /\ next.processed - checkpoint >= CHECKPOINT_INTERVAL
      finalized == IF next.processed > FINALITY_DEPTH
                   THEN next.processed - FINALITY_DEPTH ELSE 0
  IN  /\ checkpoint' = IF due THEN next.processed ELSE checkpoint
      /\ d' = [s EXCEPT !.dv = IF due THEN PruneFinalized(next, finalized)
                               ELSE next]

-----------------------------------------------------------------------------
(* step_sync *)

\* The local block built from a derived one.
Local(b) == [ctx |-> b.info.l1, hash |-> b.info.hash, k |-> b.k]
LocalChain(b) == Append(SubSeq(chain, 1, b.n - 1), Local(b))

NextBlock == Head(work.todo)
Advance == work' = [work EXCEPT !.todo = Tail(@)] /\ UNCHANGED pc

IsSiblingTarget ==
  /\ d.sibling # NoRequest
  /\ NextBlock.n = d.sibling.target /\ NextBlock.n <= l2_head_number

\* rebuild_block_as_sibling: the rebuilt block must have the expected root.
SyncRebuild ==
  /\ pc = "sync" /\ work.todo # <<>> /\ IsSiblingTarget
  /\ IF LocalChain(NextBlock) = d.sibling.root
     THEN /\ chain' = LocalChain(NextBlock)
          /\ d' = [d EXCEPT !.sibling = NoRequest, !.cycles = 0,
                            !.mismatches = 0, !.hold = Clear]
          /\ Advance
     ELSE Return(d) /\ UNCHANGED chain
  /\ NoFault /\ UNCHANGED <<l1, mempool, checkpoint>>

SyncSkip ==
  /\ pc = "sync" /\ work.todo # <<>> /\ ~IsSiblingTarget
  /\ NextBlock.n <= l2_head_number
  /\ Advance
  /\ NoFault /\ UNCHANGED <<l1, mempool, chain, checkpoint, d>>

\* build_and_insert_block: the parent must be the head.
InsertNext ==
  /\ NextBlock.n > l2_head_number
  /\ IF NextBlock.n = l2_head_number + 1
     THEN chain' = LocalChain(NextBlock) /\ Advance /\ UNCHANGED d
     ELSE Return(d) /\ UNCHANGED chain
  /\ NoFault /\ UNCHANGED <<l1, mempool, checkpoint>>

SyncInsert ==
  /\ pc = "sync" /\ work.todo # <<>> /\ ~IsSiblingTarget
  /\ InsertNext

\* Mutant of FullyCaughtUp: off by one at the L1 head.
FullyCaughtUpStrict == work.empty /\ work.next.processed > d.seen

\* An empty batch that reaches the L1 head ends the sync.
FullyCaughtUp == work.empty /\ work.next.processed >= d.seen

SyncCommit ==
  LET live == [ClearInternalState(d) EXCEPT
                 !.cycles = 0,
                 !.mode = IF BuilderMode THEN "builder" ELSE "fullnode"]
  IN  /\ pc = "sync" /\ work.todo = <<>>
      /\ IF d.rewind # None THEN UNCHANGED <<d, checkpoint>>
         ELSE IF FullyCaughtUp
         THEN Commit(live, work.next, FALSE)
         ELSE Commit(d, work.next, ~work.empty)
      /\ pc' = "idle" /\ work' = NoWork
      /\ NoFault /\ UNCHANGED <<l1, mempool, chain>>

-----------------------------------------------------------------------------
(* Verification (verify.rs), by step_builder and step_fullnode *)

\* The generic mismatch: derivation goes back to the block's L1 context.
GenericMismatchRewind(s, b) ==
  SetRewindTarget(
    [CountCycle(ClearInternalState(s)) EXCEPT !.mode = "sync",
                                              !.dv = RollbackTo(@, b.info.l1)],
    SaturatingPred(b.n))

\* classify_and_apply_verification: the fields afterwards, and whether it
\* returned an error.
Verification(s, b) ==
  LET Ok(t) == [d |-> t, err |-> FALSE]
      Err(t) == [d |-> t, err |-> TRUE]
      held == IsArmedFor(s.hold, b.n)
      released == IF held THEN [s EXCEPT !.hold = Clear] ELSE s
      action == ClassifyVerifyMismatch(b.filt, s.sibling # NoRequest, held,
                                       s.hold.deferrals)
  IN  CASE b.n <= s.ceiling -> Ok(s)
        [] b.n > s.ceiling /\ chain[b.n].ctx # b.info.l1 ->
             Ok(ApplySiblingReorgPlan(s, b.n, b.root))
        [] b.n > s.ceiling /\ chain[b.n].ctx = b.info.l1
             /\ b.root \in {<<>>, SubSeq(chain, 1, b.n)} -> Ok(released)
        [] OTHER ->
             CASE action = "sibling" ->
                    Ok(ApplySiblingReorgPlan(s, b.n, b.root))
               [] action = "noop" -> Err(s)
               [] action = "defer" -> Err([s EXCEPT !.hold = Deferred(@)])
               [] action = "exhausted" ->
                    Ok(RewindToReDerive(s, SaturatingPred(b.n),
                                        RollbackL1(s.anchor)))
               [] action = "generic" -> Err(GenericMismatchRewind(s, b))

\* The builder's loop stops at the first recovery; the fullnode's goes on.
LoopBroken ==
  BuilderMode /\ (d.rewind # None \/ d.sibling # NoRequest)

VerifyBlock ==
  /\ pc = "verify" /\ work.todo # <<>> /\ ~LoopBroken
  /\ NextBlock.n <= l2_head_number
  /\ LET v == Verification(d, NextBlock)
     IN  IF v.err THEN Return(v.d) ELSE d' = v.d /\ Advance
  /\ NoFault /\ UNCHANGED <<l1, mempool, chain, checkpoint>>

VerifyInsert ==
  /\ pc = "verify" /\ work.todo # <<>> /\ ~LoopBroken
  /\ InsertNext

\* derive_and_verify_from_l1 ends, and the builder goes on to its tick.
VerifyCommitBuilder ==
  /\ BuilderMode
  /\ pc = "verify" /\ (work.todo = <<>> \/ LoopBroken)
  /\ IF LoopBroken THEN UNCHANGED <<d, checkpoint>>
     ELSE Commit(d, work.next, work.next.processed > d.dv.processed)
  /\ pc' = IF d.rewind # None THEN "idle" ELSE "tick"
  /\ work' = NoWork
  /\ NoFault /\ UNCHANGED <<l1, mempool, chain>>

VerifyCommitFullnode ==
  /\ ~BuilderMode
  /\ pc = "verify" /\ work.todo = <<>>
  /\ IF d.rewind # None THEN UNCHANGED <<d, checkpoint>>
     ELSE Commit(d, work.next, ~work.empty)
  /\ pc' = "idle" /\ work' = NoWork
  /\ NoFault /\ UNCHANGED <<l1, mempool, chain>>

-----------------------------------------------------------------------------
(* step_builder: one tick *)

\* compute_tick_context: L2 block n belongs to L1 block n; on the bundle path
\* the pending queue is kept short.
EffectiveTarget ==
  LET room == IF Len(d.pending) < BUNDLE_PATH_PENDING_CAP
              THEN BUNDLE_PATH_PENDING_CAP - Len(d.pending) ELSE 0
  IN  IF BundlePath THEN Smaller(d.seen, l2_head_number + room) ELSE d.seen

MayBuild == l2_head_number < EffectiveTarget /\ ~IsArmed(d.hold)

TickIdle ==
  /\ pc = "tick" /\ ~MayBuild
  /\ pc' = "flush"
  /\ NoFault /\ UNCHANGED <<l1, mempool, chain, checkpoint, d, work>>

\* drain_rpc_queues: k cross-chain calls join the queue for the next batch.
\* Their entries will be executed in the last block of the tick.
Tick(k) ==
  /\ pc = "tick" /\ MayBuild
  /\ d' = [d EXCEPT !.entries = @ \o [j \in 1 .. k |-> EffectiveTarget]]
  /\ work' = [NoWork EXCEPT !.tick = [NoTick EXCEPT
                !.goal = EffectiveTarget, !.info = InfoAt(l1, d.seen),
                !.k = k, !.base = Len(d.entries)]]
  /\ pc' = "build"
  /\ NoFault /\ UNCHANGED <<l1, mempool, chain, checkpoint>>

BuildBlock ==
  /\ pc = "build"
  /\ LET tick == work.tick
         last == l2_head_number + 1 >= tick.goal
         queued == Len(d.pending) < MAX_PENDING_SUBMISSIONS
         pushed == tick.pushed + (IF queued THEN 1 ELSE 0)
         full == pushed >= MAX_BATCH_SIZE
     IN  /\ chain' = Append(chain, [ctx |-> tick.info.l1, hash |-> tick.info.hash,
                                    k |-> IF last THEN tick.k ELSE 0])
         /\ d' = IF queued THEN [d EXCEPT !.pending = Append(@, chain')] ELSE d
         /\ work' = [work EXCEPT !.tick.pushed = pushed, !.tick.inner = full]
         /\ pc' = IF full \/ last THEN "flush" ELSE "build"
  /\ NoFault /\ UNCHANGED <<l1, mempool, checkpoint>>

\* The block cannot be built: rollback_queue_drain, and back to sync.
BuildFails ==
  /\ pc = "build"
  /\ Return([d EXCEPT !.mode = "sync",
                      !.entries = SubSeq(@, 1, Smaller(work.tick.base, Len(@)))])
  /\ Fault /\ UNCHANGED <<l1, mempool, chain, checkpoint>>

\* flush_to_l1 returns to step_builder: from the flush inside the loop back
\* to building unless a recovery is pending, from the last one out of step().
FlushReturns(s) ==
  LET bail == \/ s.rewind # None \/ IsArmed(s.hold)
              \/ s.sibling # NoRequest \/ s.refresh # 0
  IN  /\ d' = s
      /\ IF work.tick.inner /\ ~bail
         THEN /\ work' = [NoWork EXCEPT !.tick = [work.tick EXCEPT
                                          !.pushed = 0, !.inner = FALSE]]
              /\ pc' = IF l2_head_number < work.tick.goal THEN "build" ELSE "flush"
         ELSE work' = NoWork /\ pc' = "idle"

-----------------------------------------------------------------------------
(* flush_to_l1: flush_precheck *)

NothingToFlush == d.pending = <<>> /\ d.entries = <<>>

FlushSkip ==
  /\ pc = "flush" /\ (NothingToFlush \/ IsArmed(d.hold) \/ d.cool)
  /\ FlushReturns(d)
  /\ NoFault /\ UNCHANGED <<l1, mempool, chain, checkpoint>>

\* The cooldown outlasts the step that failed, or the root cannot be read.
FlushFails ==
  /\ pc = "flush" /\ ~NothingToFlush /\ ~IsArmed(d.hold) /\ ~d.cool
  /\ FlushReturns(d)
  /\ Fault /\ UNCHANGED <<l1, mempool, chain, checkpoint>>

\* Mutant of Trimmed: confirmed blocks stay queued.
TrimmedNever(s, root) == s

\* Pending blocks up to the newest one the on-chain root belongs to are
\* confirmed: they leave the queue and move the anchor.  A divergent one asks
\* for a sibling reorg; the depth compared is the number of rewind cycles.
Trimmed(s, root) ==
  LET hits == {i \in 1 .. Len(s.pending) : root \in RootChain(s.pending[i])}
      pos == CHOOSE i \in hits : \A h \in hits : h <= i
      n == NumberOf(s.pending[pos])
  IN  IF hits = {} THEN s
      ELSE [s EXCEPT
              !.sibling = IF @ # NoRequest THEN @
                          ELSE FindRightmostTarget(s.pending, root, s.cycles, pos),
              !.pending = SubSeq(@, pos + 1, Len(@)),
              !.anchor = IF @ = NoAnchor \/ @.l2 < n THEN [l2 |-> n, l1 |-> s.seen]
                         ELSE @]

FlushTrim ==
  /\ pc = "flush" /\ ~NothingToFlush /\ ~IsArmed(d.hold) /\ ~d.cool
  /\ d' = Trimmed(d, OnChainRoot)
  /\ work' = [work EXCEPT !.root = OnChainRoot]
  /\ pc' = "check"
  /\ NoFault /\ UNCHANGED <<l1, mempool, chain, checkpoint>>

\* A queued sibling reorg is handed to step_sync, which needs the block still
\* in the chain: no rewind target.
FlushDispatch ==
  /\ pc = "check" /\ d.sibling # NoRequest
  /\ LET target == FlushPlanTarget(d.anchor, d.sibling.target)
     IN  FlushReturns([ClearInternalState(d) EXCEPT
                         !.sibling = d.sibling,
                         !.dv = RollbackTo([@ EXCEPT !.derived = target],
                                           RollbackL1(d.anchor)),
                         !.mode = "sync"])
  /\ NoFault /\ UNCHANGED <<l1, mempool, chain, checkpoint>>

FrontBlock == d.pending[1]
FrontIsStale == d.pending # <<>> /\ ContextOf(FrontBlock) + 1 <= d.seen

\* The L1 block the front block was built for has passed.
FlushStale ==
  /\ pc = "check" /\ d.sibling = NoRequest /\ d.refresh = 0 /\ FrontIsStale
  /\ IF ReorgDepthExceeded(l2_head_number - NumberOf(FrontBlock))
     THEN FlushReturns(d)
     ELSE FlushReturns([d EXCEPT !.refresh = NumberOf(FrontBlock)])
  /\ NoFault /\ UNCHANGED <<l1, mempool, chain, checkpoint>>

FlushWaitsForRefresh ==
  /\ pc = "check" /\ d.sibling = NoRequest
  /\ d.refresh # 0 \/ NothingToFlush
  /\ FlushReturns(d)
  /\ NoFault /\ UNCHANGED <<l1, mempool, chain, checkpoint>>

Proceed ==
  /\ pc = "check" /\ d.sibling = NoRequest /\ d.refresh = 0
  /\ ~FrontIsStale /\ ~NothingToFlush

-----------------------------------------------------------------------------
(* flush_to_l1: the pre-root check and the submission *)

\* The front blocks that share one L1 context, at most MAX_BATCH_SIZE.
BatchSize ==
  LET Run(n) == \A i \in 1 .. n : ContextOf(d.pending[i]) = ContextOf(FrontBlock)
      sizes == {n \in 0 .. Smaller(Len(d.pending), MAX_BATCH_SIZE) : Run(n)}
  IN  CHOOSE n \in sizes : \A m \in sizes : m <= n

Mismatch == d.pending # <<>> /\ PreRoot(FrontBlock) # work.root
MAX_FLUSH_MISMATCHES == 2
Mismatched == [d EXCEPT !.mismatches = Smaller(@ + 1, MAX_FLUSH_MISMATCHES)]
Persistent == d.mismatches + 1 >= MAX_FLUSH_MISMATCHES

\* Another L1 read may help.
FlushMismatchTransient ==
  /\ Proceed /\ Mismatch /\ ~Persistent
  /\ FlushReturns(Mismatched)
  /\ NoFault /\ UNCHANGED <<l1, mempool, chain, checkpoint>>

AnchorDiverged ==
  /\ d.anchor # NoAnchor /\ d.anchor.l2 <= l2_head_number
  /\ SubSeq(chain, 1, d.anchor.l2) # work.root

\* It persists: unless the anchor agrees with L1, a sibling reorg of the anchor
\* block is asked for; if that reorg is too deep the counter is reset.
FlushMismatchSibling ==
  /\ Proceed /\ Mismatch /\ Persistent /\ d.cycles = 0 /\ AnchorDiverged
  /\ LET s == [d EXCEPT !.mismatches = 0]
     IN  IF ReorgDepthExceeded(l2_head_number - d.anchor.l2) THEN FlushReturns(s)
         ELSE FlushReturns([s EXCEPT !.sibling = Request(d.anchor.l2, work.root)])
  /\ NoFault /\ UNCHANGED <<l1, mempool, chain, checkpoint>>

\* Otherwise, and always within a recovery (cycles > 0, which no run reaches:
\* step_sync resets the counter before the builder flushes again), derivation
\* goes back to before the front block.
FlushMismatchRewind ==
  /\ Proceed /\ Mismatch /\ Persistent
  /\ d.cycles > 0 \/ ~AnchorDiverged
  /\ LET before == SaturatingPred(NumberOf(FrontBlock))
         target == IF d.anchor = NoAnchor THEN 0
                   ELSE IF d.cycles > 0 THEN before
                   ELSE Larger(before, d.anchor.l2)
     IN  FlushReturns(RewindToReDerive(
           IF d.cycles > 0 THEN Mismatched ELSE [d EXCEPT !.mismatches = 0],
           target, RollbackL1(d.anchor)))
  /\ NoFault /\ UNCHANGED <<l1, mempool, chain, checkpoint>>

\* The batch takes every queued entry and arms the hold for its last block;
\* its proof is good for the L1 block after the front block's context.
Submission ==
  LET n == BatchSize
      k == Len(d.entries)
  IN  IF n = 0 THEN [NoTx EXCEPT !.ents = d.entries, !.target = Len(l1) + 1,
                                 !.sent = k]
      ELSE [root |-> d.pending[n], first |-> NumberOf(FrontBlock),
            ents |-> d.entries, target |-> ContextOf(FrontBlock) + 1,
            sent |-> k]

PreRootMatched(s) ==
  IF s.pending = <<>> THEN s ELSE [s EXCEPT !.mismatches = 0, !.cycles = 0]

\* Mutant of HoldArmed: the batch is sent without a hold.
HoldNotArmed(s) == s

\* FlushPlan::arm_hold: a plan with entries and blocks cannot be sent before.
HoldArmed(s) ==
  [s EXCEPT !.hold = IF s.entries # <<>> /\ BatchSize # 0
                     THEN Arm(@, NumberOf(Submission.root)) ELSE @]

FlushSubmit ==
  /\ Proceed /\ ~Mismatch
  /\ mempool' = mempool \cup {Submission}
  /\ work' = [work EXCEPT !.sent = Submission,
                          !.blocks = SubSeq(d.pending, 1, BatchSize)]
  /\ d' = [HoldArmed(PreRootMatched(d)) EXCEPT
             !.pending = SubSeq(@, BatchSize + 1, Len(@)),
             !.entries = <<>>]
  /\ pc' = "wait"
  /\ NoFault /\ UNCHANGED <<l1, chain, checkpoint>>

\* The send fails: the hold is cleared and the queues are put back.
FlushSendFails ==
  /\ Proceed /\ ~Mismatch
  /\ FlushReturns([PreRootMatched(d) EXCEPT !.hold = Clear, !.cool = TRUE])
  /\ Fault /\ UNCHANGED <<l1, mempool, chain, checkpoint>>

-----------------------------------------------------------------------------
(* flush_to_l1: after the submission *)

Sent == work.sent
HasEntries == Sent.ents # <<>>

\* The transaction is in its target block, the L1 blocks that can hold it
\* have passed, and how many of its entries L1 consumed.
Landed ==
  /\ Len(l1) >= Sent.target
  /\ LET batch == l1[Sent.target].batch
     IN  /\ batch.blocks = BlocksOf(Sent) /\ batch.ents = Len(Sent.ents)
         /\ batch # NoBatch
         /\ Sent.first # 0 => batch.root = WithEntries(Sent.root, batch.used)
Missed == Len(l1) >= Sent.target /\ ~Landed
Consumed == l1[Sent.target].batch.used

\* send_l2_to_l1_triggers fails for some entry after the batch went out.
TriggersNotSent ==
  /\ pc = "wait" /\ HasEntries
  /\ Landed => Consumed < Len(Sent.ents)
  /\ \E k \in 0 .. Len(Sent.ents) - 1 :
       mempool' = {IF tx = Sent THEN [tx EXCEPT !.sent = k] ELSE tx : tx \in mempool}
  /\ FlushReturns(RewindToReDerive(d, d.anchor.l2, RollbackL1(d.anchor)))
  /\ Fault /\ UNCHANGED <<l1, chain, checkpoint>>

\* Mutant of Confirmed: off by one in the L1 block.
ConfirmedOneEarly ==
  IF Sent.first = 0 THEN d
  ELSE [d EXCEPT !.anchor = [l2 |-> NumberOf(Sent.root), l1 |-> Sent.target - 1]]

\* The receipt moves the anchor to the last block of the batch.
Confirmed ==
  IF Sent.first = 0 THEN d
  ELSE [d EXCEPT !.anchor = [l2 |-> NumberOf(Sent.root), l1 |-> Sent.target]]

BatchConfirmed ==
  /\ pc = "wait" /\ Landed /\ (HasEntries => Consumed = Len(Sent.ents))
  /\ FlushReturns(IF HasEntries THEN [Confirmed EXCEPT !.hold = Clear]
                  ELSE Confirmed)
  /\ NoFault /\ UNCHANGED <<l1, mempool, chain, checkpoint>>

\* Mutant of PartlyConsumedTarget: the entry block itself is kept.
PartlyConsumedAtBlock(s) ==
  IF IsArmed(s.hold) THEN s.hold.block ELSE s.anchor.l2

\* Some trigger reverted, or only some entries were consumed: the block
\* before the entry block is the target.
PartlyConsumedTarget(s) ==
  SaturatingPred(IF IsArmed(s.hold) THEN s.hold.block ELSE s.anchor.l2)

BatchPartlyConsumed ==
  /\ pc = "wait" /\ Landed /\ HasEntries /\ Consumed < Len(Sent.ents)
  /\ FlushReturns(RewindToReDerive(Confirmed, PartlyConsumedTarget(Confirmed),
                                   RollbackL1(Confirmed.anchor)))
  /\ NoFault /\ UNCHANGED <<l1, mempool, chain, checkpoint>>

\* Mutant of NothingConsumed: the local root instead of the one read from L1.
NothingConsumedKeepsRoot(s) ==
  [s EXCEPT !.hold = Clear, !.sibling = Request(s.anchor.l2, Sent.root)]

\* No consumption was seen (none happened, or the logs could not be read):
\* the L1 root is read again, and the block is to be rebuilt to match it.
NothingConsumed(s) ==
  IF s.anchor = NoAnchor THEN s
  ELSE IF ReorgDepthExceeded(l2_head_number - s.anchor.l2)
  THEN [s EXCEPT !.hold = Clear]
  ELSE [s EXCEPT !.hold = Clear, !.sibling = Request(s.anchor.l2, OnChainRoot)]

BatchNotConsumed ==
  /\ pc = "wait" /\ Landed /\ HasEntries
  /\ \/ Consumed = 0 /\ FlushReturns(NothingConsumed(Confirmed)) /\ NoFault
     \/ Consumed > 0 /\ FlushReturns(NothingConsumed(Confirmed)) /\ Fault
     \/ Consumed = 0 /\ FlushReturns(Confirmed) /\ Fault
  /\ UNCHANGED <<l1, mempool, chain, checkpoint>>

\* The transaction was mined outside its target block and reverted.
BatchReverted ==
  /\ pc = "wait" /\ Missed /\ ~BundlePath
  /\ FlushReturns(RewindToReDerive(d, d.anchor.l2, RollbackL1(d.anchor)))
  /\ NoFault /\ UNCHANGED <<l1, mempool, chain, checkpoint>>

\* Mutant of Requeued: the blocks are dropped.
RequeuedEntriesOnly(s) ==
  [s EXCEPT !.hold = Clear, !.cool = TRUE, !.entries = Sent.ents]

\* The clones kept for a receipt failure go back to the front of the queues.
Requeued(s) ==
  [s EXCEPT !.hold = Clear, !.cool = TRUE, !.pending = work.blocks \o @,
            !.entries = Sent.ents]

\* No receipt: the bundle was dropped, or the wait timed out while the
\* transaction may still land.
BatchUnknown ==
  /\ pc = "wait"
  /\ IF Missed /\ BundlePath THEN NoFault ELSE Fault
  /\ FlushReturns(Requeued(d))
  /\ UNCHANGED <<l1, mempool, chain, checkpoint>>

-----------------------------------------------------------------------------
(* Restart *)

\* run(): everything in memory is gone; reth may have lost its last blocks.
\* A shutdown by signal first saves the checkpoint.
Restart(lost) ==
  /\ used.crashes < MaxCrashes /\ MishapsLeft
  /\ used' = [used EXCEPT !.crashes = @ + 1]
  /\ chain' = SubSeq(chain, 1, l2_head_number - lost)
  /\ d' = [FreshDriver EXCEPT !.anchor = d.anchor,
                              !.dv = Restarted(checkpoint', chain')]
  /\ pc' = "idle" /\ work' = NoWork
  /\ UNCHANGED <<l1, mempool>>

Crash(lost) == UNCHANGED checkpoint /\ Restart(lost)

Shutdown == pc = "idle" /\ checkpoint' = d.dv.processed /\ Restart(0)

-----------------------------------------------------------------------------
StepNext ==
  \/ StepRewind \/ StepRewindFails \/ Step
  \/ StepRefresh \/ StepRefreshFails
  \/ StepReorg \/ StepUnchanged \/ StepLogs \/ StepDerive \/ StepFails
  \/ SyncRebuild \/ SyncSkip \/ SyncInsert \/ SyncCommit
  \/ VerifyBlock \/ VerifyInsert
  \/ VerifyCommitBuilder \/ VerifyCommitFullnode
  \/ TickIdle \/ (\E k \in 0 .. MaxEntries : Tick(k))
  \/ BuildBlock \/ BuildFails

FlushNext ==
  \/ FlushSkip \/ FlushFails \/ FlushTrim \/ FlushDispatch
  \/ FlushStale \/ FlushWaitsForRefresh
  \/ FlushMismatchTransient \/ FlushMismatchSibling \/ FlushMismatchRewind
  \/ FlushSubmit \/ FlushSendFails
  \/ TriggersNotSent \/ BatchConfirmed \/ BatchPartlyConsumed
  \/ BatchNotConsumed \/ BatchReverted \/ BatchUnknown

RestartNext ==
  \/ \E lost \in 0 .. Smaller(MaxLost, l2_head_number) : Crash(lost)
  \/ Shutdown

Next == L1Next \/ StepNext \/ FlushNext \/ RestartNext

Spec == Init /\ [][Next]_vars

\* The driver's loop is one task that keeps being polled: whatever step() can
\* do next it does.  Nothing is assumed of L1.
FairSpec == Spec /\ WF_vars(StepNext \/ FlushNext)

-----------------------------------------------------------------------------
(* Properties *)

L1Number == 0 .. MaxL1
L2Number == 0 .. MaxL1
Hash == 0 .. MaxReorgs
Root == Seq([ctx : L1Number, hash : Hash, k : 0 .. MaxEntries])
Info == [l1 : L1Number, hash : Hash]
Batch == [blocks : Seq([n : L2Number, k : 0 .. MaxEntries]), ents : Nat,
          used : Nat, root : Root]
L1Chain == Seq([hash : Hash, batch : Batch])
Pipeline == [processed : L1Number, derived : L2Number, info : Info,
             cursor : Seq([n : L2Number, l1 : L1Number, hash : Hash])]
Tx == [root : Root, first : L2Number, ents : Seq(L2Number),
       target : 0 .. MaxL1 + 1, sent : Nat]

\* Type correctness, with the bounds the code puts on its own memory: the
\* pending queue (MAX_PENDING_SUBMISSIONS) and the reorg-detection cursor
\* (commit_batch keeps at most twice REORG_CHECK_DEPTH entries).
TypeOK ==
  /\ l1 \in L1Chain /\ Len(l1) <= MaxL1
  /\ \A tx \in mempool : tx \in Tx
  /\ chain \in Root /\ checkpoint \in L1Number
  /\ d \in [mode : {"sync", "builder", "fullnode"}, pending : Seq(Root),
            entries : Seq(L2Number),
            hold : [state : {"clear", "armed"}, block : L2Number,
                    deferrals : 0 .. MAX_ENTRY_VERIFY_DEFERRALS - 1],
            anchor : [l2 : L2Number, l1 : L1Number],
            rewind : {None} \cup L2Number,
            sibling : [target : L2Number, root : Root],
            refresh : L2Number, ceiling : L2Number,
            mismatches : 0 .. MAX_FLUSH_MISMATCHES,
            cycles : 0 .. REORG_SAFETY_THRESHOLD,
            seen : L1Number, cool : BOOLEAN, dv : Pipeline]
  /\ Len(d.pending) <= MAX_PENDING_SUBMISSIONS
  /\ Len(d.dv.cursor) <= 2 * REORG_CHECK_DEPTH
  /\ pc \in {"idle", "refresh", "latest", "logs", "blocks", "sync", "verify",
             "tick", "build", "flush", "check", "wait"}
  /\ work.next \in Pipeline /\ work.sent \in Tx /\ work.root \in Root
  /\ work.blocks \in Seq(Root) /\ work.logs \in L1Chain

\* The chain a node that starts from nothing derives from the present L1.
Canonical ==
  LET blocks == Deduplicated(Scan(NewPipeline, l1, Len(l1)).blocks)
  IN  [j \in 1 .. Len(blocks) |-> Local(blocks[j])]

\* What is on L1 can be derived: re-executing the batches of L1 with the
\* filtering of unconsumed entries gives exactly the contract's state root,
\* whatever the builder submitted, retried, refreshed or lost before
\* (DERIVATION.md section 8; flush_to_l1 and derive_next_batch must agree).
SubmittedIsDerivable == Canonical = OnChainRoot

\* Every confirmed block is in the local chain with the root L1 has for it.
AgreesWithL1 == IsPrefix(OnChainRoot, chain)

CaughtUp == d.mode # "sync" /\ d.dv.processed = Len(l1)
NoRecovery == d.rewind = None /\ d.sibling = NoRequest /\ d.refresh = 0

\* Between two steps, a node that has processed all of L1 and has no recovery
\* scheduled agrees with L1 (DERIVATION.md invariant 20: verification and the
\* recovery paths together leave no silent divergence), and the builder extends
\* only a chain that agrees with what it has seen of L1 (step_builder builds
\* after derive_and_verify_from_l1 in the same step).
SettledAgrees ==
  /\ pc = "idle" /\ CaughtUp /\ NoRecovery /\ ~IsArmed(d.hold) => AgreesWithL1
  /\ pc = "build" /\ CaughtUp => AgreesWithL1

\* A batch carries only entries of its own last block: those of any other
\* block could never be consumed from the root chain that is posted
\* (flush_to_l1: "limit the batch to ONLY the blocks that were built WITH
\* those entries").
EntriesWithTheirBlock ==
  \A tx \in mempool : \A j \in 1 .. Len(tx.ents) : tx.ents[j] = Len(tx.root)

\* What is queued for submission is what reth has: no recovery leaves a block
\* in pending_submissions that the chain no longer contains.
PendingIsLocal ==
  pc \in {"idle", "flush", "check"} /\ d.rewind = None =>
    \A i \in 1 .. Len(d.pending) : IsPrefix(d.pending[i], chain)

\* A failed call may leave a block behind that was built on the old side of a
\* sibling reorg; nothing else does.
QueueIsLocal == used.faults = 0 => PendingIsLocal

\* No block is forgotten: every local block above the confirmed ones is queued
\* for submission, through drops, requeues, refreshes and sibling reorgs.
UnconfirmedIsQueued ==
  pc = "idle" /\ d.mode = "builder" /\ CaughtUp /\ NoRecovery =>
    \A n \in Len(OnChainRoot) + 1 .. l2_head_number :
      \E i \in 1 .. Len(d.pending) : NumberOf(d.pending[i]) = n

\* The anchor's L1 block is not before the batch that confirmed the anchor:
\* rolling derivation back to it never loses confirmed blocks
\* (flush_precheck: "safe upper bound").
AnchorSound ==
  d.anchor # NoAnchor =>
    \E i \in 1 .. Smaller(Len(l1), d.anchor.l1) :
      /\ l1[i].batch.blocks # <<>>
      /\ Last(l1[i].batch.blocks).n >= d.anchor.l2

\* A sibling reorg is asked for the block the expected root belongs to: only
\* then can rebuild_block_as_sibling pass its root assertion.
SiblingMatchesL1 ==
  d.sibling # NoRequest =>
    d.sibling.root = SubSeq(OnChainRoot, 1, d.sibling.target)

\* While the sibling reorg waits in sync mode, the batch with its target is
\* still ahead of derivation, which will hand it to rebuild_block_as_sibling.
TargetStillAhead ==
  pc = "idle" /\ d.mode = "sync" /\ d.sibling # NoRequest =>
    \E i \in d.dv.processed + 1 .. Len(l1) :
      \E j \in 1 .. Len(l1[i].batch.blocks) :
        l1[i].batch.blocks[j].n = d.sibling.target

\* Derivation never passes a block it did not apply: every L2 block of an L1
\* block already processed is in the local chain, whatever errors, rewinds and
\* rollbacks happened in between (DERIVATION.md invariant 8).
NothingSkipped ==
  pc = "idle" /\ d.mode = "sync" /\ d.rewind = None =>
    \A i \in 1 .. d.dv.processed : \A j \in 1 .. Len(l1[i].batch.blocks) :
      l1[i].batch.blocks[j].n <= l2_head_number

\* The reorg-detection cursor is in order, in both coordinates, after every
\* commit, rollback, cap, prune and rebuild: detect_reorg's walk and
\* rollback_to's partition rely on it.  (Not when a reorganisation and another
\* mishap come together: a batch that vanishes between its log and its header
\* leaves cursor entries that look canonical.)
CursorSorted ==
  used.reorgs = 0 \/ used.faults + used.crashes = 0 =>
    \A i, j \in 1 .. Len(d.dv.cursor) : i < j =>
      /\ d.dv.cursor[i].n < d.dv.cursor[j].n
      /\ d.dv.cursor[i].l1 <= d.dv.cursor[j].l1

\* What the driver remembers of the chain fits it after every reorganisation,
\* recovery and restart: the L1 blocks it will compare (the derivation cursor)
\* and, unless a failure left a block behind that was built on the old side of
\* a sibling reorg, the blocks it will submit (pending_submissions).
RemembersChain == QueueIsLocal /\ CursorSorted

\* The hold protects the nonces of the entry block: it is armed for the last
\* block of a batch with entries as long as that batch is in flight, and no
\* block is built while it is armed (FlushPlan's invariant 1, step_builder's
\* gate and the bail after an inner flush).
HoldDiscipline ==
  /\ pc = "wait" /\ HasEntries /\ Sent.first # 0 =>
       IsArmedFor(d.hold, NumberOf(Sent.root))
  /\ pc = "build" => ~IsArmed(d.hold)

\* Whichever path scheduled it, a pending rewind finds the driver in sync mode
\* with nothing queued: no block or entry of the abandoned chain can be
\* submitted before, or survive, the rewind.
RewindIsClean ==
  d.rewind # None =>
    /\ d.mode = "sync" /\ pc \in {"idle", "verify"}
    /\ d.pending = <<>> /\ d.entries = <<>> /\ ~IsArmed(d.hold)

\* Recovery never destroys what is right: while L1 stands still, a local block
\* that agrees with L1 is not replaced by another one of the same number.  (L1
\* has not reorganised: a bundle that missed its block may land in the sibling
\* of that block after the driver has decided to refresh.)
KeepsConfirmed(n) ==
  n <= Len(OnChainRoot) /\ SubSeq(chain, 1, n) = SubSeq(OnChainRoot, 1, n)
    => SubSeq(chain', 1, n) = SubSeq(chain, 1, n)

ConfirmedNotReplaced ==
  [][l1' = l1 /\ used.reorgs = 0 =>
       \A n \in 1 .. Smaller(Len(chain), Len(chain')) : KeepsConfirmed(n)]_vars

\* Every recovery ends: a node in sync mode gets out of it again.
SyncEnds == d.mode = "sync" ~> d.mode # "sync"

\* Once L1 is quiet the node agrees with it for good: after failures and
\* restarts, and after reorganisations that detect_reorg can see (DERIVATION.md
\* section 7), unless the two come together, when blocks that were inserted
\* but not committed, or a cursor rebuilt from the headers, hide the change.
Converges ==
  <>[](AgreesWithL1 \/ (used.reorgs > 0 /\ used.faults + used.crashes > 0))
=============================================================================
