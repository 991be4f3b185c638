------------------------- MODULE CallQueuesBelowCap -------------------------
(***************************************************************************)
(* Proofs about the call queues that need a hypothesis: that the pending   *)
(* L1 queue stays below its cap, and what each theorem says besides.       *)
(***************************************************************************)
EXTENDS CallQueuesProofs

\* finalize_block_entries has nothing to trim.
BelowCap == Len(pending_l1.entries) <= MAX_PENDING_CROSS_CHAIN_ENTRIES

\* The steps that move the pending queue as a whole: into the batch, back, or
\* away.  Every other step appends a group to it or is one of the build loop.
LEMMA WholeQueueMoves ==
  ASSUME Core, [Next]_vars,
         ~DrainCrossChainCalls, ~DrainCall, ~DrainL2ToL1Calls, ~DrainL2ToL1Call, ~BuildBlock, ~BuildFails
  PROVE  /\ pending_l1' \in {pending_l1, flight.q, EmptyQueue}
         /\ flight'.q \in {pending_l1, flight.q, EmptyQueue}
         /\ Ticking' => Ticking /\ SameMark /\ tick'.calls = tick.calls /\ tick'.outs = tick.outs
                        /\ tick'.txs = tick.txs /\ tick'.left = tick.left /\ tick'.built = tick.built
         /\ tick'.inner => tick.inner
         /\ pc' \in {"incoming", "outgoing"} =>
              pc' = pc /\ tick' = tick /\ pending_l1' = pending_l1 /\ flight' = flight
         /\ pc = "outgoing" => ToSet(tick'.todo) = ToSet(tick.todo)
         /\ ToSet(tick'.todo) \subseteq ToSet(tick.todo)
<1> USE DEF Core
<1>a. NoFlight.q = EmptyQueue
  BY DEF NoFlight
<1>1. CASE RpcNext
  BY <1>1 DEF RpcNext, QueueCrossChainCall, QueueL2ToL1Call, QueueL1ForwardTx, driver, Ticking, SameMark
<1>2. CASE RecoveryNext
  <2>1. pc' = pc /\ tick' = tick /\ flight' = flight /\ pending_l1' \in {pending_l1, EmptyQueue}
    BY <1>2 DEF RecoveryNext, Recovers, DerivationRewinds, HoldReleased, SyncDone, RebuildWithFreshL1Context,
       CooldownEnds, ClearInternalState
  <2>2. pc \in {"incoming", "outgoing"} => pending_l1' = pending_l1
    BY <1>2 DEF RecoveryNext, Recovers, DerivationRewinds, HoldReleased, SyncDone, RebuildWithFreshL1Context,
       CooldownEnds, ClearInternalState
  <2> QED
    BY <2>1, <2>2 DEF Ticking, SameMark
<1>3. CASE InjectHeldL2Txs
  BY <1>3 DEF InjectHeldL2Txs, Ticking, SameMark
<1>4. CASE CommitForwardTxs
  <2>1. ~Ticking' /\ tick'.todo = tick.todo /\ ~tick'.inner
    BY <1>4, InnerReset DEF CommitForwardTxs, Ticking
  <2> QED
    BY <1>4, <2>1 DEF CommitForwardTxs, driver
<1>5. CASE FlushOnly
  BY <1>5, NoTickFields DEF FlushOnly, driver, Ticking, Control
<1>6. CASE FlushTrims \/ SendSucceeds \/ ForwardQueuedL1Txs \/ SendTriggers
  <2>1. /\ pending_l1' = pending_l1 /\ flight' = flight /\ tick' = tick
        /\ pc \in {"flush", "send", "forward", "triggers"}
        /\ pc' \in {"flush", "forward", "triggers", "receipt"}
    BY <1>6 DEF FlushTrims, SendSucceeds, ForwardQueuedL1Txs, SendTriggers, driver, Prechecked
  <2> QED
    BY <2>1 DEF Ticking, SameMark
<1>7. CASE CollectBatch
  <2>1. /\ flight'.q = pending_l1 /\ pending_l1' = EmptyQueue /\ tick' = tick /\ pc = "flush" /\ pc' = "send"
    BY <1>7 DEF CollectBatch, Prechecked
  <2> QED
    BY <2>1 DEF Ticking, SameMark
<1>8. ASSUME NEW bail, Return(bail), pc \in {"flush", "send", "triggers", "receipt"},
             pending_l1' \in {pending_l1, flight.q, EmptyQueue}
      PROVE  /\ pending_l1' \in {pending_l1, flight.q, EmptyQueue}
             /\ flight'.q \in {pending_l1, flight.q, EmptyQueue}
             /\ Ticking' => Ticking /\ SameMark /\ tick'.calls = tick.calls /\ tick'.outs = tick.outs
                            /\ tick'.txs = tick.txs /\ tick'.left = tick.left /\ tick'.built = tick.built
             /\ tick'.inner => tick.inner
             /\ pc' \notin {"incoming", "outgoing"} /\ pc # "outgoing"
             /\ ToSet(tick'.todo) \subseteq ToSet(tick.todo)
  <2>1. flight' = NoFlight /\ ~tick'.inner
    BY <1>8, ReturnFields
  <2>2. CASE tick.inner /\ pc' = "build" /\ tick' = [tick EXCEPT !.inner = FALSE]
    BY <1>8, <1>a, <2>1, <2>2, InnerReset DEF Ticking
  <2>3. CASE pc' = "idle" /\ tick' = NoTick
    BY <1>8, <1>a, <2>1, <2>3, NoTickFields, EmptySeqFacts DEF Ticking
  <2> QED
    BY <1>8, <2>2, <2>3, ReturnFields
<1>9. CASE FlushSkips \/ FlushFindsStaleContext \/ FlushFindsDivergentAnchor \/ FlushRewinds
  <2>1. PICK bail : Return(bail) /\ pc = "flush"
    BY <1>9 DEF FlushSkips, FlushFindsStaleContext, FlushFindsDivergentAnchor, FlushRewinds, Prechecked
  <2>2. pending_l1' \in {pending_l1, flight.q, EmptyQueue}
    BY <1>9 DEF FlushSkips, FlushFindsStaleContext, FlushFindsDivergentAnchor, FlushRewinds,
       ClearInternalState, driver
  <2> QED
    BY <1>8, <2>1, <2>2
<1>10. CASE SendFails \/ BatchFails \/ ReceiptConfirms \/ ReceiptConfirmsNothing \/ ReceiptTimesOut
  <2>1. PICK bail : Return(bail) /\ pc \in {"send", "triggers", "receipt"}
    BY <1>10 DEF SendFails, BatchFails, ReceiptConfirms, ReceiptConfirmsNothing, ReceiptTimesOut
  <2>2. pending_l1' \in {pending_l1, flight.q, EmptyQueue}
    BY <1>10 DEF SendFails, BatchFails, ReceiptConfirms, ReceiptConfirmsNothing, ReceiptTimesOut,
       ClearInternalState, Requeue, driver
  <2> QED
    BY <1>8, <2>1, <2>2
<1>11. CASE UNCHANGED vars
  BY <1>11 DEF vars, driver, Ticking, SameMark
<1> QED
  BY <1>1, <1>2, <1>3, <1>4, <1>5, <1>6, <1>7, <1>9, <1>10, <1>11 DEF Next, TickNext, FlushNext

-----------------------------------------------------------------------------
(* The groups stay in step *)

\* What is left of q when this tick's drain is rolled back.
Rollback(q) == truncate_to(q, tick.len, tick.groups)

\* The marks the drain took are within the queue while it appends, and the
\* queue is in step at them until the build loop is through.
RollbackInStep ==
  /\ Ticking => InStep(Rollback(pending_l1)) /\ InStep(Rollback(flight.q))
  /\ pc \in {"incoming", "outgoing"} =>
       tick.len <= Len(pending_l1.entries) /\ tick.groups <= Len(pending_l1.groups)

GroupsInv == GroupsInStep /\ RollbackInStep

\* A drained call's group, added after the marks.
LEMMA DrainKeepsGroups ==
  ASSUME Types, Types', GroupsInv, NEW c \in Calls, Appended(pending_l1, c, L1Count[c], pending_l1'),
         SameMark, flight' = flight, pc \in {"incoming", "outgoing"}
  PROVE  GroupsInv'
<1>1. /\ pending_l1 \in QueuesOver(Calls) /\ pending_l1' \in QueuesOver(Calls)
      /\ tick.len \in Nat /\ tick.groups \in Nat
  BY TickFields, QueuesAreOverCalls DEF Types, DriverTypes, LocalTypes
<1>2. /\ Len(pending_l1.entries) \in Nat /\ Len(pending_l1.groups) \in Nat
      /\ tick.len <= Len(pending_l1.entries) /\ tick.groups <= Len(pending_l1.groups)
      /\ InStep(Rollback(pending_l1)) /\ InStep(Rollback(flight.q)) /\ InStep(pending_l1) /\ InStep(flight.q)
  BY <1>1, QueueFields DEF GroupsInv, RollbackInStep, Ticking, GroupsInStep
<1>3. tick.len \in 0..Len(pending_l1.entries) /\ tick.groups \in 0..Len(pending_l1.groups)
  BY <1>1, <1>2
<1>4. L1Count[c] \in Nat \ {0} /\ L1Count[c] \in Nat
  BY CallQueuesAssumption
<1>5. InStep(pending_l1')
  BY <1>1, <1>2, <1>4, AppendedInStep
<1>6. truncate_to(pending_l1', tick.len, tick.groups) = truncate_to(pending_l1, tick.len, tick.groups)
  BY <1>1, <1>3, <1>4, TruncateForgetsAppended
<1>7. InStep(Rollback(pending_l1))' /\ InStep(Rollback(flight.q))'
  BY <1>2, <1>6 DEF Rollback, SameMark
<1>8. tick'.len <= Len(pending_l1'.entries) /\ tick'.groups <= Len(pending_l1'.groups)
  <2>1. /\ Len(pending_l1'.entries) = Len(pending_l1.entries) + L1Count[c]
        /\ Len(pending_l1'.groups) = Len(pending_l1.groups) + 1
    BY DEF Appended
  <2> QED
    BY <1>1, <1>2, <1>4, <2>1 DEF SameMark
<1> QED
  BY <1>2, <1>5, <1>7, <1>8 DEF GroupsInv, GroupsInStep, RollbackInStep

\* No step takes entries and group starts out of step below the cap.
LEMMA NextGroups ==
  ASSUME Core, Core', BelowCap, GroupsInv, [Next]_vars
  PROVE  GroupsInv'
<1> USE DEF Core
<1>a. /\ pending_l1 \in QueuesOver(Calls) /\ pending_l1' \in QueuesOver(Calls)
      /\ tick.len \in Nat /\ tick.groups \in Nat /\ tick'.len \in Nat /\ tick'.groups \in Nat
  BY TickFields, QueuesAreOverCalls DEF Types, DriverTypes, LocalTypes
<1>b. /\ InStep(EmptyQueue) /\ truncate_to(EmptyQueue, tick.len, tick.groups) = EmptyQueue
      /\ truncate_to(EmptyQueue, tick'.len, tick'.groups) = EmptyQueue
  BY <1>a, EmptyQueueFields
<1>c. NoFlight.q = EmptyQueue
  BY DEF NoFlight
<1>1. CASE DrainCrossChainCalls
  <2>1. /\ tick'.len = Len(pending_l1.entries) /\ tick'.groups = Len(pending_l1.groups)
        /\ pc = "idle" /\ pending_l1' = pending_l1 /\ flight' = NoFlight
    BY <1>1, StartOfDrain DEF DrainCrossChainCalls, driver, Control, InFlight
  <2>2. truncate_to(pending_l1', tick'.len, tick'.groups) = pending_l1
    BY <1>a, <2>1, TruncateAtEnd
  <2>3. Rollback(pending_l1)' = pending_l1 /\ Rollback(flight.q)' = EmptyQueue
    BY <1>b, <1>c, <2>1, <2>2 DEF Rollback
  <2>4. Len(pending_l1.entries) \in Nat /\ Len(pending_l1.groups) \in Nat
    BY <1>a, QueueFields
  <2> QED
    BY <1>b, <1>c, <2>1, <2>3, <2>4 DEF GroupsInv, GroupsInStep, RollbackInStep
<1>2. CASE DrainCall
  <2>1. PICK c \in Incoming :
           /\ SameMark /\ pc = "incoming" /\ pc' = "incoming"
           /\ pending_l1' = pending_l1 \/ Appended(pending_l1, c, L1Count[c], pending_l1')
    BY <1>2, DrainOfCall
  <2>2. flight' = flight /\ c \in Calls
    BY <1>2 DEF DrainCall, Calls
  <2>3. CASE pending_l1' = pending_l1
    BY <2>1, <2>2, <2>3 DEF GroupsInv, GroupsInStep, RollbackInStep, Rollback, SameMark, Ticking
  <2> QED
    BY <2>1, <2>2, <2>3, DrainKeepsGroups
<1>3. CASE DrainL2ToL1Calls
  <2>1. SameMark /\ pc = "incoming" /\ pending_l1' = pending_l1 /\ flight' = flight
    BY <1>3, StartOfOutgoing DEF DrainL2ToL1Calls, driver
  <2> QED
    BY <2>1 DEF GroupsInv, GroupsInStep, RollbackInStep, Rollback, SameMark, Ticking
<1>4. CASE DrainL2ToL1Call
  <2>1. PICK c \in Outgoing :
           SameMark /\ pc = "outgoing" /\ Appended(pending_l1, c, L1Count[c], pending_l1')
    BY <1>4, DrainOfOutgoing
  <2>2. flight' = flight /\ c \in Calls
    BY <1>4 DEF DrainL2ToL1Call, Calls
  <2> QED
    BY <2>1, <2>2, DrainKeepsGroups
<1>5. CASE BuildBlock
  <2>1. /\ SameMark /\ pc = "build" /\ pc' \in {"flush", "build"} /\ flight' = flight
        /\ \/ pending_l1' = EmptyQueue
           \/ pending_l1' = trim_entries_from_front(pending_l1, MAX_PENDING_CROSS_CHAIN_ENTRIES)
    BY <1>5, BuildOfBlock DEF BuildBlock
  <2>2. trim_entries_from_front(pending_l1, MAX_PENDING_CROSS_CHAIN_ENTRIES) = pending_l1
    <3>1. MAX_PENDING_CROSS_CHAIN_ENTRIES \in Nat
      BY CallQueuesAssumption
    <3> QED
      BY <1>a, <3>1, TrimFields DEF BelowCap
  <2> QED
    BY <1>b, <2>1, <2>2 DEF GroupsInv, GroupsInStep, RollbackInStep, Rollback, SameMark, Ticking
<1>6. CASE BuildFails
  <2>1. /\ pc = "build" /\ pending_l1' = Rollback(pending_l1) /\ flight' = flight /\ pc' = "idle" /\ ~tick'.inner
    BY <1>6, NoTickFields DEF BuildFails, Rollback
  <2> QED
    BY <2>1 DEF GroupsInv, GroupsInStep, RollbackInStep, Ticking
<1>7. CASE /\ ~DrainCrossChainCalls /\ ~DrainCall /\ ~DrainL2ToL1Calls /\ ~DrainL2ToL1Call
           /\ ~BuildBlock /\ ~BuildFails
  <2>1. /\ pending_l1' \in {pending_l1, flight.q, EmptyQueue}
        /\ flight'.q \in {pending_l1, flight.q, EmptyQueue}
        /\ Ticking' => Ticking /\ SameMark
        /\ pc' \in {"incoming", "outgoing"} => pc' = pc /\ tick' = tick /\ pending_l1' = pending_l1
    BY <1>7, WholeQueueMoves
  <2>2. GroupsInStep'
    BY <1>b, <2>1 DEF GroupsInv, GroupsInStep
  <2>3. Ticking' => InStep(Rollback(pending_l1))' /\ InStep(Rollback(flight.q))'
    BY <1>b, <2>1 DEF GroupsInv, RollbackInStep, Rollback, SameMark
  <2>4. RollbackInStep'
    BY <2>1, <2>3 DEF GroupsInv, RollbackInStep
  <2> QED
    BY <2>2, <2>4 DEF GroupsInv
<1> QED
  BY <1>1, <1>2, <1>3, <1>4, <1>5, <1>6, <1>7

\* Every queue starts empty, hence in step.
LEMMA InitGroups == Init => GroupsInv
<1>1. InStep(EmptyQueue) /\ NoFlight.q = EmptyQueue
  BY EmptyQueueFields DEF NoFlight
<1> QED
  BY <1>1, NoTickFields DEF Init, GroupsInv, GroupsInStep, RollbackInStep, Ticking

\* The groups are in step in every state of a run that stays below the cap.
LEMMA GroupsHold == Spec /\ []BelowCap => []GroupsInv
<1>1. Core /\ Core' /\ BelowCap /\ GroupsInv /\ [Next]_vars => GroupsInv'
  BY NextGroups
<1> QED
  BY <1>1, InitGroups, CoreHolds, PTL DEF Spec

\* pending_queue.rs: as long as the pending queue is never cut for its size,
\* the entries and the group starts stay in step through every drain, rollback,
\* requeue and recovery.
THEOREM GroupsStayInStep == Spec /\ []BelowCap => []GroupsInStep
<1>1. GroupsInv => GroupsInStep
  BY DEF GroupsInv
<1> QED
  BY <1>1, GroupsHold, PTL

-----------------------------------------------------------------------------
(* The queue of the L2->L1 calls *)

\* Its calls are distinct, and not the ones this tick has drained.
OutApart ==
  /\ IsInjective(out) /\ ToSet(out) \subseteq accepted
  /\ pc = "outgoing" => IsInjective(tick.todo)
  /\ Ticking => /\ IsInjective(tick.outs) /\ ToSet(tick.outs) \subseteq accepted
                /\ ToSet(tick.outs) \cap ToSet(out) = {}

\* No step makes an outgoing call wait twice, or wait and be drained at once.
LEMMA NextOutApart ==
  ASSUME Core, Core', OutApart, [Next]_vars
  PROVE  OutApart'
<1> USE DEF Core
<1>a. out \in Seq(Outgoing) /\ tick.outs \in Seq(Outgoing)
  BY TickFields DEF Types, SharedTypes, LocalTypes
<1>b. accepted \subseteq accepted'
  BY DEF Next, RpcNext, QueueCrossChainCall, QueueL2ToL1Call, QueueL1ForwardTx,
     TickNext, DrainCrossChainCalls, DrainCall, DrainL2ToL1Calls, DrainL2ToL1Call, InjectHeldL2Txs,
     BuildBlock, BuildFails, CommitForwardTxs, FlushOnly,
     FlushNext, FlushSkips, FlushTrims, FlushFindsStaleContext, FlushFindsDivergentAnchor,
     FlushRewinds, CollectBatch, SendFails, SendSucceeds, ForwardQueuedL1Txs, SendTriggers, BatchFails,
     ReceiptConfirms, ReceiptConfirmsNothing, ReceiptTimesOut,
     RecoveryNext, Recovers, DerivationRewinds, HoldReleased, SyncDone, RebuildWithFreshL1Context,
     CooldownEnds, history, vars
<1>c. out' = out \/ (\E c \in Outgoing : QueueL2ToL1Call(c)) \/ DrainL2ToL1Calls \/ BuildFails
  BY DEF Next, RpcNext, QueueCrossChainCall, QueueL1ForwardTx,
     TickNext, DrainCrossChainCalls, DrainCall, DrainL2ToL1Call, InjectHeldL2Txs,
     BuildBlock, CommitForwardTxs, FlushOnly,
     FlushNext, FlushSkips, FlushTrims, FlushFindsStaleContext, FlushFindsDivergentAnchor,
     FlushRewinds, CollectBatch, SendFails, SendSucceeds, ForwardQueuedL1Txs, SendTriggers, BatchFails,
     ReceiptConfirms, ReceiptConfirmsNothing, ReceiptTimesOut,
     RecoveryNext, Recovers, DerivationRewinds, HoldReleased, SyncDone, RebuildWithFreshL1Context,
     CooldownEnds, shared, vars
<1>1. CASE \E c \in Outgoing : QueueL2ToL1Call(c)
  <2>1. PICK c \in Outgoing : QueueL2ToL1Call(c)
    BY <1>1
  <2>2. /\ c \notin accepted /\ accepted' = accepted \cup {c} /\ out' = Append(out, c)
        /\ tick' = tick /\ pc' = pc /\ pc # "outgoing"
    BY <2>1 DEF QueueL2ToL1Call
  <2>3. ToSet(out') = ToSet(out) \cup {c} /\ IsInjective(out')
    BY <1>a, <2>2, AppendFacts DEF OutApart
  <2> QED
    BY <2>2, <2>3 DEF OutApart, Ticking
<1>2. CASE DrainL2ToL1Calls
  <2>1. tick'.todo = out /\ tick'.outs = out /\ out' = <<>> /\ pc' = "outgoing"
    BY <1>2, StartOfOutgoing
  <2> QED
    BY <1>b, <2>1, EmptySeqFacts DEF OutApart
<1>3. CASE BuildFails
  <2>1. out' = out \o tick.outs /\ pc = "build" /\ pc' = "idle" /\ ~tick'.inner
    BY <1>3, NoTickFields DEF BuildFails
  <2>2. ToSet(out') = ToSet(out) \cup ToSet(tick.outs) /\ IsInjective(out')
    BY <1>a, <2>1, ConcatFacts DEF OutApart, Ticking
  <2> QED
    BY <1>b, <2>1, <2>2 DEF OutApart, Ticking
<1>4. CASE DrainCrossChainCalls
  <2>1. tick'.outs = <<>> /\ pc' = "incoming" /\ out' = out
    BY <1>4, StartOfDrain DEF DrainCrossChainCalls
  <2> QED
    BY <1>b, <2>1, EmptySeqFacts DEF OutApart
<1>5. CASE DrainCall
  <2>1. tick'.outs = tick.outs /\ pc = "incoming" /\ pc' = "incoming" /\ out' = out
    BY <1>5, DrainOfCall DEF DrainCall
  <2> QED
    BY <1>b, <2>1 DEF OutApart, Ticking
<1>6. CASE DrainL2ToL1Call
  <2>1. /\ tick'.outs = tick.outs /\ pc = "outgoing" /\ pc' = "outgoing" /\ out' = out
        /\ IsInjective(tick.todo) => IsInjective(tick'.todo)
    BY <1>6, DrainOfOutgoing DEF DrainL2ToL1Call, shared
  <2> QED
    BY <1>b, <2>1 DEF OutApart, Ticking
<1>7. CASE BuildBlock
  <2>1. tick'.outs = tick.outs /\ pc = "build" /\ pc' \in {"flush", "build"} /\ out' = out
    BY <1>7, BuildOfBlock DEF BuildBlock, shared
  <2> QED
    BY <1>b, <2>1 DEF OutApart, Ticking
<1>8. CASE /\ ~DrainCrossChainCalls /\ ~DrainCall /\ ~DrainL2ToL1Calls /\ ~DrainL2ToL1Call
           /\ ~BuildBlock /\ ~BuildFails /\ out' = out
  <2>1. /\ Ticking' => Ticking /\ tick'.outs = tick.outs
        /\ pc' = "outgoing" => pc' = pc /\ tick' = tick
    BY <1>8, WholeQueueMoves
  <2> QED
    BY <1>8, <1>b, <2>1 DEF OutApart
<1> QED
  BY <1>c, <1>1, <1>2, <1>3, <1>4, <1>5, <1>6, <1>7, <1>8

\* Outgoing calls wait in one place in every reachable state.
LEMMA OutApartHolds == Spec => []OutApart
<1>1. Init => OutApart
  BY EmptySeqFacts, NoTickFields DEF Init, OutApart, Ticking
<1>2. Core /\ Core' /\ OutApart /\ [Next]_vars => OutApart'
  BY NextOutApart
<1> QED
  BY <1>1, <1>2, CoreHolds, PTL DEF Spec

-----------------------------------------------------------------------------
(* One place for every call *)

\* compute_tick_context: BUNDLE_PATH_PENDING_CAP is below MAX_BATCH_SIZE.
CapWithinBatch == PENDING_CAP <= MAX_BATCH_SIZE

\* A tick that flushes inside its loop has built its last block.
LoopBound ==
  /\ Ticking => tick.left = 0 \/ tick.built + tick.left <= MAX_BATCH_SIZE
  /\ tick.inner => tick.left = 0

\* No step of the catch-up loop leaves more blocks to build than one batch takes.
LEMMA NextLoopBound ==
  ASSUME CapWithinBatch, Core, LoopBound, [Next]_vars
  PROVE  LoopBound'
<1> USE DEF Core
<1>a. /\ tick.left \in Nat /\ tick.built \in Nat /\ Len(blocks) \in Nat
      /\ MAX_BATCH_SIZE \in Nat /\ PENDING_CAP \in Nat
  BY TickFields, CallQueuesAssumption DEF Types, LocalTypes, DriverTypes
<1>1. CASE DrainCrossChainCalls
  <2>1. ~tick'.inner /\ tick'.built = 0 /\ Len(blocks) + tick'.left <= PENDING_CAP
    BY <1>1, StartOfDrain
  <2>2. tick'.left \in Nat
    <3>1. PICK n \in 1..MaxPerTick :
            tick' = [NoTick EXCEPT !.todo = cross, !.left = n, !.len = Len(pending_l1.entries),
                                   !.groups = Len(pending_l1.groups)]
      BY <1>1 DEF DrainCrossChainCalls
    <3>2. tick'.left = n
      BY <3>1, TickShape, NoTickType
    <3> QED
      BY <3>2
  <2> QED
    BY <1>a, <2>1, <2>2 DEF LoopBound, CapWithinBatch
<1>2. CASE DrainCall
  BY <1>2, DrainOfCall DEF LoopBound, Ticking
<1>3. CASE DrainL2ToL1Calls
  BY <1>3, StartOfOutgoing DEF LoopBound, Ticking
<1>4. CASE DrainL2ToL1Call
  BY <1>4, DrainOfOutgoing DEF LoopBound, Ticking
<1>5. CASE BuildBlock
  <2>1. /\ tick.left > 0 /\ tick'.left = tick.left - 1 /\ tick'.inner = BatchFull(tick.built + 1)
        /\ tick'.built = IF BatchFull(tick.built + 1) THEN 0 ELSE tick.built + 1
        /\ pc = "build"
    BY <1>5, BuildOfBlock
  <2>2. tick.built + tick.left <= MAX_BATCH_SIZE
    BY <1>a, <2>1 DEF LoopBound, Ticking
  <2>3. CASE BatchFull(tick.built + 1)
    <3>1. tick'.left = 0
      BY <1>a, <2>1, <2>2, <2>3 DEF BatchFull
    <3> QED
      BY <3>1 DEF LoopBound
  <2>4. CASE ~BatchFull(tick.built + 1)
    <3>1. tick'.built + tick'.left <= MAX_BATCH_SIZE /\ ~tick'.inner
      BY <1>a, <2>1, <2>2, <2>4
    <3> QED
      BY <3>1 DEF LoopBound
  <2> QED
    BY <2>3, <2>4
<1>6. CASE BuildFails
  BY <1>6, NoTickFields DEF BuildFails, LoopBound, Ticking
<1>7. CASE /\ ~DrainCrossChainCalls /\ ~DrainCall /\ ~DrainL2ToL1Calls /\ ~DrainL2ToL1Call
           /\ ~BuildBlock /\ ~BuildFails
  <2>1. /\ Ticking' => Ticking /\ tick'.left = tick.left /\ tick'.built = tick.built
        /\ tick'.inner => tick.inner
    BY <1>7, WholeQueueMoves
  <2>2. tick'.inner => Ticking'
    BY DEF Ticking
  <2> QED
    BY <2>1, <2>2 DEF LoopBound
<1> QED
  BY <1>1, <1>2, <1>3, <1>4, <1>5, <1>6, <1>7

\* The entries of q up to the mark n belong to no call of D.
HeadOf(q, n, D) == \A i \in DOMAIN q.entries : i <= n => q.entries[i] \notin D

Entered == CallsIn(pending_l1) \cup CallsIn(flight.q)

\* A call that waits has no entries, a confirmed one neither waits nor has
\* entries, and a rollback takes away all entries of the calls it puts back.
PlaceInv ==
  /\ Waiting \cap Entered = {}
  /\ confirmed \cap (Waiting \cup Entered) = {}
  /\ Entered \cup confirmed \subseteq accepted
  /\ OneStretch(pending_l1) /\ OneStretch(flight.q)
  /\ Ticking => HeadOf(pending_l1, tick.len, Drained) /\ HeadOf(flight.q, tick.len, Drained)
  /\ Ticking /\ tick.left > 0 => Drained \cap confirmed = {}

\* The empty queue holds no call, so each statement on places holds of it.
LEMMA EmptyQueuePlaces ==
  ASSUME NEW n, NEW D
  PROVE  /\ OneStretch(EmptyQueue) /\ HeadOf(EmptyQueue, n, D) /\ CallsIn(EmptyQueue) = {}
         /\ NoFlight.q = EmptyQueue
<1>1. DOMAIN EmptyQueue.entries = {} /\ NoFlight.q = EmptyQueue
  BY DEF EmptyQueue, NoFlight
<1> QED
  BY <1>1 DEF OneStretch, HeadOf, CallsIn

\* Appending the entries of a call that is not queued keeps every call in one stretch.
LEMMA StretchAppended ==
  ASSUME NEW q \in Queues, NEW r \in Queues, NEW c \in Calls, Appended(q, c, L1Count[c], r),
         OneStretch(q), c \notin CallsIn(q)
  PROVE  OneStretch(r)
<1> DEFINE l == Len(q.entries)
           n == L1Count[c]
<1>1. /\ DOMAIN q.entries = 1..l /\ DOMAIN r.entries = 1..l + n /\ l \in Nat /\ n \in Nat
      /\ \A i \in 1..l : r.entries[i] = q.entries[i]
      /\ \A i \in l + 1..l + n : r.entries[i] = c
  BY QueueFields, QueuesAreOverCalls, CallQueuesAssumption DEF Appended
<1>2. \A i \in 1..l : q.entries[i] # c
  BY <1>1 DEF CallsIn
<1>3. \A i \in 1..l, j \in 1..l : q.entries[i] = q.entries[j] => j - i < L1Count[q.entries[i]]
  BY <1>1 DEF OneStretch
<1>4. SUFFICES ASSUME NEW i \in 1..l + n, NEW j \in 1..l + n, r.entries[i] = r.entries[j]
               PROVE  j - i < L1Count[r.entries[i]]
  BY <1>1 DEF OneStretch
<1> HIDE DEF l
<1>5. CASE i <= l /\ j <= l
  <2>1. i \in 1..l /\ j \in 1..l
    BY <1>1, <1>5
  <2>2. r.entries[i] = q.entries[i] /\ r.entries[j] = q.entries[j]
    BY <1>1, <2>1
  <2> QED
    BY <1>3, <1>4, <2>1, <2>2
<1>6. CASE i > l /\ j > l
  <2>1. r.entries[i] = c /\ j - i < n
    BY <1>1, <1>6
  <2> QED
    BY <2>1
<1>7. CASE i <= l /\ j > l
  BY <1>1, <1>2, <1>4, <1>7
<1>8. CASE i > l /\ j <= l
  BY <1>1, <1>2, <1>4, <1>8
<1> QED
  BY <1>1, <1>5, <1>6, <1>7, <1>8

\* truncate_to cuts from the back: what is left of a stretch is a stretch.
LEMMA StretchTruncated ==
  ASSUME NEW q \in Queues, NEW a \in Nat, NEW b \in Nat, OneStretch(q)
  PROVE  OneStretch(truncate_to(q, a, b))
<1> DEFINE r == truncate_to(q, a, b)
<1>1. /\ r \in Queues /\ Len(q.entries) \in Nat /\ DOMAIN q.entries = 1..Len(q.entries)
      /\ Len(r.entries) = IF Len(q.entries) > a THEN a ELSE Len(q.entries)
      /\ \A i \in 1..Len(r.entries) : r.entries[i] = q.entries[i]
  BY TruncateFields, QueueFields, QueuesAreOverCalls
<1> HIDE DEF r
<1>2. DOMAIN r.entries = 1..Len(r.entries)
  BY <1>1, QueueFields, QueuesAreOverCalls
<1>3. \A i \in DOMAIN r.entries : i \in DOMAIN q.entries /\ r.entries[i] = q.entries[i]
  BY <1>1, <1>2
<1>4. OneStretch(r)
  BY <1>3 DEF OneStretch
<1> QED
  BY <1>4 DEF r

\* Appending a new call leaves the head of the queue free of it.
LEMMA HeadOfAppended ==
  ASSUME NEW q \in Queues, NEW r \in Queues, NEW c, NEW m \in Nat, Appended(q, c, m, r),
         NEW n \in Nat, n <= Len(q.entries), NEW D, HeadOf(q, n, D), c \notin CallsIn(q)
  PROVE  HeadOf(r, n, D \cup {c})
<1>1. /\ DOMAIN q.entries = 1..Len(q.entries) /\ DOMAIN r.entries = 1..Len(r.entries)
      /\ Len(q.entries) \in Nat
  BY QueueFields, QueuesAreOverCalls
<1>2. /\ Len(r.entries) = Len(q.entries) + m
      /\ \A i \in 1..Len(q.entries) : r.entries[i] = q.entries[i]
  BY DEF Appended
<1>3. \A i \in 1..Len(q.entries) : q.entries[i] # c
  BY <1>1 DEF CallsIn
<1> QED
  BY <1>1, <1>2, <1>3 DEF HeadOf

\* A drained call's entries: it leaves the waiting calls, and it had none before.
LEMMA DrainPlaces ==
  ASSUME Types, Types', PlaceInv, GroupsInv, pc \in {"incoming", "outgoing"},
         flight = NoFlight, flight' = flight, confirmed' = confirmed, accepted' = accepted,
         SameMark, tick'.left = tick.left, TailIsDrained,
         NEW c \in Calls, Appended(pending_l1, c, L1Count[c], pending_l1'),
         c \in Waiting, Waiting' \subseteq Waiting, c \notin Waiting', c \in accepted,
         Drained' \subseteq Drained \cup {c}
  PROVE  PlaceInv'
<1>a. /\ pending_l1 \in Queues /\ pending_l1' \in Queues /\ tick.len \in Nat
      /\ L1Count[c] \in Nat
  BY TickFields, CallQueuesAssumption DEF Types, DriverTypes, LocalTypes
<1>b. tick.len <= Len(pending_l1.entries) /\ Ticking
  BY DEF GroupsInv, RollbackInStep, Ticking
<1>1. CallsIn(pending_l1') = CallsIn(pending_l1) \cup {c}
  BY <1>a, DrainedCalls
<1>2. Entered' = Entered \cup {c} /\ c \notin Entered /\ c \notin CallsIn(pending_l1)
  BY <1>1 DEF Entered, PlaceInv
<1>3. c \notin confirmed
  BY DEF PlaceInv
<1>4. OneStretch(pending_l1')
  BY <1>a, <1>2, StretchAppended DEF PlaceInv
<1>5. HeadOf(pending_l1', tick'.len, Drained')
  <2>1. HeadOf(pending_l1, tick.len, Drained)
    BY <1>b DEF PlaceInv
  <2>2. HeadOf(pending_l1', tick.len, Drained \cup {c})
    BY <1>a, <1>b, <1>2, <2>1, HeadOfAppended
  <2> QED
    BY <2>2 DEF HeadOf, SameMark
<1>6. HeadOf(flight.q, tick.len, Drained)'
  BY EmptyQueuePlaces
<1>7. tick'.left > 0 => Drained' \cap confirmed' = {}
  BY <1>b, <1>3 DEF PlaceInv
<1> QED
  BY <1>2, <1>3, <1>4, <1>5, <1>6, <1>7 DEF PlaceInv

\* No step puts the entries of one call in two places.
LEMMA NextPlaces ==
  ASSUME Core, Core', BelowCap, GroupsInv, Apart, Apart', OutApart, OutApart', LoopBound, PlaceInv,
         [Next]_vars
  PROVE  PlaceInv'
<1> USE DEF Core
<1>a. /\ pending_l1 \in Queues /\ pending_l1' \in Queues /\ tick.len \in Nat /\ tick.groups \in Nat
      /\ tick.calls \in Seq(Incoming) /\ tick.outs \in Seq(Outgoing)
      /\ cross \in Seq(Incoming) /\ out \in Seq(Outgoing)
  BY TickFields DEF Types, SharedTypes, DriverTypes, LocalTypes
<1>b. Incoming \subseteq Calls /\ Outgoing \subseteq Calls /\ Incoming \cap Outgoing = {}
  BY CallQueuesAssumption DEF Calls
<1>c. /\ ToSet(cross) \subseteq Incoming /\ ToSet(out) \subseteq Outgoing
      /\ ToSet(tick.calls) \subseteq Incoming /\ ToSet(tick.outs) \subseteq Outgoing
  BY <1>a, ToSetType
<1>1. CASE RpcNext
  <2>1. UNCHANGED <<pc, tick, flight, pending_l1, confirmed>> /\ accepted \subseteq accepted'
    BY <1>1 DEF RpcNext, QueueCrossChainCall, QueueL2ToL1Call, QueueL1ForwardTx, driver
  <2>2. Waiting' \subseteq Waiting \cup (accepted' \ accepted)
    <3>1. ASSUME NEW c \in Incoming, QueueCrossChainCall(c)
          PROVE  Waiting' \subseteq Waiting \cup (accepted' \ accepted)
      <4>1. ToSet(cross') = ToSet(cross) \cup {c}
        BY <1>a, <3>1, AppendFacts DEF QueueCrossChainCall
      <4> QED
        BY <3>1, <4>1 DEF QueueCrossChainCall, Waiting
    <3>2. ASSUME NEW c \in Outgoing, QueueL2ToL1Call(c)
          PROVE  Waiting' \subseteq Waiting \cup (accepted' \ accepted)
      <4>1. ToSet(out') = ToSet(out) \cup {c}
        BY <1>a, <3>2, AppendFacts DEF QueueL2ToL1Call
      <4> QED
        BY <3>2, <4>1 DEF QueueL2ToL1Call, Waiting
    <3>3. ASSUME NEW t \in Direct, QueueL1ForwardTx(t)
          PROVE  Waiting' \subseteq Waiting
      BY <3>3 DEF QueueL1ForwardTx, Waiting
    <3> QED
      BY <1>1, <3>1, <3>2, <3>3 DEF RpcNext
  <2>3. Entered' = Entered /\ Drained' = Drained /\ (Ticking' <=> Ticking)
    BY <2>1 DEF Entered, Drained, Ticking
  <2> QED
    BY <2>1, <2>2, <2>3 DEF PlaceInv
<1>2. CASE DrainCrossChainCalls
  <2>1. /\ tick'.todo = cross /\ cross' = <<>> /\ tick'.calls = <<>> /\ tick'.outs = <<>> /\ pc = "idle"
        /\ UNCHANGED <<out, pending_l1, confirmed, accepted>> /\ flight' = NoFlight /\ flight = NoFlight
    BY <1>2, StartOfDrain DEF DrainCrossChainCalls, driver, history, Control, InFlight
  <2>2. Drained' = {} /\ Waiting' \subseteq Waiting /\ Entered' = Entered
    BY <2>1, EmptySeqFacts DEF Drained, Waiting, Entered
  <2>3. HeadOf(pending_l1', tick'.len, Drained') /\ HeadOf(flight'.q, tick'.len, Drained')
    BY <2>2 DEF HeadOf
  <2> QED
    BY <2>1, <2>2, <2>3 DEF PlaceInv
<1>3. CASE DrainCall
  <2>1. PICK c \in Incoming :
           /\ ToSet(tick.todo) = ToSet(tick'.todo) \cup {c}
           /\ IsInjective(tick.todo) => IsInjective(tick'.todo) /\ c \notin ToSet(tick'.todo)
           /\ SameMark /\ tick'.outs = tick.outs /\ tick'.left = tick.left
           /\ pc = "incoming" /\ pc' = "incoming"
           /\ \/ /\ pending_l1' = pending_l1 /\ cross' = Append(cross, c)
                 /\ tick'.calls = tick.calls
              \/ /\ cross' = cross /\ Appended(pending_l1, c, L1Count[c], pending_l1')
                 /\ tick'.calls = Append(tick.calls, c)
    BY <1>3, DrainOfCall
  <2>2. /\ UNCHANGED <<out, flight, confirmed, accepted>> /\ flight = NoFlight
    BY <1>3 DEF DrainCall, history, Control, InFlight
  <2>3. /\ c \notin ToSet(tick'.todo) /\ c \notin ToSet(cross) /\ c \notin ToSet(out) /\ c \in accepted
        /\ c \in Calls /\ c \in Waiting
    BY <1>b, <1>c, <2>1 DEF Apart, Draining, InHand, Waiting
  <2>4. CASE pending_l1' = pending_l1 /\ cross' = Append(cross, c) /\ tick'.calls = tick.calls
    <3>1. ToSet(cross') = ToSet(cross) \cup {c}
      BY <1>a, <2>4, AppendFacts
    <3>2. Waiting' = Waiting /\ Entered' = Entered /\ Drained' = Drained
      BY <2>1, <2>2, <2>4, <3>1 DEF Waiting, Entered, Drained
    <3>3. Ticking
      BY <2>1 DEF Ticking
    <3> QED
      BY <2>1, <2>2, <2>4, <3>2, <3>3 DEF PlaceInv, SameMark
  <2>5. CASE cross' = cross /\ Appended(pending_l1, c, L1Count[c], pending_l1') /\ tick'.calls = Append(tick.calls, c)
    <3>1. ToSet(tick'.calls) = ToSet(tick.calls) \cup {c}
      BY <1>a, <2>5, AppendFacts
    <3>2. Waiting' \subseteq Waiting /\ c \notin Waiting' /\ Drained' = Drained \cup {c}
      BY <2>1, <2>2, <2>3, <2>5, <3>1 DEF Waiting, Drained
    <3> QED
      BY <2>1, <2>2, <2>3, <2>5, <3>2, DrainPlaces
  <2> QED
    BY <2>1, <2>4, <2>5
<1>4. CASE DrainL2ToL1Calls
  <2>1. /\ SameMark /\ tick.todo = <<>> /\ tick'.todo = out /\ tick'.outs = out /\ out' = <<>>
        /\ tick'.calls = tick.calls /\ tick'.left = tick.left /\ pc = "incoming"
        /\ UNCHANGED <<cross, pending_l1, flight, confirmed, accepted>> /\ flight = NoFlight
    BY <1>4, StartOfOutgoing DEF DrainL2ToL1Calls, driver, history, Control, InFlight
  <2>2. tick.outs = <<>> /\ Ticking
    BY <2>1 DEF TailIsDrained, Ticking
  <2>3. Drained' = Drained \cup ToSet(out) /\ Waiting' \subseteq Waiting /\ Entered' = Entered
        /\ ToSet(out) \subseteq Waiting
    BY <2>1, <2>2, EmptySeqFacts DEF Drained, Waiting, Entered
  <2>4. HeadOf(pending_l1', tick'.len, Drained')
    <3>1. CallsIn(pending_l1) \cap ToSet(out) = {}
      BY <2>3 DEF PlaceInv, Entered
    <3>2. HeadOf(pending_l1, tick.len, Drained)
      BY <2>2 DEF PlaceInv
    <3> QED
      BY <2>1, <2>3, <3>1, <3>2 DEF HeadOf, CallsIn, SameMark
  <2>5. HeadOf(flight'.q, tick'.len, Drained')
    BY <2>1, EmptyQueuePlaces
  <2> QED
    BY <2>1, <2>2, <2>3, <2>4, <2>5 DEF PlaceInv
<1>5. CASE DrainL2ToL1Call
  <2>1. PICK c \in Outgoing :
           /\ ToSet(tick.todo) = ToSet(tick'.todo) \cup {c}
           /\ IsInjective(tick.todo) => IsInjective(tick'.todo) /\ c \notin ToSet(tick'.todo)
           /\ SameMark /\ tick'.calls = tick.calls /\ tick'.outs = tick.outs /\ tick'.left = tick.left
           /\ pc = "outgoing" /\ pc' = "outgoing"
           /\ Appended(pending_l1, c, L1Count[c], pending_l1')
    BY <1>5, DrainOfOutgoing
  <2>2. UNCHANGED <<cross, out, flight, confirmed, accepted>> /\ flight = NoFlight
    BY <1>5, <2>1 DEF DrainL2ToL1Call, shared, history, Control, InFlight
  <2>3. ToSet(tick.todo) \subseteq ToSet(tick.outs)
    BY <2>1 DEF TailIsDrained
  <2>4. /\ c \notin ToSet(tick'.todo) /\ c \notin ToSet(cross) /\ c \notin ToSet(out) /\ c \in accepted
        /\ c \in Calls /\ c \in Waiting
    BY <1>b, <1>c, <2>1, <2>3 DEF OutApart, Ticking, Waiting
  <2>5. Waiting' \subseteq Waiting /\ c \notin Waiting' /\ Drained' = Drained
    BY <2>1, <2>2, <2>4 DEF Waiting, Drained
  <2> QED
    BY <2>1, <2>2, <2>4, <2>5, DrainPlaces
<1>6. CASE BuildBlock
  <2>1. /\ SameMark /\ pc = "build" /\ tick'.todo = tick.todo /\ tick'.calls = tick.calls
        /\ tick'.outs = tick.outs /\ tick.left > 0
        /\ \/ pending_l1' = EmptyQueue
           \/ pending_l1' = trim_entries_from_front(pending_l1, MAX_PENDING_CROSS_CHAIN_ENTRIES)
    BY <1>6, BuildOfBlock
  <2>2. UNCHANGED <<cross, out, flight, confirmed, accepted>>
    BY <1>6 DEF BuildBlock, shared
  <2>3. pending_l1' = EmptyQueue \/ pending_l1' = pending_l1
    <3>1. MAX_PENDING_CROSS_CHAIN_ENTRIES \in Nat
      BY CallQueuesAssumption
    <3> QED
      BY <1>a, <2>1, <3>1, TrimFields, QueuesAreOverCalls DEF BelowCap
  <2>4. Waiting' = Waiting /\ Drained' = Drained /\ Ticking
    BY <2>1, <2>2 DEF Waiting, Drained, Ticking
  <2>5. Entered' \subseteq Entered
    BY <2>2, <2>3, EmptyQueuePlaces DEF Entered
  <2> QED
    BY <2>1, <2>2, <2>3, <2>4, <2>5, EmptyQueuePlaces DEF PlaceInv, SameMark
<1>7. CASE BuildFails
  <2>1. /\ pc = "build" /\ pc' = "idle" /\ tick' = NoTick /\ tick.left > 0
        /\ pending_l1' = truncate_to(pending_l1, tick.len, tick.groups)
        /\ cross' = cross \o tick.calls /\ out' = out \o tick.outs
        /\ UNCHANGED <<flight, confirmed, accepted>>
    BY <1>7 DEF BuildFails, MoreToBuild, history
  <2>2. flight = NoFlight /\ Ticking /\ ~Ticking' /\ tick'.todo = <<>>
    BY <2>1, NoTickFields DEF Control, InFlight, Ticking
  <2>3. ToSet(cross') = ToSet(cross) \cup ToSet(tick.calls) /\ ToSet(out') = ToSet(out) \cup ToSet(tick.outs)
    BY <1>a, <2>1, ConcatFacts
  <2>4. Waiting' \subseteq Waiting \cup Drained
    BY <2>2, <2>3, EmptySeqFacts DEF Waiting, Drained
  <2>5. CallsIn(pending_l1') = {pending_l1.entries[i] : i \in {j \in DOMAIN pending_l1.entries : j <= tick.len}}
    BY <1>a, <2>1, TruncateCalls, QueuesAreOverCalls
  <2>6. CallsIn(pending_l1') \subseteq CallsIn(pending_l1) /\ CallsIn(pending_l1') \cap Drained = {}
    BY <2>2, <2>5 DEF CallsIn, PlaceInv, HeadOf
  <2>7. Entered' \subseteq Entered /\ Entered' \cap Drained = {}
    BY <2>1, <2>2, <2>6, EmptyQueuePlaces DEF Entered
  <2>8. OneStretch(pending_l1')
    BY <1>a, <2>1, StretchTruncated DEF PlaceInv
  <2>9. Drained \cap confirmed = {}
    BY <2>1, <2>2 DEF PlaceInv
  <2> QED
    BY <2>1, <2>2, <2>4, <2>7, <2>8, <2>9 DEF PlaceInv
<1>8. CASE ReceiptConfirms
  <2>1. /\ pc = "receipt" /\ confirmed' = confirmed \cup CallsIn(flight.q)
        /\ UNCHANGED <<cross, out, pending_l1, accepted>> /\ Return(hold')
    BY <1>8 DEF ReceiptConfirms, shared
  <2>2. pending_l1 = EmptyQueue /\ flight' = NoFlight
    BY <2>1, ReturnFields DEF Control, InFlight
  <2>3. Entered' = {}
    BY <2>1, <2>2, EmptyQueuePlaces DEF Entered
  <2>4. Waiting' \subseteq Waiting /\ (Ticking' => tick'.left = 0)
    <3>1. CASE tick.inner /\ tick' = [tick EXCEPT !.inner = FALSE]
      BY <2>1, <3>1, InnerReset DEF Waiting, LoopBound
    <3>2. CASE pc' = "idle" /\ tick' = NoTick
      BY <2>1, <3>2, NoTickFields, EmptySeqFacts DEF Waiting, Ticking
    <3> QED
      BY <2>1, <3>1, <3>2, ReturnFields
  <2>5. confirmed' \subseteq accepted' /\ confirmed' \cap Waiting' = {}
    BY <2>1, <2>4 DEF PlaceInv, Entered
  <2>6. OneStretch(pending_l1') /\ OneStretch(flight'.q)
        /\ HeadOf(pending_l1', tick'.len, Drained') /\ HeadOf(flight'.q, tick'.len, Drained')
    BY <2>1, <2>2, EmptyQueuePlaces
  <2> QED
    BY <2>3, <2>4, <2>5, <2>6 DEF PlaceInv
<1>9. CASE /\ ~DrainCrossChainCalls /\ ~DrainCall /\ ~DrainL2ToL1Calls /\ ~DrainL2ToL1Call
           /\ ~BuildBlock /\ ~BuildFails /\ ~RpcNext /\ ~ReceiptConfirms
  <2>1. /\ pending_l1' \in {pending_l1, flight.q, EmptyQueue}
        /\ flight'.q \in {pending_l1, flight.q, EmptyQueue}
        /\ Ticking' => Ticking /\ SameMark /\ tick'.calls = tick.calls /\ tick'.outs = tick.outs
                       /\ tick'.left = tick.left
        /\ ToSet(tick'.todo) \subseteq ToSet(tick.todo)
    BY <1>9, WholeQueueMoves
  <2>2. UNCHANGED <<cross, out, confirmed, accepted>>
    BY <1>9 DEF Next, TickNext, InjectHeldL2Txs, CommitForwardTxs, FlushOnly,
       FlushNext, FlushSkips, FlushTrims, FlushFindsStaleContext, FlushFindsDivergentAnchor,
       FlushRewinds, CollectBatch, SendFails, SendSucceeds, ForwardQueuedL1Txs, SendTriggers, BatchFails,
       ReceiptConfirmsNothing, ReceiptTimesOut,
       RecoveryNext, Recovers, DerivationRewinds, HoldReleased, SyncDone, RebuildWithFreshL1Context,
       CooldownEnds, shared, history, vars
  <2>3. Waiting' \subseteq Waiting
    BY <2>1, <2>2 DEF Waiting
  <2>4. Entered' \subseteq Entered
    BY <2>1, EmptyQueuePlaces DEF Entered
  <2>5. Ticking' => Drained' = Drained
    BY <2>1 DEF Drained
  <2>6. OneStretch(pending_l1') /\ OneStretch(flight'.q)
    BY <2>1, EmptyQueuePlaces DEF PlaceInv
  <2>7. Ticking' => HeadOf(pending_l1', tick'.len, Drained') /\ HeadOf(flight'.q, tick'.len, Drained')
    BY <2>1, <2>5, EmptyQueuePlaces DEF PlaceInv, SameMark
  <2> QED
    BY <2>1, <2>2, <2>3, <2>4, <2>5, <2>6, <2>7 DEF PlaceInv
<1> QED
  BY <1>1, <1>2, <1>3, <1>4, <1>5, <1>6, <1>7, <1>8, <1>9

\* rollback_queue_drain and flush_to_l1: while the pending queue is below its
\* cap, a call is in one place, with one set of entries, and never again after
\* its batch was confirmed.  It needs that a tick cannot flush a batch and go
\* on building, since a rollback would then restore calls already confirmed.
THEOREM CallsInOnePlace ==
  ASSUME CapWithinBatch
  PROVE  Spec /\ []BelowCap => []OnePlace
<1>1. Init => LoopBound /\ PlaceInv
  <2> SUFFICES ASSUME Init PROVE LoopBound /\ PlaceInv
    OBVIOUS
  <2>1. ~Ticking /\ ~tick.inner /\ Waiting = {} /\ Entered = {}
    BY NoTickFields, EmptySeqFacts, EmptyQueuePlaces DEF Init, Ticking, Waiting, Entered
  <2> QED
    BY <2>1, EmptyQueuePlaces DEF Init, LoopBound, PlaceInv
<1>2. Core /\ LoopBound /\ [Next]_vars => LoopBound'
  BY NextLoopBound
<1>3. /\ Core /\ Core' /\ BelowCap /\ GroupsInv /\ Apart /\ Apart' /\ OutApart /\ OutApart'
      /\ LoopBound /\ PlaceInv /\ [Next]_vars
      => PlaceInv'
  BY NextPlaces
<1>4. Core /\ Apart /\ OutApart /\ PlaceInv => OnePlace
  <2> SUFFICES ASSUME Core, Apart, OutApart, PlaceInv PROVE OnePlace
    OBVIOUS
  <2>1. CallsIn(pending_l1) = {} \/ CallsIn(flight.q) = {}
    BY EmptyQueuePlaces DEF Core, Control
  <2> QED
    BY <2>1 DEF Apart, OutApart, PlaceInv, OnePlace, Entered
<1> QED
  BY <1>1, <1>2, <1>3, <1>4, CoreHolds, ApartHolds, OutApartHolds, GroupsHold, PTL DEF Spec

-----------------------------------------------------------------------------
(* A user's transaction follows its entries *)

\* finalize_block_entries has computed every intermediate state root.
RootsKnown == rootFaults = 0

LastUnsent == Len(blocks) > 0 /\ ~blocks[Len(blocks)].submitted

\* The users' transactions to forward have their entries pending or in the
\* batch, and the batch that an inner flush sends ends the tick unless it
\* needed none of the transactions the tick still holds.
Behind ==
  /\ ToSet(fwd) \cap WithTx \subseteq Entered
  /\ pc \in {"triggers", "receipt"} => ToSet(fwd) \cap WithTx = {}
  /\ Ticking => ToSet(tick.txs) \subseteq Entered
  /\ InFlight /\ tick.inner /\ ~is_empty(flight.q) => hold
  /\ pc = "flush" /\ tick.inner => LastUnsent

\* No step releases an L1 transaction ahead of the entries of its call.
LEMMA NextBehind ==
  ASSUME Core, Core', BelowCap, RootsKnown', Apart, Behind, [Next]_vars
  PROVE  Behind'
<1> USE DEF Core
<1>a. /\ pending_l1 \in Queues /\ pending_l1' \in Queues /\ flight \in Flights /\ blocks \in Seq(Blocks)
      /\ tick.len \in Nat /\ tick.groups \in Nat /\ tick.txs \in Seq(WithTx)
      /\ fwd \in Seq(L1Txs) /\ tick.outs \in Seq(Outgoing)
  BY TickFields DEF Types, SharedTypes, DriverTypes, LocalTypes
<1>b. /\ Incoming \subseteq Calls /\ Outgoing \subseteq Calls /\ WithTx \cap Outgoing = {} /\ WithTx \cap Direct = {}
      /\ WithTx \subseteq L1Txs
  BY CallQueuesAssumption DEF Calls, L1Txs
<1>1. CASE RpcNext
  <2>1. UNCHANGED <<pc, tick, flight, pending_l1, hold, blocks>>
    BY <1>1 DEF RpcNext, QueueCrossChainCall, QueueL2ToL1Call, QueueL1ForwardTx, driver
  <2>2. ToSet(fwd') \cap WithTx = ToSet(fwd) \cap WithTx
    <3>1. ASSUME NEW t \in Direct, QueueL1ForwardTx(t)
          PROVE  ToSet(fwd') = ToSet(fwd) \cup {t}
      <4>1. t \in L1Txs
        BY DEF L1Txs
      <4> QED
        BY <1>a, <3>1, <4>1, AppendFacts DEF QueueL1ForwardTx
    <3>2. fwd' = fwd \/ \E t \in Direct : QueueL1ForwardTx(t)
      BY <1>1 DEF RpcNext, QueueCrossChainCall, QueueL2ToL1Call
    <3> QED
      BY <1>b, <3>1, <3>2
  <2> QED
    BY <2>1, <2>2 DEF Behind, Entered, Ticking, InFlight, LastUnsent
<1>2. CASE RecoveryNext
  <2>1. CASE DerivationRewinds \/ RebuildWithFreshL1Context
    <3>1. fwd' = <<>> /\ pc = "idle" /\ pc' = pc /\ tick' = tick
      BY <2>1 DEF DerivationRewinds, RebuildWithFreshL1Context, ClearInternalState
    <3>2. ~Ticking' /\ ~InFlight' /\ ToSet(fwd') = {}
      BY <3>1, NoTickFields, EmptySeqFacts DEF Control, Ticking, InFlight
    <3> QED
      BY <3>1, <3>2 DEF Behind
  <2>2. CASE HoldReleased
    BY <2>2 DEF HoldReleased, Behind, Entered, Ticking, InFlight, shared
  <2>3. CASE SyncDone \/ CooldownEnds
    BY <2>3 DEF SyncDone, CooldownEnds, Behind, Entered, Ticking, InFlight, LastUnsent, shared
  <2> QED
    BY <1>2, <2>1, <2>2, <2>3 DEF RecoveryNext, Recovers
<1>3. CASE DrainCrossChainCalls
  <2>1. /\ tick'.txs = <<>> /\ ~tick'.inner /\ pc' = "incoming" /\ UNCHANGED <<fwd, pending_l1, flight>>
    BY <1>3, StartOfDrain DEF DrainCrossChainCalls, driver
  <2> QED
    BY <2>1, EmptySeqFacts DEF Behind, Entered, InFlight
<1>4. CASE DrainCall
  <2>1. PICK c \in Incoming :
           /\ tick'.inner = tick.inner /\ pc = "incoming" /\ pc' = "incoming"
           /\ \/ pending_l1' = pending_l1 /\ tick'.txs = tick.txs
              \/ /\ Appended(pending_l1, c, L1Count[c], pending_l1')
                 /\ tick'.txs = IF c \in WithTx THEN Append(tick.txs, c) ELSE tick.txs
    BY <1>4, DrainOfCall
  <2>2. fwd' = fwd /\ flight' = flight /\ Ticking
    BY <1>4, <2>1 DEF DrainCall, Ticking
  <2>3. Entered \subseteq Entered' /\ ToSet(tick'.txs) \subseteq Entered'
    <3>1. CASE pending_l1' = pending_l1 /\ tick'.txs = tick.txs
      BY <2>2, <3>1 DEF Entered, Behind
    <3>2. CASE /\ Appended(pending_l1, c, L1Count[c], pending_l1')
               /\ tick'.txs = IF c \in WithTx THEN Append(tick.txs, c) ELSE tick.txs
      <4>1. c \in Calls
        BY <1>b
      <4>2. CallsIn(pending_l1') = CallsIn(pending_l1) \cup {c}
        BY <1>a, <3>2, <4>1, DrainedCalls
      <4>3. ToSet(tick'.txs) \subseteq ToSet(tick.txs) \cup {c}
        <5>1. CASE c \in WithTx
          BY <1>a, <3>2, <5>1, AppendFacts
        <5>2. CASE c \notin WithTx
          BY <3>2, <5>2
        <5> QED
          BY <5>1, <5>2
      <4> QED
        BY <2>2, <4>2, <4>3 DEF Entered, Behind
    <3> QED
      BY <2>1, <3>1, <3>2
  <2> QED
    BY <2>1, <2>2, <2>3 DEF Behind, InFlight
<1>5. CASE DrainL2ToL1Calls
  <2>1. /\ tick'.txs = tick.txs /\ tick'.inner = tick.inner /\ pc = "incoming" /\ pc' = "outgoing"
        /\ UNCHANGED <<fwd, pending_l1, flight>>
    BY <1>5, StartOfOutgoing DEF DrainL2ToL1Calls, driver
  <2> QED
    BY <2>1 DEF Behind, Entered, Ticking, InFlight
<1>6. CASE DrainL2ToL1Call
  <2>1. PICK c \in Outgoing :
           /\ tick'.txs = tick.txs /\ tick'.inner = tick.inner /\ pc = "outgoing" /\ pc' = "outgoing"
           /\ Appended(pending_l1, c, L1Count[c], pending_l1')
    BY <1>6, DrainOfOutgoing
  <2>2. CallsIn(pending_l1') = CallsIn(pending_l1) \cup {c} /\ UNCHANGED <<fwd, flight>>
    BY <1>6, <1>a, <1>b, <2>1, DrainedCalls DEF DrainL2ToL1Call, shared
  <2> QED
    BY <2>1, <2>2 DEF Behind, Entered, Ticking, InFlight
<1>7. CASE InjectHeldL2Txs
  BY <1>7 DEF InjectHeldL2Txs, Behind, Entered, Ticking, InFlight, shared
<1>8. CASE BuildBlock
  <2>1. /\ tick'.txs = tick.txs /\ pc = "build" /\ pc' \in {"flush", "build"}
        /\ \/ rootFaults' # 0
           \/ pending_l1' = trim_entries_from_front(pending_l1, MAX_PENDING_CROSS_CHAIN_ENTRIES)
    BY <1>8, BuildOfBlock
  <2>2. pending_l1' = pending_l1 /\ UNCHANGED <<fwd, flight>>
    <3>1. MAX_PENDING_CROSS_CHAIN_ENTRIES \in Nat
      BY CallQueuesAssumption
    <3> QED
      BY <1>8, <1>a, <2>1, <3>1, TrimFields, QueuesAreOverCalls DEF BelowCap, RootsKnown, BuildBlock, shared
  <2>3. LastUnsent'
    <3> DEFINE b == [loads |-> IF tick.left = 1 THEN tick.loads ELSE {}, txs |-> pool, submitted |-> FALSE]
    <3>1. blocks' = Append(blocks, b)
      BY <1>8 DEF BuildBlock
    <3>2. ~b.submitted
      OBVIOUS
    <3> HIDE DEF b
    <3>3. Len(blocks') = Len(blocks) + 1 /\ Len(blocks) \in Nat /\ blocks'[Len(blocks) + 1] = b
      BY <1>a, <3>1
    <3> QED
      BY <3>2, <3>3 DEF LastUnsent
  <2>4. Ticking
    BY <2>1 DEF Ticking
  <2> QED
    BY <2>1, <2>2, <2>3, <2>4 DEF Behind, Entered, InFlight
<1>9. CASE BuildFails
  <2>1. /\ pc = "build" /\ pc' = "idle" /\ ~tick'.inner /\ flight' = flight /\ fwd' = fwd
        /\ pending_l1' = truncate_to(pending_l1, tick.len, tick.groups)
    BY <1>9, NoTickFields DEF BuildFails
  <2>2. /\ TailOf(pending_l1, tick.len, Drained) /\ flight = NoFlight /\ Taken = ToSet(tick.calls)
    BY <2>1 DEF TailIsDrained, Ticking, Control, InFlight, Taken
  <2>3. CallsIn(pending_l1') = {pending_l1.entries[i] : i \in {j \in DOMAIN pending_l1.entries : j <= tick.len}}
    BY <1>a, <2>1, TruncateCalls, QueuesAreOverCalls
  <2>4. CallsIn(pending_l1) \subseteq CallsIn(pending_l1') \cup Drained
    <3>1. \A i \in DOMAIN pending_l1.entries : i <= tick.len \/ i > tick.len
      BY <1>a, QueueFields, QueuesAreOverCalls
    <3> QED
      BY <2>2, <2>3, <3>1 DEF CallsIn, TailOf
  <2>5. ToSet(fwd) \cap WithTx \cap Drained = {}
    <3>1. ToSet(tick.outs) \subseteq Outgoing
      BY <1>a, ToSetType
    <3> QED
      BY <1>b, <2>2, <3>1 DEF Drained, Apart
  <2>6. ToSet(fwd') \cap WithTx \subseteq Entered'
    BY <2>1, <2>2, <2>4, <2>5, EmptyQueuePlaces DEF Behind, Entered
  <2> QED
    BY <2>1, <2>6 DEF Behind, Ticking, InFlight
<1>10. CASE CommitForwardTxs
  <2>1. /\ fwd' = fwd \o tick.txs /\ ~tick'.inner /\ pc = "build" /\ pc' = "flush"
        /\ UNCHANGED <<pending_l1, flight>>
    BY <1>10, InnerReset DEF CommitForwardTxs, driver
  <2>2. tick.txs \in Seq(L1Txs)
    BY <1>a, <1>b, SeqOfMore
  <2>3. ToSet(fwd') = ToSet(fwd) \cup ToSet(tick.txs)
    BY <1>a, <2>1, <2>2, ConcatFacts
  <2> QED
    BY <2>1, <2>3 DEF Behind, Entered, Ticking, InFlight
<1>11. CASE FlushOnly
  BY <1>11, NoTickFields DEF FlushOnly, Behind, Entered, Ticking, InFlight, shared, driver
<1>12. CASE FlushTrims
  <2>1. PICK n \in 1..Len(blocks) :
          (\A i \in 1..n : blocks[i].submitted) /\ blocks' = SubSeq(blocks, n + 1, Len(blocks))
    BY <1>12 DEF FlushTrims
  <2>2. UNCHANGED <<fwd, pending_l1, hold, pc, tick, flight>> /\ pc = "flush"
    BY <1>12 DEF FlushTrims, Prechecked, shared
  <2>3. LastUnsent => LastUnsent'
    <3>1. SUFFICES ASSUME LastUnsent PROVE LastUnsent'
      OBVIOUS
    <3>2. Len(blocks) \in Nat /\ n \in 1..Len(blocks) /\ n # Len(blocks)
      BY <1>a, <2>1, <3>1 DEF LastUnsent
    <3>3. n < Len(blocks) /\ n \in Nat
      BY <3>2
    <3>4. /\ Len(SubSeq(blocks, n + 1, Len(blocks))) = Len(blocks) - n
          /\ SubSeq(blocks, n + 1, Len(blocks))[Len(blocks) - n] = blocks[Len(blocks)]
      <4>1. \A i \in 1..Len(blocks) - n : SubSeq(blocks, n + 1, Len(blocks))[i] = blocks[n + i]
        BY <1>a, <3>2, <3>3
      <4>2. Len(blocks) - n \in 1..Len(blocks) - n /\ n + (Len(blocks) - n) = Len(blocks)
        BY <3>2, <3>3
      <4>3. Len(SubSeq(blocks, n + 1, Len(blocks))) = Len(blocks) - n
        BY <1>a, <3>2, <3>3
      <4> QED
        BY <4>1, <4>2, <4>3
    <3>5. Len(blocks') = Len(blocks) - n /\ blocks'[Len(blocks')] = blocks[Len(blocks)]
      BY <2>1, <3>4
    <3>6. Len(blocks') > 0
      BY <3>2, <3>3, <3>5
    <3>7. ~blocks[Len(blocks)].submitted
      BY <3>1 DEF LastUnsent
    <3>8. ~blocks'[Len(blocks')].submitted
      BY <3>5, <3>7, Zenon
    <3> QED
      BY <3>6, <3>8 DEF LastUnsent
  <2> QED
    BY <2>2, <2>3 DEF Behind, Entered, Ticking, InFlight
<1>13. CASE CollectBatch
  <2>1. PICK n \in 0..Len(blocks) :
          /\ (n = 0 <=> blocks = <<>>)
          /\ hold' = (~is_empty(pending_l1) /\ n > 0)
    BY <1>13 DEF CollectBatch
  <2>2. /\ flight'.q = pending_l1 /\ pending_l1' = EmptyQueue /\ tick' = tick /\ pc = "flush" /\ pc' = "send"
        /\ fwd' = fwd
    BY <1>13 DEF CollectBatch, Prechecked, shared
  <2>3. flight = NoFlight
    BY <2>2 DEF Control, InFlight
  <2>4. Entered' = Entered
    BY <2>2, <2>3, EmptyQueuePlaces DEF Entered
  <2>5. tick.inner /\ ~is_empty(flight'.q) => hold'
    <3>1. SUFFICES ASSUME tick.inner, ~is_empty(flight'.q) PROVE hold'
      OBVIOUS
    <3>2. Len(blocks) > 0
      BY <2>2, <3>1 DEF Behind, LastUnsent
    <3>3. blocks # <<>>
      BY <3>2
    <3>4. n # 0 /\ n \in Nat
      BY <1>a, <2>1, <3>3
    <3>5. n > 0
      BY <3>4
    <3>6. ~is_empty(pending_l1)
      BY <2>2, <3>1
    <3> QED
      BY <2>1, <3>5, <3>6, Zenon
  <2> QED
    BY <2>2, <2>4, <2>5 DEF Behind, Ticking, InFlight
<1>14. CASE SendSucceeds
  <2>1. /\ UNCHANGED <<fwd, pending_l1, flight, tick, hold>> /\ pc = "send"
        /\ pc' = IF is_empty(flight.q) THEN "receipt" ELSE "forward"
    BY <1>14 DEF SendSucceeds, shared, driver
  <2>2. pending_l1 = EmptyQueue
    BY <2>1 DEF Control, InFlight
  <2>3. is_empty(flight.q) => Entered = {}
    <3>1. is_empty(flight.q) => DOMAIN flight.q.entries = {}
      BY DEF is_empty
    <3> QED
      BY <2>2, <3>1, EmptyQueuePlaces DEF Entered, CallsIn
  <2> QED
    BY <2>1, <2>3 DEF Behind, Entered, Ticking, InFlight
<1>15. CASE ForwardQueuedL1Txs
  <2>1. /\ UNCHANGED <<pending_l1, flight, tick, hold>> /\ pc = "forward" /\ ~cooling
        /\ pc' \in {"triggers", "receipt"}
    BY <1>15 DEF ForwardQueuedL1Txs, driver, Control, InFlight
  <2>2. ToSet(fwd') = {}
    BY <1>15, <2>1, EmptySeqFacts DEF ForwardQueuedL1Txs, StillQueued
  <2> QED
    BY <2>1, <2>2 DEF Behind, Entered, Ticking, InFlight
<1>16. CASE SendTriggers
  BY <1>16 DEF SendTriggers, Behind, Entered, Ticking, InFlight, shared, driver
<1>17. CASE FlushRewinds \/ BatchFails
  <2>1. fwd' = <<>> /\ Return(TRUE)
    BY <1>17 DEF FlushRewinds, BatchFails, ClearInternalState
  <2>2. pc' = "idle" /\ tick' = NoTick
    BY <2>1, ReturnFields
  <2> QED
    BY <2>1, <2>2, NoTickFields, EmptySeqFacts DEF Behind, Ticking, InFlight
<1>18. CASE FlushFindsStaleContext \/ FlushFindsDivergentAnchor
  <2>1. Return(TRUE) /\ UNCHANGED <<fwd, pending_l1>> /\ pc = "flush"
    BY <1>18 DEF FlushFindsStaleContext, FlushFindsDivergentAnchor, Prechecked, shared
  <2>2. pc' = "idle" /\ tick' = NoTick /\ flight' = NoFlight
    BY <2>1, ReturnFields
  <2>3. flight = NoFlight
    BY <2>1 DEF Control, InFlight
  <2> QED
    BY <2>1, <2>2, <2>3, NoTickFields DEF Behind, Entered, Ticking, InFlight
<1>19. CASE FlushSkips
  <2>1. PICK bail : Return(bail)
    BY <1>19 DEF FlushSkips
  <2>2. UNCHANGED <<fwd, pending_l1>> /\ pc = "flush"
    BY <1>19 DEF FlushSkips, shared, driver
  <2>3. flight = NoFlight /\ flight' = NoFlight
    BY <2>1, <2>2, ReturnFields DEF Control, InFlight
  <2>4. CASE tick.inner /\ pc' = "build" /\ tick' = [tick EXCEPT !.inner = FALSE]
    BY <2>2, <2>3, <2>4, InnerReset DEF Behind, Entered, Ticking, InFlight
  <2>5. CASE pc' = "idle" /\ tick' = NoTick
    BY <2>2, <2>3, <2>5, NoTickFields DEF Behind, Entered, Ticking, InFlight
  <2> QED
    BY <2>1, <2>4, <2>5, ReturnFields
<1>20. CASE SendFails \/ ReceiptTimesOut
  <2>1. PICK bail : Return(bail)
    BY <1>20 DEF SendFails, ReceiptTimesOut
  <2>2. fwd' = fwd /\ pending_l1' = flight.q /\ InFlight
    BY <1>20 DEF SendFails, ReceiptTimesOut, Requeue, shared, InFlight
  <2>3. pending_l1 = EmptyQueue /\ flight' = NoFlight
    BY <2>1, <2>2, ReturnFields DEF Control
  <2>4. Entered' = Entered
    BY <2>2, <2>3, EmptyQueuePlaces DEF Entered
  <2>5. CASE tick.inner /\ pc' = "build" /\ tick' = [tick EXCEPT !.inner = FALSE]
    BY <2>2, <2>4, <2>5, InnerReset DEF Behind, Ticking, InFlight
  <2>6. CASE pc' = "idle" /\ tick' = NoTick
    BY <2>2, <2>4, <2>6, NoTickFields DEF Behind, Ticking, InFlight
  <2> QED
    BY <2>1, <2>5, <2>6, ReturnFields
<1>21. CASE ReceiptConfirms
  <2>1. /\ pc = "receipt" /\ fwd' = fwd /\ Return(hold')
        /\ hold' \in IF Consumable(flight.q) THEN {FALSE, hold} ELSE {hold}
    BY <1>21 DEF ReceiptConfirms, shared
  <2>2. ToSet(fwd') \cap WithTx = {}
    BY <2>1 DEF Behind
  <2>3. CASE tick.inner /\ ~hold' /\ pc' = "build" /\ tick' = [tick EXCEPT !.inner = FALSE]
    <3>1. ToSet(tick.txs) = {}
      <4>1. SUFFICES ASSUME NEW c \in ToSet(tick.txs) PROVE FALSE
        OBVIOUS
      <4>2. pending_l1 = EmptyQueue
        BY <2>1 DEF Control, InFlight
      <4>3. c \in CallsIn(flight.q)
        BY <2>3, <4>2, EmptyQueuePlaces DEF Behind, Entered, Ticking
      <4>4. c \in WithTx /\ c \in L1Txs
        BY <1>a, <1>b, ToSetType
      <4>5. c \in Taken
        BY <2>3 DEF Apart, Taken, Ticking
      <4>6. ~(sent[c] > 0)
        BY <4>4, <4>5 DEF Apart, InHand
      <4>7. hold' = hold
        BY <2>1, <4>3, <4>4, <4>6 DEF Consumable
      <4>8. ~is_empty(flight.q)
        <5>1. DOMAIN flight.q.entries # {}
          BY <4>3 DEF CallsIn
        <5> QED
          BY <5>1 DEF is_empty
      <4>9. hold
        BY <2>1, <2>3, <4>8 DEF Behind, InFlight
      <4> QED
        BY <2>3, <4>7, <4>9
    <3>2. tick'.txs = tick.txs /\ ~tick'.inner
      BY <2>3, InnerReset
    <3> QED
      BY <2>2, <2>3, <3>1, <3>2 DEF Behind, InFlight
  <2>4. CASE pc' = "idle" /\ tick' = NoTick
    BY <2>2, <2>4, NoTickFields DEF Behind, Ticking, InFlight
  <2> QED
    BY <2>1, <2>3, <2>4, ReturnFields
<1>22. CASE ReceiptConfirmsNothing
  <2>1. Return(TRUE) /\ fwd' = fwd /\ pc = "receipt"
    BY <1>22 DEF ReceiptConfirmsNothing, shared
  <2>2. pc' = "idle" /\ tick' = NoTick
    BY <2>1, ReturnFields
  <2> QED
    BY <2>1, <2>2, NoTickFields DEF Behind, Ticking, InFlight
<1>23. CASE UNCHANGED vars
  BY <1>23 DEF vars, shared, driver, Behind, Entered, Ticking, InFlight, LastUnsent
<1> QED
  BY <1>1, <1>2, <1>3, <1>4, <1>5, <1>6, <1>7, <1>8, <1>9, <1>10, <1>11, <1>12, <1>13, <1>14, <1>15,
     <1>16, <1>17, <1>18, <1>19, <1>20, <1>21, <1>22, <1>23 DEF Next, TickNext, FlushNext

\* Only forward_queued_l1_txs releases transactions, those of the queue, and
\* outside the cooldown.
LEMMA OnlyForwardReleases ==
  ASSUME Core, [Next]_vars, NEW c \in L1Txs, sent'[c] > sent[c]
  PROVE  pc = "forward" /\ c \in ToSet(fwd)
<1>1. ForwardQueuedL1Txs \/ sent' = sent
  BY DEF Next, RpcNext, QueueCrossChainCall, QueueL2ToL1Call, QueueL1ForwardTx,
     TickNext, DrainCrossChainCalls, DrainCall, DrainL2ToL1Calls, DrainL2ToL1Call, InjectHeldL2Txs,
     BuildBlock, BuildFails, CommitForwardTxs, FlushOnly,
     FlushNext, FlushSkips, FlushTrims, FlushFindsStaleContext, FlushFindsDivergentAnchor,
     FlushRewinds, CollectBatch, SendFails, SendSucceeds, SendTriggers, BatchFails,
     ReceiptConfirms, ReceiptConfirmsNothing, ReceiptTimesOut,
     RecoveryNext, Recovers, DerivationRewinds, HoldReleased, SyncDone, RebuildWithFreshL1Context,
     CooldownEnds, history, vars
<1>2. c \in L1Txs /\ sent[c] \in Nat
  BY DEF L1Txs, Core, Types, HistoryTypes
<1>3. ForwardQueuedL1Txs
  BY <1>1, <1>2
<1>4. sent'[c] = sent[c] + (IF cooling THEN 0 ELSE Cardinality({i \in DOMAIN fwd : fwd[i] = c}))
  BY <1>2, <1>3 DEF ForwardQueuedL1Txs
<1>5. c \in ToSet(fwd)
  <2>1. SUFFICES ASSUME c \notin ToSet(fwd) PROVE FALSE
    OBVIOUS
  <2>2. {i \in DOMAIN fwd : fwd[i] = c} = {}
    BY <2>1 DEF ToSet
  <2>3. Cardinality({i \in DOMAIN fwd : fwd[i] = c}) = 0
    BY <2>2, FS_EmptySet
  <2>4. sent'[c] = sent[c] + 0
    BY <1>4, <2>3
  <2> QED
    BY <1>2, <2>4
<1> QED
  BY <1>3, <1>5 DEF ForwardQueuedL1Txs

\* forward_queued_l1_txs, ExecutionNotInCurrentBlock: while no entry is
\* discarded by the cap or for a missing state root, a user's L1 transaction is
\* released only behind the batch with the entries it consumes.
THEOREM ReleasedBehindItsEntries ==
  Spec /\ []BelowCap /\ []RootsKnown => ForwardWithItsBatch
<1>1. Init => Behind
  <2> SUFFICES ASSUME Init PROVE Behind
    OBVIOUS
  <2>1. ToSet(fwd) = {} /\ ~Ticking /\ ~InFlight /\ pc = "idle"
    BY NoTickFields, EmptySeqFacts DEF Init, Ticking, InFlight
  <2> QED
    BY <2>1 DEF Behind
<1>2. Core /\ Core' /\ BelowCap /\ RootsKnown' /\ Apart /\ Behind /\ [Next]_vars => Behind'
  BY NextBehind
<1>3. Core /\ Behind /\ [Next]_vars =>
        [\A c \in WithTx : sent'[c] > sent[c] => c \in CallsIn(flight.q)]_vars
  <2> SUFFICES ASSUME Core, Behind, [Next]_vars, NEW c \in WithTx, sent'[c] > sent[c]
               PROVE  c \in CallsIn(flight.q)
    OBVIOUS
  <2>1. pc = "forward" /\ c \in ToSet(fwd)
    BY OnlyForwardReleases DEF L1Txs
  <2>2. pending_l1 = EmptyQueue
    BY <2>1 DEF Core, Control, InFlight
  <2> QED
    BY <2>1, <2>2, EmptyQueuePlaces DEF Behind, Entered
<1> QED
  BY <1>1, <1>2, <1>3, CoreHolds, ApartHolds, PTL DEF Spec, ForwardWithItsBatch

-----------------------------------------------------------------------------
(* The batch outbids the transactions behind it *)

\* The direct transactions that wait, or waited when the batch was priced, were accepted.
Seen == Direct \cap (ToSet(fwd) \cup flight.seen) \subseteq accepted

\* While the batch is being sent the hint stays above the fee of every user
\* transaction that will follow it, except direct ones it was not computed from.
Bid ==
  /\ Seen
  /\ pc \in {"send", "forward"} =>
       \A t \in ToSet(fwd) : Price[t] > 0 => flight.hint > Price[t] \/ t \in Direct \ flight.seen

\* Direct transactions enter the forward queue when they are accepted.
LEMMA NextSeen ==
  ASSUME Core, Seen, [Next]_vars
  PROVE  Seen'
<1>1. accepted \subseteq accepted'
  BY DEF Next, RpcNext, QueueCrossChainCall, QueueL2ToL1Call, QueueL1ForwardTx,
     TickNext, DrainCrossChainCalls, DrainCall, DrainL2ToL1Calls, DrainL2ToL1Call, InjectHeldL2Txs,
     BuildBlock, BuildFails, CommitForwardTxs, FlushOnly,
     FlushNext, FlushSkips, FlushTrims, FlushFindsStaleContext, FlushFindsDivergentAnchor,
     FlushRewinds, CollectBatch, SendFails, SendSucceeds, SendTriggers, ForwardQueuedL1Txs, BatchFails,
     ReceiptConfirms, ReceiptConfirmsNothing, ReceiptTimesOut,
     RecoveryNext, Recovers, DerivationRewinds, HoldReleased, SyncDone, RebuildWithFreshL1Context,
     CooldownEnds, history, vars
<1>2. Direct \cap ToSet(fwd') \subseteq accepted'
  <2>1. CASE fwd' = fwd \/ fwd' = <<>>
    BY <1>1, <2>1 DEF Seen, ToSet
  <2>2. ASSUME NEW t \in Direct, QueueL1ForwardTx(t)
        PROVE  Direct \cap ToSet(fwd') \subseteq accepted'
    <3>1. t \in L1Txs /\ fwd \in Seq(L1Txs)
      BY DEF L1Txs, Core, Types, SharedTypes
    <3>2. ToSet(fwd') = ToSet(fwd) \cup {t}
      BY <2>2, <3>1, AppendFacts DEF QueueL1ForwardTx
    <3> QED
      BY <2>2, <3>2 DEF QueueL1ForwardTx, Seen
  <2>3. CASE CommitForwardTxs
    <3>1. tick.txs \in Seq(WithTx) /\ fwd \in Seq(L1Txs) /\ WithTx \cap Direct = {}
      BY TickFields, CallQueuesAssumption DEF Core, Types, LocalTypes, SharedTypes, Calls
    <3>2. ToSet(fwd') \subseteq ToSet(fwd) \cup WithTx
      <4> SUFFICES ASSUME NEW i \in DOMAIN fwd' PROVE fwd'[i] \in ToSet(fwd) \cup WithTx
        BY DEF ToSet
      <4>1. fwd' = fwd \o tick.txs
        BY <2>3 DEF CommitForwardTxs
      <4>2. i \in 1..Len(fwd) + Len(tick.txs)
        BY <3>1, <4>1
      <4>3. CASE i <= Len(fwd)
        BY <3>1, <4>1, <4>2, <4>3 DEF ToSet
      <4>4. CASE i > Len(fwd)
        BY <3>1, <4>1, <4>2, <4>4
      <4> QED
        BY <3>1, <4>2, <4>3, <4>4
    <3> QED
      BY <1>1, <3>1, <3>2 DEF Seen
  <2>4. \/ fwd' = fwd \/ fwd' = <<>> \/ CommitForwardTxs
        \/ \E t \in Direct : QueueL1ForwardTx(t)
    BY DEF Next, RpcNext, QueueCrossChainCall, QueueL2ToL1Call,
       TickNext, DrainCrossChainCalls, DrainCall, DrainL2ToL1Calls, DrainL2ToL1Call, InjectHeldL2Txs,
       BuildBlock, BuildFails, FlushOnly, ClearInternalState,
       FlushNext, FlushSkips, FlushTrims, FlushFindsStaleContext, FlushFindsDivergentAnchor,
       FlushRewinds, CollectBatch, SendFails, SendSucceeds, SendTriggers, ForwardQueuedL1Txs, BatchFails,
       StillQueued, ReceiptConfirms, ReceiptConfirmsNothing, ReceiptTimesOut,
       RecoveryNext, Recovers, DerivationRewinds, HoldReleased, SyncDone, RebuildWithFreshL1Context,
       CooldownEnds, shared, vars
  <2> QED
    BY <2>1, <2>2, <2>3, <2>4
<1>3. flight'.seen \subseteq flight.seen \cup ToSet(fwd)
  <2>1. \/ flight' = flight \/ flight' = NoFlight \/ CollectBatch
    BY DEF Next, RpcNext, QueueCrossChainCall, QueueL2ToL1Call, QueueL1ForwardTx,
       TickNext, DrainCrossChainCalls, DrainCall, DrainL2ToL1Calls, DrainL2ToL1Call, InjectHeldL2Txs,
       BuildBlock, BuildFails, CommitForwardTxs, FlushOnly, Return,
       FlushNext, FlushSkips, FlushTrims, FlushFindsStaleContext, FlushFindsDivergentAnchor,
       FlushRewinds, SendFails, SendSucceeds, SendTriggers, ForwardQueuedL1Txs, BatchFails,
       ReceiptConfirms, ReceiptConfirmsNothing, ReceiptTimesOut,
       RecoveryNext, Recovers, DerivationRewinds, HoldReleased, SyncDone, RebuildWithFreshL1Context,
       CooldownEnds, vars
  <2>2. CASE CollectBatch
    BY <2>2 DEF CollectBatch
  <2> QED
    BY <2>1, <2>2 DEF NoFlight
<1> QED
  BY <1>1, <1>2, <1>3 DEF Seen

\* No step lets a forwarded transaction outbid the batch sent with it.
LEMMA NextBid ==
  ASSUME OverbidPct >= 0, Core, Bid, [Next]_vars
  PROVE  Bid'
<1> USE DEF Core
<1>a. Seen'
  BY NextSeen DEF Bid
<1>1. CASE RpcNext
  <2>1. UNCHANGED <<pc, flight>>
    BY <1>1 DEF RpcNext, QueueCrossChainCall, QueueL2ToL1Call, QueueL1ForwardTx
  <2>2. ToSet(fwd') \subseteq ToSet(fwd) \cup (Direct \ accepted)
    <3>1. ASSUME NEW t \in Direct, QueueL1ForwardTx(t)
          PROVE  ToSet(fwd') = ToSet(fwd) \cup {t}
      <4>1. t \in L1Txs /\ fwd \in Seq(L1Txs)
        BY DEF L1Txs, Types, SharedTypes
      <4> QED
        BY <3>1, <4>1, AppendFacts DEF QueueL1ForwardTx
    <3>2. fwd' = fwd \/ \E t \in Direct : QueueL1ForwardTx(t)
      BY <1>1 DEF RpcNext, QueueCrossChainCall, QueueL2ToL1Call
    <3> QED
      BY <3>1, <3>2 DEF QueueL1ForwardTx
  <2> QED
    BY <1>a, <2>1, <2>2 DEF Bid, Seen
<1>2. CASE CollectBatch
  <2>1. flight'.hint = compute_gas_overbid /\ fwd' = fwd
    BY <1>2 DEF CollectBatch, shared
  <2>2. \A c \in ToSet(fwd) : Price[c] \in Fees
    BY DEF Fees, ToSet
  <2>3. \A f \in Fees : f > 0 => compute_gas_overbid > f
    BY Overbid DEF Types
  <2> QED
    BY <1>a, <2>1, <2>2, <2>3 DEF Bid
<1>3. CASE SendSucceeds
  BY <1>3, <1>a DEF SendSucceeds, shared, Bid
<1>4. CASE pc' \notin {"send", "forward"}
  BY <1>4, <1>a DEF Bid
<1>5. CASE UNCHANGED <<pc, flight, fwd>>
  BY <1>5, <1>a DEF Bid
<1>6. \/ RpcNext \/ CollectBatch \/ SendSucceeds \/ pc' \notin {"send", "forward"}
      \/ UNCHANGED <<pc, flight, fwd>>
  <2>1. CASE TickNext
    <3>1. pc' \in {"incoming", "outgoing", "build", "flush", "idle"}
      BY <2>1 DEF TickNext, DrainCrossChainCalls, DrainCall, DrainL2ToL1Calls, DrainL2ToL1Call,
         InjectHeldL2Txs, BuildBlock, BuildFails, CommitForwardTxs, FlushOnly
    <3> QED
      BY <3>1
  <2>2. CASE RecoveryNext
    <3>1. UNCHANGED <<pc, flight>> /\ (fwd' = fwd \/ pc = "idle")
      BY <2>2 DEF RecoveryNext, Recovers, DerivationRewinds, HoldReleased, SyncDone,
         RebuildWithFreshL1Context, CooldownEnds, shared
    <3> QED
      BY <3>1
  <2>3. CASE FlushTrims \/ ForwardQueuedL1Txs \/ SendTriggers
    BY <2>3 DEF FlushTrims, ForwardQueuedL1Txs, SendTriggers, Prechecked
  <2>4. CASE \/ FlushSkips \/ FlushFindsStaleContext \/ FlushFindsDivergentAnchor \/ FlushRewinds
             \/ SendFails \/ BatchFails \/ ReceiptConfirms \/ ReceiptConfirmsNothing \/ ReceiptTimesOut
    <3>1. \E bail : Return(bail)
      BY <2>4 DEF FlushSkips, FlushFindsStaleContext, FlushFindsDivergentAnchor, FlushRewinds,
         SendFails, BatchFails, ReceiptConfirms, ReceiptConfirmsNothing, ReceiptTimesOut
    <3> QED
      BY <3>1, ReturnFields
  <2>5. CASE UNCHANGED vars
    BY <2>5 DEF vars, shared
  <2> QED
    BY <2>1, <2>2, <2>3, <2>4, <2>5 DEF Next, FlushNext
<1> QED
  BY <1>1, <1>2, <1>3, <1>4, <1>5, <1>6

\* compute_gas_overbid: with a percentage that is not negative, the batch bids
\* more than the user transactions released behind it, those of calls whenever
\* they entered a queue, the direct ones if they waited when it was priced.
THEOREM BatchBidsMore ==
  ASSUME OverbidPct >= 0
  PROVE  Spec => BatchOutbidsForwards
<1>1. Init => Bid
  BY DEF Init, Bid, Seen, NoFlight, ToSet
<1>2. Core /\ Bid /\ [Next]_vars => Bid'
  BY NextBid
<1>3. Core /\ Bid /\ [Next]_vars =>
        [\A t \in L1Txs : sent'[t] > sent[t] /\ Price[t] > 0 =>
              flight.hint > Price[t] \/ t \in Direct \ flight.seen]_vars
  BY OnlyForwardReleases DEF Bid
<1> QED
  BY <1>1, <1>2, <1>3, CoreHolds, PTL DEF Spec, BatchOutbidsForwards
=============================================================================
