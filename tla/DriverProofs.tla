---------------------------- MODULE DriverProofs ----------------------------
(***************************************************************************)
(* Proofs about the driver, for every value of the constants: any length   *)
(* of L1, any number of faults, reorgs and restarts, both engines and both *)
(* submission paths.                                                       *)
(*                                                                         *)
(* Three arguments.  The first is about control only: of the data it needs *)
(* no more than the set of fields of the records d and work, since every   *)
(* operation is an EXCEPT on them.  The second gives every piece of data   *)
(* its type and the bound the code puts on it; what derivation hands over  *)
(* comes from DerivationProofs.  The third rests on both: the blocks that  *)
(* wait for submission are blocks of the local chain.                      *)
(***************************************************************************)
EXTENDS Driver, DerivationProofs, TLAPS

Fields == {"mode", "pending", "entries", "hold", "anchor", "rewind", "sibling",
           "refresh", "ceiling", "mismatches", "cycles", "seen", "cool", "dv"}
Locals == {"todo", "empty", "next", "tick", "root", "blocks", "sent", "logs"}

\* d and work are records with the fields they were created with.
Shape == DOMAIN d = Fields /\ DOMAIN work = Locals

\* What a pending rewind needs of the other fields.
Clean(s) ==
  /\ s.mode = "sync" /\ s.pending = <<>> /\ s.entries = <<>>
  /\ ~IsArmed(s.hold)

\* The inductive invariant: the two disciplines and the shape of the records.
IInv == Shape /\ HoldDiscipline /\ RewindIsClean

-----------------------------------------------------------------------------
(* What the recovery operators do to the fields *)

\* clear_internal_state empties the queue and the hold and leaves the mode alone.
LEMMA Clears ==
  ASSUME NEW s, DOMAIN s = Fields
  PROVE  LET c == ClearInternalState(s)
         IN  /\ DOMAIN c = Fields /\ c.pending = <<>> /\ c.entries = <<>>
             /\ ~IsArmed(c.hold) /\ c.mode = s.mode /\ c.rewind = s.rewind
  BY DEF ClearInternalState, IsArmed, Fields

\* rewind_to_re_derive leaves a clean driver.
LEMMA ReDerives ==
  ASSUME NEW s, DOMAIN s = Fields, NEW target, NEW rollback
  PROVE  LET r == RewindToReDerive(s, target, rollback)
         IN  DOMAIN r = Fields /\ Clean(r)
  BY Clears DEF RewindToReDerive, SetRewindTarget, CountCycle, Clean, Fields

\* apply_sibling_reorg_plan leaves a clean driver.
LEMMA PlansSibling ==
  ASSUME NEW s, DOMAIN s = Fields, NEW n, NEW root
  PROVE  LET r == ApplySiblingReorgPlan(s, n, root)
         IN  DOMAIN r = Fields /\ Clean(r)
  BY Clears DEF ApplySiblingReorgPlan, SetRewindTarget, Clean, Fields

\* The generic mismatch rewind leaves a clean driver.
LEMMA Generic ==
  ASSUME NEW s, DOMAIN s = Fields, NEW b
  PROVE  LET r == GenericMismatchRewind(s, b)
         IN  DOMAIN r = Fields /\ Clean(r)
  BY Clears DEF GenericMismatchRewind, SetRewindTarget, CountCycle, Clean, Fields

\* A deferral counts only for a hold that is armed.
LEMMA DefersHeld ==
  ASSUME NEW f, NEW q, NEW h, NEW n,
         ClassifyVerifyMismatch(f, q, h, n) = "defer"
  PROVE  h
  BY DEF ClassifyVerifyMismatch

\* The classification knows five actions.
LEMMA MismatchActions ==
  ASSUME NEW f, NEW q, NEW h, NEW n
  PROVE  ClassifyVerifyMismatch(f, q, h, n) \in {"sibling", "noop", "defer", "exhausted", "generic"}
  BY DEF ClassifyVerifyMismatch

\* The states verification can leave the driver in.
LEMMA VerificationOutcomes ==
  ASSUME NEW s, NEW b
  PROVE  LET t == Verification(s, b).d
             action == ClassifyVerifyMismatch(b.filt, s.sibling # NoRequest,
                                              IsArmedFor(s.hold, b.n), s.hold.deferrals)
         IN  \/ t = s \/ t = [s EXCEPT !.hold = Clear]
             \/ action = "defer" /\ t = [s EXCEPT !.hold = Deferred(@)]
             \/ t = ApplySiblingReorgPlan(s, b.n, b.root)
             \/ t = RewindToReDerive(s, SaturatingPred(b.n), RollbackL1(s.anchor))
             \/ t = GenericMismatchRewind(s, b)
<1> DEFINE action == ClassifyVerifyMismatch(b.filt, s.sibling # NoRequest,
                                            IsArmedFor(s.hold, b.n), s.hold.deferrals)
<1>1. action \in {"sibling", "noop", "defer", "exhausted", "generic"}
  BY MismatchActions
<1> QED
  BY <1>1, SMTT(30) DEF Verification

\* Verification leaves no rewind pending over a queue that is not empty.
LEMMA Verifies ==
  ASSUME NEW s, DOMAIN s = Fields, s.rewind # None => Clean(s), NEW b
  PROVE  LET v == Verification(s, b)
         IN  DOMAIN v.d = Fields /\ (v.d.rewind # None => Clean(v.d))
<1> DEFINE held == IsArmedFor(s.hold, b.n)
           action == ClassifyVerifyMismatch(b.filt, s.sibling # NoRequest, held,
                                            s.hold.deferrals)
           released == [s EXCEPT !.hold = Clear]
           deferred == [s EXCEPT !.hold = Deferred(@)]
           v == Verification(s, b)
<1>1. DOMAIN released = Fields /\ (released.rewind # None => Clean(released))
  BY DEF Clean, IsArmed, Fields
<1>2. action = "defer" =>
        DOMAIN deferred = Fields /\ (deferred.rewind # None => Clean(deferred))
  <2>1. action = "defer" => IsArmed(s.hold)
    BY DefersHeld DEF IsArmedFor
  <2> QED
    BY <2>1 DEF Clean, Fields
<1>3. \/ v.d \in {s, released}
      \/ action = "defer" /\ v.d = deferred
      \/ v.d = ApplySiblingReorgPlan(s, b.n, b.root)
      \/ v.d = RewindToReDerive(s, SaturatingPred(b.n), RollbackL1(s.anchor))
      \/ v.d = GenericMismatchRewind(s, b)
  BY VerificationOutcomes
<1> DEFINE Done == DOMAIN v.d = Fields /\ (v.d.rewind # None => Clean(v.d))
<1> HIDE DEF v, released, deferred, action
<1>4. v.d \in {s, released} \/ (action = "defer" /\ v.d = deferred) => Done
  BY <1>1, <1>2
<1>5. v.d = ApplySiblingReorgPlan(s, b.n, b.root) => Done
  BY PlansSibling
<1>6. v.d = RewindToReDerive(s, SaturatingPred(b.n), RollbackL1(s.anchor)) => Done
  BY ReDerives
<1>7. v.d = GenericMismatchRewind(s, b) => Done
  BY Generic
<1>8. Done
  BY <1>3, <1>4, <1>5, <1>6, <1>7
<1> QED
  BY <1>8 DEF v

-----------------------------------------------------------------------------
(* Preservation by the actions *)

\* A freshly started driver satisfies the invariant.
LEMMA InitIInv == Init => IInv
  BY DEF Init, IInv, Shape, HoldDiscipline, RewindIsClean, FreshDriver, NoWork,
     Fields, Locals

\* What happens on L1 does not touch the driver.
LEMMA L1IInv ==
  ASSUME IInv, UNCHANGED <<d, pc, work>>
  PROVE  IInv'
  BY DEF IInv, Shape, HoldDiscipline, RewindIsClean, HasEntries, Sent

\* A block of L1 or a reorganisation is all that happens there.
LEMMA L1Cases ==
  ASSUME L1Next
  PROVE  \/ \E batch : Mined(batch)
         \/ \E i \in 1 .. Len(l1) : L1Reorgs(i)
<1>1. CASE L1Mine
  BY <1>1 DEF L1Mine
<1>2. CASE \E tx \in mempool : \E consumed \in 0 .. Consumable(tx) :
             L1Include(tx, consumed)
  BY <1>2 DEF L1Include
<1>3. CASE \E gap \in 0 .. MaxGap, count \in 1 .. MAX_BATCH_SIZE,
             ents \in 0 .. MaxEntries : \E consumed \in 0 .. ents :
               L1ForeignBatch(ForeignBatch(l1, gap, count, ents, consumed))
  BY <1>3 DEF L1ForeignBatch
<1> QED
  BY <1>1, <1>2, <1>3 DEF L1Next

\* A reorganisation puts one batch into the new fork.
LEMMA ReorgCases ==
  ASSUME NEW i, L1Reorgs(i)
  PROVE  \E at, batch : L1Reorg(i, at, batch)
<1> DEFINE Foreign(at, gap, count, ents, consumed) ==
      ForeignBatch(SubSeq(Fork(i), 1, at - 1), gap, count, ents, consumed)
<1>1. CASE L1Reorg(i, i, NoBatch)
  BY <1>1
<1>2. CASE \E tx \in mempool : \E consumed \in 0 .. Consumable(tx) :
             /\ Accepts(SubSeq(l1, 1, i - 1), tx)
             /\ L1Reorg(i, i, BatchOf(tx, consumed))
  BY <1>2
<1>3. CASE \E at \in i .. Len(l1), gap \in 0 .. MaxGap,
             count \in 1 .. MAX_BATCH_SIZE, ents \in 0 .. MaxEntries :
               \E consumed \in 0 .. ents :
                 /\ ForeignFits(SubSeq(Fork(i), 1, at - 1),
                                Foreign(at, gap, count, ents, consumed))
                 /\ L1Reorg(i, at, Foreign(at, gap, count, ents, consumed))
  BY <1>3
<1> QED
  BY <1>1, <1>2, <1>3 DEF L1Reorgs

\* It leaves the node alone.
LEMMA L1Leaves ==
  ASSUME L1Next
  PROVE  UNCHANGED <<chain, checkpoint, d, pc, work>>
<1>1. CASE \E batch : Mined(batch)
  BY <1>1 DEF Mined
<1>2. CASE \E i \in 1 .. Len(l1) : L1Reorgs(i)
  BY <1>2, ReorgCases DEF L1Reorg
<1> QED
  BY <1>1, <1>2, L1Cases

\* Of the bounds it spends that of the reorganisations.
LEMMA L1Spends ==
  ASSUME L1Next
  PROVE  used' = used \/ used' = [used EXCEPT !.reorgs = used.reorgs + 1]
<1>1. CASE \E batch : Mined(batch)
  BY <1>1 DEF Mined
<1>2. CASE \E i \in 1 .. Len(l1) : L1Reorgs(i)
  BY <1>2, ReorgCases DEF L1Reorg
<1> QED
  BY <1>1, <1>2, L1Cases

\* Where control can only be idle or between two derived blocks, the hold plays
\* no part: what is left to show is the shape and the rewind discipline.
LEMMA QuietStep ==
  ASSUME Shape', pc' \notin {"wait", "build"},
         d'.rewind # None => Clean(d') /\ pc' \in {"idle", "verify"}
  PROVE  IInv'
  BY DEF IInv, HoldDiscipline, RewindIsClean, Clean

\* A step that leaves step() with fields s.
LEMMA Returns ==
  ASSUME NEW s, Return(s), DOMAIN s = Fields, s.rewind # None => Clean(s)
  PROVE  IInv'
<1>1. Shape' /\ pc' = "idle" /\ d' = s
  BY DEF Return, Shape, NoWork, Locals
<1> QED
  BY <1>1, QuietStep

\* A flush that returns with fields s: building goes on only when neither a
\* rewind is pending nor the hold armed.
LEMMA FlushReturnsIInv ==
  ASSUME IInv, NEW s, FlushReturns(s), DOMAIN s = Fields,
         s.rewind # None => Clean(s)
  PROVE  IInv'
<1>1. d' = s /\ DOMAIN work' = Locals
  BY DEF FlushReturns, NoWork, Locals
<1>2. pc' = "idle" \/ (pc' \in {"build", "flush"} /\ s.rewind = None
                          /\ ~IsArmed(s.hold))
  BY DEF FlushReturns
<1> QED
  BY <1>1, <1>2 DEF IInv, Shape, HoldDiscipline, RewindIsClean, Clean

\* Outside the idle and verify points no rewind is pending.
LEMMA NoRewindElsewhere ==
  ASSUME IInv, pc \notin {"idle", "verify"}
  PROVE  d.rewind = None
  BY DEF IInv, RewindIsClean

\* Taking a rewind, failing it, or going on to the tick keeps the invariant.
LEMMA RewindIInv ==
  ASSUME IInv, StepRewind \/ StepRewindFails \/ Step
  PROVE  IInv'
<1>0. DOMAIN d = Fields /\ (d.rewind # None => Clean(d))
  BY DEF IInv, Shape, RewindIsClean, Clean
<1>1. CASE StepRewind
  <2> DEFINE taken == [d EXCEPT !.rewind = None, !.cool = FALSE]
  <2>1. DOMAIN taken = Fields /\ taken.rewind = None
    BY <1>0 DEF Fields
  <2>2. DOMAIN d' = Fields /\ d'.rewind = None
    BY <1>1, <2>1, Clears DEF StepRewind, RewindL2Chain, Fields
  <2> QED
    BY <1>1, <2>2, QuietStep DEF StepRewind, IInv, Shape
<1>2. CASE StepRewindFails
  <2>1. Clean(ClearInternalState(d))
    BY <1>0, <1>2, Clears DEF StepRewindFails, Clean
  <2> QED
    BY <1>0, <1>2, <2>1, Clears, Returns DEF StepRewindFails
<1>3. CASE Step
  <2>1. DOMAIN d' = Fields /\ d'.rewind = None
    BY <1>0, <1>3 DEF Step, Fields
  <2> QED
    BY <1>3, <2>1, QuietStep DEF Step, IInv, Shape
<1> QED
  BY <1>1, <1>2, <1>3

\* Refreshing the L1 context keeps the invariant.
LEMMA RefreshIInv ==
  ASSUME IInv, StepRefresh \/ StepRefreshFails
  PROVE  IInv'
<1>1. DOMAIN d = Fields /\ d.rewind = None
  BY NoRewindElsewhere DEF IInv, Shape, StepRefresh, StepRefreshFails
<1>2. CASE StepRefresh
  <2>1. DOMAIN d' = Fields /\ d'.rewind = None
    BY <1>1, <1>2, Clears DEF StepRefresh, Fields
  <2> QED
    BY <1>2, <2>1, QuietStep DEF StepRefresh, IInv, Shape
<1>3. CASE StepRefreshFails
  BY <1>1, <1>3, QuietStep DEF StepRefreshFails, IInv, Shape
<1> QED
  BY <1>2, <1>3

\* Following an L1 reorg keeps the invariant.
LEMMA ReorgIInv ==
  ASSUME IInv, StepReorg
  PROVE  IInv'
<1>1. DOMAIN d = Fields /\ d.rewind = None
  BY NoRewindElsewhere DEF IInv, Shape, StepReorg
<1>2. DOMAIN d' = Fields /\ d'.rewind = None
  BY <1>1, Clears DEF StepReorg, RewindL2Chain, Fields
<1> QED
  BY <1>2, QuietStep DEF StepReorg, Shape, NoWork, Locals

\* What the derivation of a batch comes from and does.
LEMMA Derivation ==
  ASSUME StepDerive
  PROVE  /\ pc = "blocks"
         /\ UNCHANGED <<l1, mempool, chain, checkpoint>>
         /\ \E batch : Derived(batch)
<1>1. pc = "blocks"
  BY DEF StepDerive
<1>2. UNCHANGED <<l1, mempool, chain, checkpoint>>
  BY DEF StepDerive
<1>3. \E batch : Derived(batch)
  BY DEF StepDerive
<1> QED
  BY <1>1, <1>2, <1>3

\* Deriving a batch of L1 blocks, or failing to, keeps the invariant.
LEMMA DeriveIInv ==
  ASSUME IInv, StepUnchanged \/ StepLogs \/ StepDerive \/ StepFails
  PROVE  IInv'
<1>0. DOMAIN d = Fields /\ DOMAIN work = Locals /\ (d.rewind # None => Clean(d))
  BY DEF IInv, Shape, RewindIsClean, Clean
<1>1. CASE StepUnchanged
  <2>1. d.rewind = None
    BY <1>1, NoRewindElsewhere DEF StepUnchanged
  <2>2. d' = [d EXCEPT !.seen = Len(l1)] /\ DOMAIN work' = Locals
        /\ pc' \in {"idle", "logs"}
    BY <1>0, <1>1 DEF StepUnchanged, Return, NoWork, Locals
  <2> QED
    BY <1>0, <2>1, <2>2, QuietStep DEF Shape, Fields
<1>2. CASE StepLogs
  <2>1. d.rewind = None
    BY <1>2, NoRewindElsewhere DEF StepLogs
  <2>2. d' = d /\ DOMAIN work' = Locals /\ pc' = "blocks"
    BY <1>0, <1>2 DEF StepLogs, Locals
  <2> QED
    BY <1>0, <2>1, <2>2, QuietStep DEF Shape
<1>3. CASE StepDerive
  <2>1. PICK batch : Derived(batch)
    BY <1>3, Derivation
  <2>2. d.rewind = None
    BY <1>3, Derivation, NoRewindElsewhere
  <2>3. d' = d /\ DOMAIN work' = Locals /\ pc' \in {"idle", "sync", "verify"}
    BY <2>1 DEF Derived, Return, NoWork, Locals
  <2> QED
    BY <1>0, <2>2, <2>3, QuietStep DEF Shape
<1>4. CASE StepFails
  BY <1>0, <1>4, Returns DEF StepFails
<1> QED
  BY <1>1, <1>2, <1>3, <1>4

\* The steps over the derived blocks that keep d or return.
LEMMA AdvanceIInv ==
  ASSUME IInv, pc \in {"sync", "verify"}, Advance, UNCHANGED d
  PROVE  IInv'
<1>1. Shape' /\ pc' = pc
  BY DEF IInv, Shape, Advance, Locals
<1> QED
  BY <1>1, QuietStep DEF IInv, RewindIsClean, Clean

\* Each turn of the loop over derived blocks in step_sync keeps the invariant.
LEMMA SyncIInv ==
  ASSUME IInv, SyncRebuild \/ SyncSkip \/ SyncInsert \/ SyncCommit
  PROVE  IInv'
<1>1. DOMAIN d = Fields /\ DOMAIN work = Locals /\ d.rewind = None
      /\ pc = "sync"
  BY NoRewindElsewhere DEF IInv, Shape, SyncRebuild, SyncSkip, SyncInsert,
     SyncCommit
<1>2. CASE SyncRebuild
  <2>1. CASE Return(d)
    BY <1>1, <2>1, Returns
  <2>2. CASE ~Return(d)
    <3>1. d' = [d EXCEPT !.sibling = NoRequest, !.cycles = 0,
                         !.mismatches = 0, !.hold = Clear] /\ Advance
      BY <1>2, <2>2 DEF SyncRebuild
    <3>2. DOMAIN d' = Fields /\ d'.rewind = None
      BY <1>1, <3>1 DEF Fields
    <3>3. DOMAIN work' = Locals /\ pc' = "sync"
      BY <1>1, <3>1 DEF Advance
    <3> QED
      BY <3>2, <3>3, QuietStep DEF Shape
  <2> QED
    BY <2>1, <2>2
<1>3. CASE SyncSkip
  BY <1>1, <1>3, AdvanceIInv DEF SyncSkip
<1>4. CASE SyncInsert
  BY <1>1, <1>4, AdvanceIInv, Returns DEF SyncInsert, InsertNext
<1>5. CASE SyncCommit
  <2>1. DOMAIN d' = Fields /\ d'.rewind = None
    BY <1>1, <1>5, Clears DEF SyncCommit, Commit, Fields
  <2> QED
    BY <1>5, <2>1, QuietStep DEF SyncCommit, Shape, NoWork, Locals
<1> QED
  BY <1>2, <1>3, <1>4, <1>5

\* Each turn of the verification loop of step_builder keeps the invariant.
LEMMA VerifyIInv ==
  ASSUME IInv, \/ VerifyBlock \/ VerifyInsert
               \/ VerifyCommitBuilder \/ VerifyCommitFullnode
  PROVE  IInv'
<1>1. DOMAIN d = Fields /\ DOMAIN work = Locals /\ pc = "verify"
      /\ (d.rewind # None => Clean(d))
  BY DEF IInv, Shape, RewindIsClean, Clean, VerifyBlock, VerifyInsert,
     VerifyCommitBuilder, VerifyCommitFullnode
<1>2. CASE VerifyBlock
  <2> DEFINE v == Verification(d, NextBlock)
  <2>1. DOMAIN v.d = Fields /\ (v.d.rewind # None => Clean(v.d))
    BY <1>1, Verifies
  <2>2. CASE Return(v.d)
    BY <2>1, <2>2, Returns
  <2>3. CASE d' = v.d /\ Advance
    <3>1. DOMAIN work' = Locals /\ pc' = "verify"
      BY <1>1, <2>3 DEF Advance
    <3> QED
      BY <2>1, <2>3, <3>1, QuietStep DEF Shape
  <2> QED
    BY <1>2, <2>2, <2>3 DEF VerifyBlock
<1>3. CASE VerifyInsert
  BY <1>1, <1>3, AdvanceIInv, Returns DEF VerifyInsert, InsertNext
<1>4. CASE VerifyCommitBuilder
  <2>1. DOMAIN d' = Fields /\ d'.rewind = d.rewind
        /\ (d.rewind # None => d' = d)
    BY <1>1, <1>4 DEF VerifyCommitBuilder, LoopBroken, Commit, Fields
  <2> QED
    BY <1>1, <1>4, <2>1, QuietStep DEF VerifyCommitBuilder, Shape, NoWork, Locals
<1>5. CASE VerifyCommitFullnode
  <2>1. DOMAIN d' = Fields /\ d'.rewind = d.rewind
        /\ (d.rewind # None => d' = d)
    BY <1>1, <1>5 DEF VerifyCommitFullnode, Commit, Fields
  <2> QED
    BY <1>1, <1>5, <2>1, QuietStep DEF VerifyCommitFullnode, Shape, NoWork, Locals
<1> QED
  BY <1>2, <1>3, <1>4, <1>5

\* The start of a builder tick keeps the invariant.
LEMMA TickIInv ==
  ASSUME IInv, NEW k, TickIdle \/ Tick(k)
  PROVE  IInv'
<1>1. DOMAIN d = Fields /\ DOMAIN work = Locals /\ d.rewind = None
  BY NoRewindElsewhere DEF IInv, Shape, TickIdle, Tick
<1>2. CASE TickIdle
  BY <1>1, <1>2, QuietStep DEF TickIdle, Shape
<1>3. CASE Tick(k)
  <2>1. DOMAIN d' = Fields /\ d'.rewind = None /\ d'.hold = d.hold
    BY <1>1, <1>3 DEF Tick, Fields
  <2>2. DOMAIN work' = Locals /\ pc' = "build" /\ ~IsArmed(d.hold)
    BY <1>3 DEF Tick, MayBuild, NoWork, Locals
  <2> QED
    BY <2>1, <2>2 DEF IInv, Shape, HoldDiscipline, RewindIsClean
<1> QED
  BY <1>2, <1>3

\* Building a block, or failing to, keeps the invariant.
LEMMA BuildIInv ==
  ASSUME IInv, BuildBlock \/ BuildFails
  PROVE  IInv'
<1>1. DOMAIN d = Fields /\ DOMAIN work = Locals /\ d.rewind = None
      /\ ~IsArmed(d.hold)
  BY NoRewindElsewhere DEF IInv, Shape, HoldDiscipline, BuildBlock, BuildFails
<1>2. CASE BuildBlock
  <2>1. DOMAIN d' = Fields /\ d'.rewind = None /\ d'.hold = d.hold
    BY <1>1, <1>2 DEF BuildBlock, Fields
  <2>2. DOMAIN work' = Locals /\ pc' \in {"build", "flush"}
    BY <1>1, <1>2 DEF BuildBlock, Locals
  <2> QED
    BY <1>1, <2>1, <2>2 DEF IInv, Shape, HoldDiscipline, RewindIsClean
<1>3. CASE BuildFails
  <2> DEFINE s == [d EXCEPT !.mode = "sync",
                            !.entries = SubSeq(@, 1, Smaller(work.tick.base,
                                                             Len(@)))]
  <2>1. DOMAIN s = Fields /\ s.rewind = None /\ Return(s)
    BY <1>1, <1>3 DEF BuildFails, Fields
  <2> QED
    BY <2>1, Returns
<1> QED
  BY <1>2, <1>3

\* flush_precheck: everything but the trim returns.
LEMMA PrecheckIInv ==
  ASSUME IInv, \/ FlushSkip \/ FlushFails \/ FlushTrim \/ FlushDispatch
               \/ FlushStale \/ FlushWaitsForRefresh
  PROVE  IInv'
<1>1. DOMAIN d = Fields /\ DOMAIN work = Locals /\ d.rewind = None
  BY NoRewindElsewhere DEF IInv, Shape, FlushSkip, FlushFails, FlushTrim,
     FlushDispatch, FlushStale, FlushWaitsForRefresh
<1>2. CASE FlushSkip \/ FlushFails \/ FlushWaitsForRefresh
  BY <1>1, <1>2, FlushReturnsIInv DEF FlushSkip, FlushFails, FlushWaitsForRefresh
<1>3. CASE FlushTrim
  <2>1. DOMAIN d' = Fields /\ d'.rewind = None
    BY <1>1, <1>3 DEF FlushTrim, Trimmed, Fields
  <2>2. DOMAIN work' = Locals /\ pc' = "check"
    BY <1>1, <1>3 DEF FlushTrim
  <2> QED
    BY <2>1, <2>2, QuietStep DEF Shape
<1>4. CASE FlushDispatch
  <2> DEFINE s == [ClearInternalState(d) EXCEPT
                     !.sibling = d.sibling,
                     !.dv = RollbackTo([@ EXCEPT !.derived =
                                          FlushPlanTarget(d.anchor, d.sibling.target)],
                                       RollbackL1(d.anchor)),
                     !.mode = "sync"]
  <2>1. DOMAIN s = Fields /\ s.rewind = None
    BY <1>1, Clears DEF Fields
  <2>2. FlushReturns(s)
    BY <1>4 DEF FlushDispatch
  <2> QED
    BY <2>1, <2>2, FlushReturnsIInv
<1>5. CASE FlushStale
  <2> DEFINE s == [d EXCEPT !.refresh = NumberOf(FrontBlock)]
  <2>1. DOMAIN s = Fields /\ s.rewind = None
    BY <1>1 DEF Fields
  <2>2. FlushReturns(d) \/ FlushReturns(s)
    BY <1>5 DEF FlushStale
  <2> QED
    BY <1>1, <2>1, <2>2, FlushReturnsIInv
<1> QED
  BY <1>2, <1>3, <1>4, <1>5

\* Each answer of flush_to_l1 to a root mismatch keeps the invariant.
LEMMA MismatchIInv ==
  ASSUME IInv, \/ FlushMismatchTransient \/ FlushMismatchSibling
               \/ FlushMismatchRewind
  PROVE  IInv'
<1>1. DOMAIN d = Fields /\ d.rewind = None
  BY NoRewindElsewhere DEF IInv, Shape, FlushMismatchTransient,
     FlushMismatchSibling, FlushMismatchRewind, Proceed
<1>2. DOMAIN Mismatched = Fields /\ Mismatched.rewind = None
  BY <1>1 DEF Mismatched, Fields
<1> DEFINE reset == [d EXCEPT !.mismatches = 0]
<1>3. DOMAIN reset = Fields /\ reset.rewind = None
  BY <1>1 DEF Fields
<1>4. CASE FlushMismatchTransient
  BY <1>2, <1>4, FlushReturnsIInv DEF FlushMismatchTransient
<1>5. CASE FlushMismatchSibling
  <2> DEFINE s == [reset EXCEPT !.sibling = Request(d.anchor.l2, work.root)]
  <2>1. DOMAIN s = Fields /\ s.rewind = None
    BY <1>1 DEF Fields
  <2>2. FlushReturns(reset) \/ FlushReturns(s)
    BY <1>5 DEF FlushMismatchSibling
  <2> QED
    BY <1>3, <2>1, <2>2, FlushReturnsIInv
<1>6. CASE FlushMismatchRewind
  <2>1. \E s \in {Mismatched, reset} : \E target, rollback :
          FlushReturns(RewindToReDerive(s, target, rollback))
    BY <1>6 DEF FlushMismatchRewind
  <2> QED
    BY <1>2, <1>3, <2>1, ReDerives, FlushReturnsIInv
<1> QED
  BY <1>4, <1>5, <1>6

\* The batch goes out only after the hold is armed for its last block.
LEMMA SubmitIInv ==
  ASSUME IInv, FlushSubmit \/ FlushSendFails
  PROVE  IInv'
<1>1. DOMAIN d = Fields /\ DOMAIN work = Locals /\ d.rewind = None
  BY NoRewindElsewhere DEF IInv, Shape, FlushSubmit, FlushSendFails, Proceed
<1> DEFINE matched == PreRootMatched(d)
<1>2. DOMAIN matched = Fields /\ matched.rewind = None
      /\ matched.entries = d.entries
  BY <1>1 DEF PreRootMatched, Fields
<1>3. CASE FlushSubmit
  <2>1. d' = [HoldArmed(matched) EXCEPT
                !.pending = SubSeq(@, BatchSize + 1, Len(@)), !.entries = <<>>]
        /\ pc' = "wait"
    BY <1>3 DEF FlushSubmit
  <2>2. DOMAIN work' = Locals /\ work'.sent = Submission
    BY <1>1, <1>3 DEF FlushSubmit, Locals
  <2>3. DOMAIN d' = Fields /\ d'.rewind = None
    BY <1>2, <2>1 DEF HoldArmed, Fields
  <2>4. d'.hold = HoldArmed(matched).hold
    BY <1>2, <2>1 DEF HoldArmed, Fields
  <2>5. Submission.ents = d.entries /\ (Submission.first # 0 => BatchSize # 0)
    BY DEF Submission, NoTx
  <2>6. d.entries # <<>> /\ BatchSize # 0 =>
          HoldArmed(matched).hold = Arm(matched.hold, NumberOf(Submission.root))
    BY <1>2 DEF HoldArmed, Fields
  <2>7. \A h, n : IsArmedFor(Arm(h, n), n)
    BY DEF IsArmedFor, IsArmed, Arm, Armed, Clear
  <2>8. HoldDiscipline'
    BY <2>1, <2>2, <2>4, <2>5, <2>6, <2>7 DEF HoldDiscipline, HasEntries, Sent
  <2> QED
    BY <2>2, <2>3, <2>8 DEF IInv, Shape, RewindIsClean
<1>4. CASE FlushSendFails
  <2> DEFINE s == [matched EXCEPT !.hold = Clear, !.cool = TRUE]
  <2>1. DOMAIN s = Fields /\ s.rewind = None
    BY <1>2 DEF Fields
  <2> QED
    BY <1>4, <2>1, FlushReturnsIInv DEF FlushSendFails
<1> QED
  BY <1>3, <1>4

\* Each outcome of a submitted batch keeps the invariant.
LEMMA OutcomeIInv ==
  ASSUME IInv, \/ TriggersNotSent \/ BatchConfirmed \/ BatchPartlyConsumed
               \/ BatchNotConsumed \/ BatchReverted \/ BatchUnknown
  PROVE  IInv'
<1>1. DOMAIN d = Fields /\ d.rewind = None
  BY NoRewindElsewhere DEF IInv, Shape, TriggersNotSent, BatchConfirmed,
     BatchPartlyConsumed, BatchNotConsumed, BatchReverted, BatchUnknown
<1>2. DOMAIN Confirmed = Fields /\ Confirmed.rewind = None
  BY <1>1 DEF Confirmed, Fields
<1>3. CASE TriggersNotSent \/ BatchReverted
  BY <1>1, <1>3, ReDerives, FlushReturnsIInv DEF TriggersNotSent, BatchReverted
<1>4. CASE BatchConfirmed
  <2> DEFINE s == [Confirmed EXCEPT !.hold = Clear]
  <2>1. DOMAIN s = Fields /\ s.rewind = None
    BY <1>2 DEF Fields
  <2>2. FlushReturns(Confirmed) \/ FlushReturns(s)
    BY <1>4 DEF BatchConfirmed
  <2> QED
    BY <1>2, <2>1, <2>2, FlushReturnsIInv
<1>5. CASE BatchPartlyConsumed
  BY <1>2, <1>5, ReDerives, FlushReturnsIInv DEF BatchPartlyConsumed
<1>6. CASE BatchNotConsumed
  <2> DEFINE s == NothingConsumed(Confirmed)
  <2>1. DOMAIN s = Fields /\ s.rewind = None
    BY <1>2 DEF NothingConsumed, Fields
  <2>2. FlushReturns(Confirmed) \/ FlushReturns(s)
    BY <1>6 DEF BatchNotConsumed
  <2> QED
    BY <1>2, <2>1, <2>2, FlushReturnsIInv
<1>7. CASE BatchUnknown
  <2>1. DOMAIN Requeued(d) = Fields /\ Requeued(d).rewind = None
    BY <1>1 DEF Requeued, Fields
  <2> QED
    BY <1>7, <2>1, FlushReturnsIInv DEF BatchUnknown
<1> QED
  BY <1>3, <1>4, <1>5, <1>6, <1>7

\* A restarted driver satisfies the invariant.
LEMMA RestartIInv ==
  ASSUME NEW lost, Restart(lost)
  PROVE  IInv'
<1>1. DOMAIN d' = Fields /\ d'.rewind = None /\ DOMAIN work' = Locals
      /\ pc' = "idle"
  BY DEF Restart, FreshDriver, NoWork, Fields, Locals
<1> QED
  BY <1>1, QuietStep DEF Shape

\* Every step keeps the invariant.
LEMMA NextIInv == IInv /\ [Next]_vars => IInv'
<1> SUFFICES ASSUME IInv, [Next]_vars
             PROVE  IInv'
  OBVIOUS
<1>1. CASE L1Next
  BY <1>1, L1IInv, L1Leaves
<1>2. CASE StepNext
  BY <1>2, RewindIInv, RefreshIInv, ReorgIInv, DeriveIInv, SyncIInv, VerifyIInv,
     TickIInv, BuildIInv DEF StepNext
<1>3. CASE FlushNext
  BY <1>3, PrecheckIInv, MismatchIInv, SubmitIInv, OutcomeIInv DEF FlushNext
<1>4. CASE RestartNext
  BY <1>4, RestartIInv DEF RestartNext, Crash, Shutdown
<1>5. CASE UNCHANGED vars
  BY <1>5, L1IInv DEF vars
<1> QED
  BY <1>1, <1>2, <1>3, <1>4, <1>5 DEF Next

-----------------------------------------------------------------------------
(* The theorems *)

\* IInv holds in every reachable state.
THEOREM InductiveInvariant == Spec => []IInv
<1> QED
  BY InitIInv, NextIInv, PTL DEF Spec

\* flush_to_l1, hold.rs and step_builder's gates: while a batch with entries
\* is in flight the hold is armed for its last block, and no block is built
\* under an armed hold, whatever fails, restarts or is reorganised.
THEOREM HoldIsKept == Spec => []HoldDiscipline
<1>1. IInv => HoldDiscipline
  BY DEF IInv
<1> QED
  BY <1>1, InductiveInvariant, PTL

\* rewind.rs and verify.rs: every path that schedules a rewind has put the
\* driver into sync mode and emptied its queues, and nothing refills them
\* before step() runs the rewind.
THEOREM RewindsAreClean == Spec => []RewindIsClean
<1>1. IInv => RewindIsClean
  BY DEF IInv
<1> QED
  BY <1>1, InductiveInvariant, PTL

-----------------------------------------------------------------------------
(* The types of the driver's data *)

Chains == L1Chains(MaxL1, MaxReorgs, MaxEntries)
Blocks == Roots(MaxL1, MaxReorgs, MaxEntries)
BuiltBlocks == Blocks \ {<<>>}
DerivedAbove == {b \in DerivedBlocks(MaxL1, MaxReorgs, MaxEntries) : b.n >= 1}
CappedPipelines ==
  {p \in Pipelines(MaxL1, MaxReorgs) : Len(p.cursor) <= 2 * REORG_CHECK_DEPTH}

Modes == {"sync", "builder", "fullnode"}
Flags == BOOLEAN
Queues == {p \in Seq(BuiltBlocks) : Len(p) <= MAX_PENDING_SUBMISSIONS}
Entries == Seq(L2Number)
Holds == [state : {"clear", "armed"}, block : L2Number,
          deferrals : 0 .. MAX_ENTRY_VERIFY_DEFERRALS - 1]
Anchors == [l2 : L2Number, l1 : L1Number]
Targets == {None} \cup L2Number
Requests == [target : L2Number, root : Blocks]
MismatchCounts == 0 .. MAX_FLUSH_MISMATCHES
CycleCounts == 0 .. REORG_SAFETY_THRESHOLD
Drivers ==
  [mode : Modes, pending : Queues, entries : Entries, hold : Holds,
   anchor : Anchors, rewind : Targets, sibling : Requests, refresh : L2Number,
   ceiling : L2Number, mismatches : MismatchCounts, cycles : CycleCounts,
   seen : L1Number, cool : Flags, dv : CappedPipelines]

Txs == {tx \in [root : Blocks, first : L2Number, ents : Entries,
                target : 0 .. MaxL1 + 1, sent : Nat] :
          tx.first # 0 => tx.root # <<>>}
Contexts == Infos(MaxL1, MaxReorgs)
Ticks == [goal : L2Number, info : Contexts, k : 0 .. MaxEntries,
          base : Nat, pushed : Nat, inner : Flags]
SeenChains == {c \in Chains : \A i \in 1 .. Len(c) : Consecutive(c[i].batch)}
Works ==
  [todo : Seq(DerivedAbove), empty : Flags, next : CappedPipelines, tick : Ticks,
   root : Blocks, blocks : Seq(BuiltBlocks), sent : Txs, logs : SeenChains]
Points == {"idle", "refresh", "latest", "logs", "blocks", "sync", "verify", "tick",
           "build", "flush", "check", "wait"}
Spent == [faults : Nat, reorgs : 0 .. MaxReorgs, crashes : Nat]

L1Typed ==
  /\ l1 \in Chains /\ \A i \in 1 .. Len(l1) : Consecutive(l1[i].batch)
  /\ mempool \in SUBSET Txs

\* The logs a derivation has read are those of the L1 blocks it saw.
LogsRead == pc = "blocks" => Len(work.logs) = d.seen

\* The data the driver keeps, and the bounds it keeps them in.
Types ==
  /\ L1Typed
  /\ chain \in Blocks /\ checkpoint \in L1Number
  /\ d \in Drivers /\ d.seen <= Len(l1)
  /\ pc \in Points /\ work \in Works /\ used \in Spent
  /\ pc = "refresh" => d.refresh # 0
  /\ pc = "build" => Len(chain) < work.tick.goal
  /\ pc = "wait" => Len(work.blocks) + Len(d.pending) <= MAX_PENDING_SUBMISSIONS
  /\ LogsRead

\* The bounds as the proofs use them.
LEMMA Bounds ==
  /\ MaxL1 \in Nat /\ MaxReorgs \in Nat /\ MaxEntries \in Nat
  /\ MAX_PENDING_SUBMISSIONS \in Nat /\ MAX_PENDING_SUBMISSIONS >= 1
  /\ MAX_BATCH_SIZE \in Nat /\ MAX_BATCH_SIZE >= 1
  /\ REORG_CHECK_DEPTH \in Nat /\ REORG_CHECK_DEPTH >= 1
  /\ REORG_SAFETY_THRESHOLD \in Nat /\ REORG_SAFETY_THRESHOLD >= 1
  /\ MAX_ENTRY_VERIFY_DEFERRALS \in Nat /\ MAX_ENTRY_VERIFY_DEFERRALS >= 1
  /\ BUNDLE_PATH_PENDING_CAP \in Nat
<1>1. MaxL1 \in Nat /\ MaxReorgs \in Nat /\ MaxEntries \in Nat /\ BUNDLE_PATH_PENDING_CAP \in Nat
  BY DriverAssumption
<1>2. MAX_PENDING_SUBMISSIONS \in Nat /\ MAX_PENDING_SUBMISSIONS >= 1
  BY DriverAssumption
<1>3. MAX_BATCH_SIZE \in Nat /\ MAX_BATCH_SIZE >= 1
  BY DriverAssumption
<1> QED
  BY <1>1, <1>2, <1>3, PipelineAssumption, ThresholdAssumption, DeferralsAssumption

\* The initial values of the records are typed.
LEMMA InitialValues ==
  /\ <<>> \in Queues /\ <<>> \in Entries /\ <<>> \in Blocks /\ <<>> \in Seq(BuiltBlocks)
  /\ Clear \in Holds /\ NoAnchor \in Anchors /\ NoRequest \in Requests
  /\ NewPipeline \in CappedPipelines /\ NoTx \in Txs /\ NoTick \in Ticks
  /\ <<>> \in SeenChains
  /\ FreshDriver \in Drivers /\ NoWork \in Works /\ 0 \in L1Number /\ 0 \in L2Number
  /\ NoBatch \in Batches(MaxL1, MaxReorgs, MaxEntries)
<1>1. 0 \in L1Number /\ 0 \in L2Number /\ 0 \in 0 .. MaxReorgs /\ 0 \in 0 .. MaxEntries
      /\ 0 \in 0 .. MaxL1 /\ 0 \in 0 .. MaxL1 + 1 /\ 0 \in Nat
  BY Bounds DEF L1Number, L2Number
<1>2. <<>> \in Queues /\ <<>> \in Entries /\ <<>> \in Blocks /\ <<>> \in Seq(BuiltBlocks)
      /\ <<>> \in Seq(DerivedAbove) /\ <<>> \in Seq(Metas(MaxL1, MaxReorgs))
      /\ <<>> \in Seq(BatchBlocks(MaxL1, MaxEntries)) /\ <<>> \in Roots(MaxL1, MaxReorgs, MaxEntries)
  BY Bounds DEF Queues, Entries, Blocks, Roots
<1>3. Clear \in Holds
  BY <1>1, Bounds DEF Clear, Holds
<1>4. NoAnchor \in Anchors /\ NoRequest \in Requests
  BY <1>1, <1>2 DEF NoAnchor, NoRequest, Anchors, Requests
<1>5. DeploymentInfo \in Contexts
  BY <1>1 DEF DeploymentInfo, Contexts, Infos
<1>6. NewPipeline \in CappedPipelines
  <2>1. NewPipeline \in Pipelines(MaxL1, MaxReorgs)
    BY <1>1, <1>2, <1>5 DEF NewPipeline, Pipelines, Contexts
  <2>2. NewPipeline.cursor = <<>> /\ Len(<<>>) <= 2 * REORG_CHECK_DEPTH
    BY Bounds DEF NewPipeline
  <2> QED
    BY <2>1, <2>2 DEF CappedPipelines
<1>7. NoTx \in Txs
  BY <1>1, <1>2 DEF NoTx, Txs
<1>8. NoTick \in Ticks
  BY <1>1, <1>5 DEF NoTick, Ticks, Flags
<1>9. None \in Targets /\ "sync" \in Modes /\ FALSE \in Flags /\ TRUE \in Flags
      /\ 0 \in MismatchCounts /\ 0 \in CycleCounts
  BY Bounds DEF Targets, Modes, Flags, MismatchCounts, CycleCounts, MAX_FLUSH_MISMATCHES
<1>10. FreshDriver \in Drivers
  BY <1>1, <1>2, <1>3, <1>4, <1>6, <1>9 DEF FreshDriver, Drivers
<1>13. <<>> \in SeenChains
  <2> DEFINE none == <<>>
  <2>1. none \in Chains /\ Len(none) = 0
    BY Bounds DEF Chains, L1Chains
  <2> HIDE DEF none
  <2>2. none \in SeenChains
    BY <2>1 DEF SeenChains
  <2> QED
    BY <2>2 DEF none
<1>11. NoWork \in Works
  BY <1>2, <1>6, <1>7, <1>8, <1>9, <1>13 DEF NoWork, Works
<1>12. NoBatch \in Batches(MaxL1, MaxReorgs, MaxEntries)
  BY <1>1, <1>2 DEF NoBatch, Batches
<1> QED
  BY <1>1, <1>2, <1>3, <1>4, <1>6, <1>7, <1>8, <1>10, <1>11, <1>12, <1>13

\* The fields of a typed record.
LEMMA DriverFields ==
  ASSUME NEW s \in Drivers
  PROVE  /\ s.mode \in Modes /\ s.pending \in Queues /\ s.entries \in Entries
         /\ s.hold \in Holds /\ s.anchor \in Anchors /\ s.rewind \in Targets
         /\ s.sibling \in Requests /\ s.refresh \in L2Number /\ s.ceiling \in L2Number
         /\ s.mismatches \in MismatchCounts /\ s.cycles \in CycleCounts
         /\ s.seen \in L1Number /\ s.dv \in CappedPipelines
  BY DEF Drivers

\* A built block has a number and an L1 context.
LEMMA BlockFacts ==
  ASSUME NEW r \in Blocks
  PROVE  /\ Len(r) \in L2Number /\ Len(r) \in Nat /\ NumberOf(r) \in L2Number
         /\ \A x \in 1 .. Len(r) : r[x] \in L2Blocks(MaxL1, MaxReorgs, MaxEntries)
         /\ r # <<>> => /\ Len(r) \in 1 .. Len(r) /\ ContextOf(r) \in L1Number
                        /\ r[Len(r)].k \in 0 .. MaxEntries
         /\ \A n \in Int : n <= Len(r) => SubSeq(r, 1, n) \in Blocks
<1> DEFINE E == L2Blocks(MaxL1, MaxReorgs, MaxEntries)
<1>1. r \in Seq(E) /\ Len(r) <= MaxL1 /\ Len(r) \in Nat
  BY DEF Blocks, Roots
<1>2. \A x \in 1 .. Len(r) : r[x] \in E
  BY <1>1
<1>3. r # <<>> => Len(r) \in 1 .. Len(r)
  BY <1>1
<1>4. r # <<>> => ContextOf(r) \in L1Number /\ r[Len(r)].k \in 0 .. MaxEntries
  BY <1>2, <1>3 DEF ContextOf, L2Blocks, L1Number
<1> HIDE DEF E
<1>5. ASSUME NEW n \in Int, n <= Len(r) PROVE SubSeq(r, 1, n) \in Blocks
  <2>1. CASE n >= 1
    <3>1. SubSeq(r, 1, n) \in Seq(E) /\ Len(SubSeq(r, 1, n)) = n
      BY <1>1, <1>5, <2>1
    <3> QED
      BY <1>1, <1>5, <3>1, Bounds DEF Blocks, Roots, E
  <2>2. CASE n < 1
    <3>1. SubSeq(r, 1, n) = <<>>
      BY <1>1, <1>5, <2>2
    <3> QED
      BY <3>1, InitialValues
  <2> QED
    BY <2>1, <2>2
<1> QED
  BY <1>1, <1>2, <1>3, <1>4, <1>5, Bounds DEF L2Number, NumberOf, E

\* Another block on top of n blocks of a chain.
LEMMA Appended ==
  ASSUME NEW r \in Blocks, NEW n \in Int, n <= Len(r), n < MaxL1,
         NEW b \in L2Blocks(MaxL1, MaxReorgs, MaxEntries), MaxL1 >= 1
  PROVE  /\ Append(SubSeq(r, 1, n), b) \in BuiltBlocks
         /\ n >= 0 => Len(Append(SubSeq(r, 1, n), b)) = n + 1
<1> DEFINE E == L2Blocks(MaxL1, MaxReorgs, MaxEntries)
           s == SubSeq(r, 1, n)
<1>1. s \in Blocks /\ s \in Seq(E)
  BY BlockFacts DEF Blocks, Roots
<1>2. Len(s) <= MaxL1 - 1 /\ (n >= 0 => Len(s) = n) /\ Len(s) \in Nat
  <2>1. r \in Seq(E) /\ Len(r) \in Nat
    BY DEF Blocks, Roots
  <2> HIDE DEF E
  <2>2. CASE n >= 0
    <3>1. Len(s) = n
      BY <2>1, <2>2
    <3> QED
      BY <2>2, <3>1, Bounds
  <2>3. CASE n < 0
    <3>1. s = <<>>
      BY <2>1, <2>3
    <3> QED
      BY <2>3, <3>1, Bounds
  <2> QED
    BY <2>2, <2>3
<1> HIDE DEF E, s
<1>3. Append(s, b) \in Seq(E) /\ Len(Append(s, b)) = Len(s) + 1
  BY <1>1 DEF E
<1>4. Append(s, b) # <<>> /\ Len(Append(s, b)) <= MaxL1
  BY <1>2, <1>3, Bounds
<1> QED
  BY <1>2, <1>3, <1>4 DEF BuiltBlocks, Blocks, Roots, E, s

\* The contract's state root is a root.
LEMMA ContractRootType ==
  ASSUME NEW c \in Chains
  PROVE  ContractRoot(c) \in Blocks
<1> DEFINE posts == {i \in 1 .. Len(c) : c[i].batch.blocks # <<>>}
<1>1. /\ Len(c) \in Nat
      /\ \A i \in 1 .. Len(c) : c[i].batch \in Batches(MaxL1, MaxReorgs, MaxEntries)
  <2>1. c \in L1Chains(MaxL1, MaxReorgs, MaxEntries)
    BY DEF Chains
  <2>2. Len(c) \in 0 .. MaxL1
    BY <2>1, Bounds, L1Facts
  <2>3. \A i \in 1 .. Len(c) : c[i].batch \in Batches(MaxL1, MaxReorgs, MaxEntries)
    BY <2>1, Bounds, L1Facts
  <2> QED
    BY <2>2, <2>3, Bounds
<1>2. \A i \in 1 .. Len(c) : c[i].batch.root \in Blocks
  BY <1>1, Bounds, BatchFacts DEF Blocks
<1>3. posts # {} => LastOf(posts) \in 1 .. Len(c)
  <2>1. posts \in SUBSET (0 .. Len(c)) /\ posts \in SUBSET (1 .. Len(c))
    BY <1>1
  <2> HIDE DEF posts
  <2> QED
    BY <1>1, <2>1, LastOfFacts
<1> QED
  BY <1>2, <1>3, InitialValues DEF ContractRoot

\* The root the contract holds now.
LEMMA OnChainRootType ==
  ASSUME L1Typed
  PROVE  OnChainRoot \in Blocks
  BY ContractRootType DEF L1Typed, OnChainRoot

\* The decision rules return numbers of blocks.
LEMMA RuleTypes ==
  /\ \A n \in L2Number : SaturatingPred(n) \in L2Number
  /\ \A a \in Anchors : RollbackL1(a) \in L1Number /\ a.l2 \in L2Number /\ a.l1 \in L1Number
  /\ \A a \in Anchors, n \in L2Number :
       VerifyPlanTarget(a, n) \in L2Number /\ FlushPlanTarget(a, n) \in L2Number
  /\ \A x, y \in L2Number : Larger(x, y) \in L2Number /\ Smaller(x, y) \in L2Number
  /\ \A t \in Targets, n \in L2Number : LowerTarget(t, n) \in L2Number
  /\ \A x \in Nat, y \in Nat : Smaller(x, y) \in 0 .. x /\ Smaller(x, y) \in 0 .. y
<1>1. \A n \in L2Number : SaturatingPred(n) \in L2Number
  BY Bounds DEF L2Number, SaturatingPred
<1>2. \A x, y \in L2Number : Larger(x, y) \in L2Number /\ Smaller(x, y) \in L2Number
  BY Bounds DEF L2Number, Larger, Smaller
<1>3. \A a \in Anchors : a.l2 \in L2Number /\ a.l1 \in L1Number
  BY DEF Anchors
<1>4. \A a \in Anchors : RollbackL1(a) \in L1Number
  BY <1>3, Bounds DEF L1Number, RollbackL1, SaturatingPred, DeploymentL1
<1>5. 0 \in L2Number
  BY Bounds DEF L2Number
<1>6. \A a \in Anchors, n \in L2Number :
        VerifyPlanTarget(a, n) \in L2Number /\ FlushPlanTarget(a, n) \in L2Number
  BY <1>1, <1>2, <1>3, <1>5 DEF VerifyPlanTarget, FlushPlanTarget
<1>7. \A t \in Targets, n \in L2Number : LowerTarget(t, n) \in L2Number
  BY <1>2 DEF LowerTarget, Targets
<1>8. \A x \in Nat, y \in Nat : Smaller(x, y) \in 0 .. x /\ Smaller(x, y) \in 0 .. y
  BY DEF Smaller
<1> QED
  BY <1>1, <1>2, <1>3, <1>4, <1>6, <1>7, <1>8

\* A pipeline that is rolled back, or told another last block.
LEMMA PipelineTypes ==
  ASSUME NEW p \in CappedPipelines
  PROVE  /\ p.cursor \in Seq(Metas(MaxL1, MaxReorgs)) /\ Len(p.cursor) \in Nat
         /\ p.processed \in L1Number /\ p.derived \in L2Number
         /\ \A n \in L2Number : [p EXCEPT !.derived = n] \in CappedPipelines
         /\ \A b \in L1Number : RollbackTo(p, b) \in CappedPipelines
         /\ \A f : PruneFinalized(p, f) \in CappedPipelines
         /\ \A x : ForkPoint(p, x) \in L1Number
<1> DEFINE M == Metas(MaxL1, MaxReorgs)
           P == Pipelines(MaxL1, MaxReorgs)
<1>1. p \in P /\ Len(p.cursor) <= 2 * REORG_CHECK_DEPTH
  BY DEF CappedPipelines
<1>2. p.cursor \in Seq(M) /\ Len(p.cursor) \in Nat /\ p.processed \in L1Number /\ p.derived \in L2Number
  BY <1>1 DEF Pipelines, L1Number, L2Number
<1>3. ASSUME NEW n \in L2Number PROVE [p EXCEPT !.derived = n] \in CappedPipelines
  <2>1. [p EXCEPT !.derived = n] \in P /\ [p EXCEPT !.derived = n].cursor = p.cursor
    BY <1>1 DEF Pipelines, L2Number
  <2> QED
    BY <1>1, <2>1 DEF CappedPipelines
<1>4. ASSUME NEW b \in L1Number PROVE RollbackTo(p, b) \in CappedPipelines
  <2>1. /\ RollbackTo(p, b) \in P /\ Len(RollbackTo(p, b).cursor) <= Len(p.cursor)
    BY <1>2, Bounds, RollbackType DEF L1Number
  <2>2. Len(RollbackTo(p, b).cursor) \in Nat
    <3>1. RollbackTo(p, b).cursor \in Seq(M)
      BY <2>1 DEF Pipelines
    <3> QED
      BY <3>1
  <2> QED
    BY <1>1, <1>2, <2>1, <2>2, Bounds DEF CappedPipelines
<1>5. ASSUME NEW f PROVE PruneFinalized(p, f) \in CappedPipelines
  <2>1. /\ PruneFinalized(p, f) \in P /\ Len(PruneFinalized(p, f).cursor) <= Len(p.cursor)
    BY <1>1, Bounds, PruneType
  <2>2. Len(PruneFinalized(p, f).cursor) \in Nat
    <3>1. PruneFinalized(p, f).cursor \in Seq(M)
      BY <2>1 DEF Pipelines
    <3> QED
      BY <3>1
  <2> QED
    BY <1>1, <1>2, <2>1, <2>2, Bounds DEF CappedPipelines
<1>6. \A x : ForkPoint(p, x) \in L1Number
  BY <1>2, Bounds, ForkPointType DEF L1Number
<1> QED
  BY <1>2, <1>3, <1>4, <1>5, <1>6

\* L1 as the driver reads it.
LEMMA ChainReads ==
  ASSUME NEW c \in Chains
  PROVE  /\ Len(c) \in L1Number /\ Len(c) \in Nat
         /\ \A i \in 0 .. Len(c) : HashAt(c, i) \in 0 .. MaxReorgs /\ InfoAt(c, i) \in Contexts
<1>1. c \in L1Chains(MaxL1, MaxReorgs, MaxEntries)
  BY DEF Chains
<1>2. Len(c) \in 0 .. MaxL1
  BY <1>1, Bounds, L1Facts
<1>3. \A i \in 0 .. Len(c) : HashAt(c, i) \in 0 .. MaxReorgs /\ InfoAt(c, i) \in Contexts
  BY <1>1, Bounds, L1Facts DEF Contexts
<1> QED
  BY <1>2, <1>3, Bounds DEF L1Number

\* What the driver reads of L1 as it is now: its length, hashes and contexts.
LEMMA L1Reads ==
  ASSUME L1Typed
  PROVE  /\ Len(l1) \in L1Number /\ Len(l1) \in Nat
         /\ \A i \in 0 .. Len(l1) : HashAt(l1, i) \in 0 .. MaxReorgs /\ InfoAt(l1, i) \in Contexts
  BY ChainReads DEF L1Typed

-----------------------------------------------------------------------------
(* The recovery operators keep the types *)

\* clear_internal_state
LEMMA ClearType ==
  ASSUME NEW s \in Drivers
  PROVE  /\ ClearInternalState(s) \in Drivers /\ ClearInternalState(s).seen = s.seen
         /\ ClearInternalState(s).dv = s.dv /\ ClearInternalState(s).anchor = s.anchor
         /\ ClearInternalState(s).refresh = s.refresh
  BY InitialValues DEF ClearInternalState, Drivers

\* set_rewind_target and the cycle counter
LEMMA CountType ==
  ASSUME NEW s \in Drivers
  PROVE  /\ CountCycle(s) \in Drivers /\ CountCycle(s).seen = s.seen /\ CountCycle(s).dv = s.dv
         /\ \A n \in L2Number : SetRewindTarget(s, n) \in Drivers /\ SetRewindTarget(s, n).seen = s.seen
<1>1. s.cycles \in CycleCounts /\ s.rewind \in Targets
  BY DriverFields
<1>2. Smaller(s.cycles + 1, REORG_SAFETY_THRESHOLD) \in CycleCounts
  BY <1>1, Bounds DEF CycleCounts, Smaller
<1>3. \A n \in L2Number : LowerTarget(s.rewind, n) \in Targets
  BY <1>1, RuleTypes DEF Targets
<1>4. /\ CountCycle(s) \in Drivers /\ CountCycle(s).seen = s.seen /\ CountCycle(s).dv = s.dv
  BY <1>2 DEF CountCycle, Drivers
<1>5. ASSUME NEW n \in L2Number
      PROVE  SetRewindTarget(s, n) \in Drivers /\ SetRewindTarget(s, n).seen = s.seen
  BY <1>3 DEF SetRewindTarget, Drivers
<1> QED
  BY <1>4, <1>5

\* rewind_to_re_derive
LEMMA ReDeriveType ==
  ASSUME NEW s \in Drivers, NEW target \in L2Number, NEW rollback \in L1Number
  PROVE  /\ RewindToReDerive(s, target, rollback) \in Drivers
         /\ RewindToReDerive(s, target, rollback).seen = s.seen
<1> DEFINE c == ClearInternalState(s)
           p == [RollbackTo(c.dv, rollback) EXCEPT !.derived = target]
           rolled == [c EXCEPT !.dv = p, !.mode = "sync"]
<1>1. c \in Drivers /\ c.seen = s.seen
  BY ClearType
<1>2. p \in CappedPipelines
  <2>1. c.dv \in CappedPipelines
    BY <1>1, DriverFields
  <2>2. RollbackTo(c.dv, rollback) \in CappedPipelines
    BY <2>1, PipelineTypes
  <2> QED
    BY <2>2, PipelineTypes
<1>3. RewindToReDerive(s, target, rollback) = SetRewindTarget(CountCycle(rolled), target)
  BY DEF RewindToReDerive
<1> HIDE DEF c, p
<1>4. rolled \in Drivers /\ rolled.seen = s.seen
  BY <1>1, <1>2 DEF Drivers, Modes
<1> HIDE DEF rolled
<1>5. CountCycle(rolled) \in Drivers /\ CountCycle(rolled).seen = s.seen
  BY <1>4, CountType
<1>6. /\ SetRewindTarget(CountCycle(rolled), target) \in Drivers
      /\ SetRewindTarget(CountCycle(rolled), target).seen = s.seen
  BY <1>5, CountType
<1> QED
  BY <1>3, <1>6

\* apply_sibling_reorg_plan
LEMMA PlanType ==
  ASSUME NEW s \in Drivers, NEW n \in L2Number, NEW root \in Blocks
  PROVE  /\ ApplySiblingReorgPlan(s, n, root) \in Drivers
         /\ ApplySiblingReorgPlan(s, n, root).seen = s.seen
<1> DEFINE c == ClearInternalState(s)
           target == VerifyPlanTarget(s.anchor, n)
           p == RollbackTo([c.dv EXCEPT !.derived = target], RollbackL1(s.anchor))
           request == Request(n, root)
           planned == [c EXCEPT !.sibling = request, !.dv = p, !.mode = "sync"]
<1>1. c \in Drivers /\ c.seen = s.seen
  BY ClearType
<1>2. s.anchor \in Anchors /\ target \in L2Number /\ RollbackL1(s.anchor) \in L1Number
  BY DriverFields, RuleTypes
<1>3. p \in CappedPipelines
  <2>1. c.dv \in CappedPipelines
    BY <1>1, DriverFields
  <2>2. [c.dv EXCEPT !.derived = target] \in CappedPipelines
    BY <1>2, <2>1, PipelineTypes
  <2> QED
    BY <1>2, <2>2, PipelineTypes
<1>4. request \in Requests
  BY DEF Request, Requests
<1>5. ApplySiblingReorgPlan(s, n, root) = SetRewindTarget(planned, target)
  BY DEF ApplySiblingReorgPlan
<1> HIDE DEF c, p, request
<1>6. planned \in Drivers /\ planned.seen = s.seen
  BY <1>1, <1>3, <1>4 DEF Drivers, Modes
<1> HIDE DEF planned
<1>7. SetRewindTarget(planned, target) \in Drivers /\ SetRewindTarget(planned, target).seen = s.seen
  BY <1>2, <1>6, CountType
<1> QED
  BY <1>5, <1>7

\* The generic mismatch
LEMMA GenericType ==
  ASSUME NEW s \in Drivers, NEW b \in DerivedAbove
  PROVE  /\ GenericMismatchRewind(s, b) \in Drivers
         /\ GenericMismatchRewind(s, b).seen = s.seen
<1> DEFINE c == CountCycle(ClearInternalState(s))
           p == RollbackTo(c.dv, b.info.l1)
           r == [c EXCEPT !.mode = "sync", !.dv = p]
<1>1. b.n \in L2Number /\ b.info.l1 \in L1Number
  BY DEF DerivedAbove, DerivedBlocks, Infos, L1Number, L2Number
<1>2. c \in Drivers /\ c.seen = s.seen
  BY ClearType, CountType
<1>3. p \in CappedPipelines
  BY <1>1, <1>2, DriverFields, PipelineTypes
<1>4. SaturatingPred(b.n) \in L2Number
  BY <1>1, RuleTypes
<1>5. GenericMismatchRewind(s, b) = SetRewindTarget(r, SaturatingPred(b.n))
  BY DEF GenericMismatchRewind
<1> HIDE DEF c, p
<1>6. r \in Drivers /\ r.seen = s.seen
  BY <1>2, <1>3 DEF Drivers, Modes
<1> HIDE DEF r
<1>7. /\ SetRewindTarget(r, SaturatingPred(b.n)) \in Drivers
      /\ SetRewindTarget(r, SaturatingPred(b.n)).seen = s.seen
  BY <1>4, <1>6, CountType
<1> QED
  BY <1>5, <1>7

\* classify_and_apply_verification
LEMMA VerificationType ==
  ASSUME NEW s \in Drivers, NEW b \in DerivedAbove
  PROVE  Verification(s, b).d \in Drivers /\ Verification(s, b).d.seen = s.seen
<1> DEFINE held == IsArmedFor(s.hold, b.n)
           action == ClassifyVerifyMismatch(b.filt, s.sibling # NoRequest, held, s.hold.deferrals)
           released == [s EXCEPT !.hold = Clear]
           deferred == [s EXCEPT !.hold = Deferred(@)]
           v == Verification(s, b)
<1>1. released \in Drivers /\ released.seen = s.seen
  BY InitialValues DEF Drivers
<1>2. s.hold \in Holds
  BY DriverFields
<1>3. action = "defer" => s.hold.deferrals + 1 < MAX_ENTRY_VERIFY_DEFERRALS
  BY DEF ClassifyVerifyMismatch
<1>4. action = "defer" => Deferred(s.hold) \in Holds
  BY <1>2, <1>3, Bounds DEF Deferred, Holds
<1>5. action = "defer" => deferred \in Drivers /\ deferred.seen = s.seen
  <2> DEFINE hold == Deferred(s.hold)
  <2> HIDE DEF hold
  <2>1. hold \in Holds => [s EXCEPT !.hold = hold] \in Drivers /\ [s EXCEPT !.hold = hold].seen = s.seen
    BY DEF Drivers
  <2> QED
    BY <1>4, <2>1 DEF hold
<1>6. b.n \in L2Number /\ b.root \in Blocks
  BY DEF DerivedAbove, DerivedBlocks, Blocks, L2Number
<1>7. SaturatingPred(b.n) \in L2Number /\ RollbackL1(s.anchor) \in L1Number
  BY <1>6, DriverFields, RuleTypes
<1>8. \/ v.d = s \/ v.d = released
      \/ action = "defer" /\ v.d = deferred
      \/ v.d = ApplySiblingReorgPlan(s, b.n, b.root)
      \/ v.d = RewindToReDerive(s, SaturatingPred(b.n), RollbackL1(s.anchor))
      \/ v.d = GenericMismatchRewind(s, b)
  BY VerificationOutcomes
<1> HIDE DEF v, released, deferred, action
<1>9. v.d \in Drivers /\ v.d.seen = s.seen
  <2>1. CASE v.d = s \/ v.d = released \/ (action = "defer" /\ v.d = deferred)
    BY <1>1, <1>5, <2>1
  <2>2. CASE v.d = ApplySiblingReorgPlan(s, b.n, b.root)
    BY <1>6, <2>2, PlanType
  <2>3. CASE v.d = RewindToReDerive(s, SaturatingPred(b.n), RollbackL1(s.anchor))
    BY <1>7, <2>3, ReDeriveType
  <2>4. CASE v.d = GenericMismatchRewind(s, b)
    BY <2>4, GenericType
  <2> QED
    BY <1>8, <2>1, <2>2, <2>3, <2>4
<1> QED
  BY <1>9 DEF v

-----------------------------------------------------------------------------
(* The actions keep the types *)

\* What a step of the driver has to show.
LEMMA Assembled ==
  ASSUME Types, UNCHANGED l1, mempool' \in SUBSET Txs, chain' \in Blocks,
         checkpoint' \in L1Number, d' \in Drivers, d'.seen <= Len(l1),
         pc' \in Points, work' \in Works, used' \in Spent,
         pc' = "refresh" => d'.refresh # 0,
         pc' = "build" => Len(chain') < work'.tick.goal,
         pc' = "wait" => Len(work'.blocks) + Len(d'.pending) <= MAX_PENDING_SUBMISSIONS,
         pc' = "blocks" => Len(work'.logs) = d'.seen
  PROVE  Types'
  BY DEF Types, L1Typed, LogsRead

\* A call that may fail spends at most one fault.
LEMMA SpentType ==
  ASSUME Types, Fault \/ NoFault
  PROVE  used' \in Spent
  BY DEF Types, Fault, NoFault, Spent

\* The parts of the invariant a step of the driver starts from.
LEMMA TypeFacts ==
  ASSUME Types
  PROVE  /\ L1Typed /\ mempool \in SUBSET Txs /\ chain \in Blocks /\ checkpoint \in L1Number
         /\ d \in Drivers /\ d.seen <= Len(l1) /\ pc \in Points /\ work \in Works /\ used \in Spent
         /\ Len(l1) \in L1Number /\ Len(chain) \in L2Number /\ Len(chain) \in Nat /\ Len(l1) \in Nat
         /\ l2_head_number \in L2Number
<1>1. L1Typed /\ chain \in Blocks
  BY DEF Types
<1>2. Len(l1) \in L1Number /\ Len(l1) \in Nat /\ Len(chain) \in L2Number /\ Len(chain) \in Nat
  BY <1>1, L1Reads, BlockFacts
<1> QED
  BY <1>1, <1>2 DEF Types, L1Typed, l2_head_number

\* A step that leaves step() with fields s.
LEMMA ReturnTypes ==
  ASSUME Types, NEW s \in Drivers, Return(s), s.seen <= Len(l1), UNCHANGED <<l1, mempool>>,
         chain' \in Blocks, checkpoint' \in L1Number, used' \in Spent
  PROVE  Types'
<1>1. d' = s /\ pc' = "idle" /\ work' = NoWork
  BY DEF Return
<1>2. work' \in Works /\ pc' \in Points
  BY <1>1, InitialValues DEF Points
<1>3. mempool' \in SUBSET Txs
  BY TypeFacts
<1> QED
  BY <1>1, <1>2, <1>3, Assembled

\* The fields of the locals.
LEMMA WorkFields ==
  ASSUME NEW w \in Works
  PROVE  /\ w.todo \in Seq(DerivedAbove) /\ w.next \in CappedPipelines /\ w.tick \in Ticks
         /\ w.root \in Blocks /\ w.blocks \in Seq(BuiltBlocks) /\ w.sent \in Txs
         /\ w.logs \in SeenChains
         /\ w.tick.goal \in L2Number /\ w.tick.info \in Contexts /\ w.tick.k \in 0 .. MaxEntries
         /\ w.tick.base \in Nat /\ w.tick.pushed \in Nat
<1>1. w.tick \in Ticks
  BY DEF Works
<1>2. /\ w.tick.goal \in L2Number /\ w.tick.info \in Contexts /\ w.tick.k \in 0 .. MaxEntries
      /\ w.tick.base \in Nat /\ w.tick.pushed \in Nat
  BY <1>1 DEF Ticks
<1> QED
  BY <1>1, <1>2 DEF Works

\* A flush that returns with fields s.
LEMMA FlushReturnsTypes ==
  ASSUME Types, NEW s \in Drivers, FlushReturns(s), s.seen = d.seen,
         UNCHANGED <<l1, chain, checkpoint>>, mempool' \in SUBSET Txs, used' \in Spent
  PROVE  Types'
<1> DEFINE tick == [work.tick EXCEPT !.pushed = 0, !.inner = FALSE]
           again == [NoWork EXCEPT !.tick = tick]
<1>1. work \in Works /\ work.tick \in Ticks /\ d.seen <= Len(l1)
  BY TypeFacts, WorkFields
<1>2. tick \in Ticks /\ tick.goal = work.tick.goal
  BY <1>1 DEF Ticks, Flags
<1>3. again \in Works /\ again.tick = tick
  <2> HIDE DEF tick
  <2> QED
    BY <1>2, InitialValues DEF Works, NoWork
<1>4. d' = s /\ \/ /\ work' = again
                   /\ pc' = IF l2_head_number < work.tick.goal THEN "build" ELSE "flush"
                \/ work' = NoWork /\ pc' = "idle"
  BY DEF FlushReturns
<1> HIDE DEF again, tick
<1>5. work' \in Works /\ pc' \in {"build", "flush", "idle"}
  BY <1>3, <1>4, InitialValues
<1>6. pc' = "build" => Len(chain') < work'.tick.goal
  BY <1>2, <1>3, <1>4 DEF l2_head_number
<1>7. pc' \in Points /\ chain' \in Blocks /\ checkpoint' \in L1Number
  BY <1>5, TypeFacts DEF Points
<1>8. pc' # "refresh" /\ pc' # "wait"
  BY <1>5
<1> QED
  BY <1>1, <1>4, <1>5, <1>6, <1>7, <1>8, Assembled

\* Whatever follows a pending rewind.
LEMMA RewindTypes ==
  ASSUME Types, StepRewind \/ StepRewindFails \/ Step
  PROVE  Types'
<1>1. /\ mempool \in SUBSET Txs /\ chain \in Blocks /\ checkpoint \in L1Number /\ d \in Drivers
      /\ work \in Works /\ d.seen <= Len(l1) /\ l2_head_number \in L2Number /\ Len(chain) \in Nat
  BY TypeFacts
<1>2. used' \in Spent
  BY SpentType DEF StepRewind, StepRewindFails, Step
<1> DEFINE after == IF d.refresh # 0 THEN "refresh" ELSE "latest"
<1>3. CASE StepRewind
  <2> DEFINE taken == [d EXCEPT !.rewind = None, !.cool = FALSE]
             cleared == ClearInternalState(taken)
             raised == [cleared EXCEPT !.ceiling = l2_head_number]
  <2>1. taken \in Drivers /\ taken.seen = d.seen /\ taken.refresh = d.refresh
    BY <1>1 DEF Drivers, Targets, Flags
  <2>2. cleared \in Drivers /\ cleared.seen = d.seen /\ cleared.refresh = d.refresh
    <3> HIDE DEF taken
    <3> QED
      BY <2>1, ClearType
  <2>3. raised \in Drivers /\ raised.seen = d.seen /\ raised.refresh = d.refresh
    <3> HIDE DEF cleared
    <3> QED
      BY <1>1, <2>2 DEF Drivers
  <2>4. \/ d' = cleared /\ chain' = SubSeq(chain, 1, d.rewind) /\ d.rewind < l2_head_number
        \/ d' = raised /\ chain' = chain
        \/ d' = taken /\ chain' = chain
    BY <1>3 DEF StepRewind, RewindL2Chain
  <2>5. d.rewind \in Int
    BY <1>1, DriverFields, Bounds DEF Targets, None, L2Number
  <2>6. d.rewind < l2_head_number => SubSeq(chain, 1, d.rewind) \in Blocks
    BY <1>1, <2>5, BlockFacts DEF l2_head_number
  <2> HIDE DEF taken, cleared, raised
  <2>7. d' \in Drivers /\ d'.seen = d.seen /\ d'.refresh = d.refresh /\ chain' \in Blocks
    BY <1>1, <2>1, <2>2, <2>3, <2>4, <2>6
  <2>8. pc' = after /\ UNCHANGED <<l1, mempool, checkpoint, work>>
    BY <1>3 DEF StepRewind
  <2> QED
    BY <1>1, <1>2, <2>7, <2>8, Assembled DEF Points
<1>4. CASE StepRewindFails
  <2>1. ClearInternalState(d) \in Drivers /\ ClearInternalState(d).seen = d.seen
    BY <1>1, ClearType
  <2> QED
    BY <1>1, <1>2, <1>4, <2>1, ReturnTypes DEF StepRewindFails
<1>5. CASE Step
  <2>1. d' = [d EXCEPT !.cool = FALSE] /\ pc' = after
        /\ UNCHANGED <<l1, mempool, chain, checkpoint, work>>
    BY <1>5 DEF Step
  <2>2. d' \in Drivers /\ d'.seen = d.seen /\ d'.refresh = d.refresh
    BY <1>1, <2>1 DEF Drivers, Flags
  <2> QED
    BY <1>1, <1>2, <2>1, <2>2, Assembled DEF Points
<1> QED
  BY <1>3, <1>4, <1>5

\* rebuild_with_fresh_l1_context
LEMMA RefreshTypes ==
  ASSUME Types, StepRefresh \/ StepRefreshFails
  PROVE  Types'
<1>1. /\ mempool \in SUBSET Txs /\ chain \in Blocks /\ checkpoint \in L1Number /\ d \in Drivers
      /\ work \in Works /\ d.seen <= Len(l1) /\ Len(chain) \in Nat /\ Len(l1) \in L1Number
      /\ Len(l1) \in Nat
  BY TypeFacts
<1>2. CASE StepRefresh
  <2> DEFINE b == [ctx |-> Len(l1), hash |-> HashAt(l1, Len(l1)), k |-> 0]
             c == ClearInternalState(d)
             p == [c.dv EXCEPT !.derived = d.refresh]
             new == [c EXCEPT !.dv = p, !.pending = <<chain'>>, !.refresh = 0]
  <2>1. d.refresh \in L2Number /\ d.refresh # 0 /\ d.refresh <= Len(chain) + 1
    BY <1>1, <1>2, DriverFields DEF StepRefresh, Types, l2_head_number
  <2>2. b \in L2Blocks(MaxL1, MaxReorgs, MaxEntries)
    <3>1. Len(l1) \in 0 .. Len(l1)
      BY <1>1
    <3>2. HashAt(l1, Len(l1)) \in 0 .. MaxReorgs
      BY <3>1, TypeFacts, L1Reads
    <3> QED
      BY <1>1, <3>2, Bounds DEF L2Blocks, L1Number
  <2>3. chain' = Append(SubSeq(chain, 1, d.refresh - 1), b)
    BY <1>2 DEF StepRefresh
  <2>4. chain' \in BuiltBlocks
    <3>1. d.refresh - 1 \in Int /\ d.refresh - 1 <= Len(chain) /\ d.refresh - 1 < MaxL1 /\ MaxL1 >= 1
      BY <1>1, <2>1, Bounds DEF L2Number
    <3> QED
      BY <1>1, <2>2, <2>3, <3>1, Appended
  <2>5. c \in Drivers /\ c.seen = d.seen
    BY <1>1, ClearType
  <2>6. p \in CappedPipelines
    BY <2>1, <2>5, DriverFields, PipelineTypes
  <2>7. <<chain'>> \in Queues
    BY <2>4, Bounds DEF Queues
  <2>8. d' = new
    BY <1>2 DEF StepRefresh
  <2> HIDE DEF c, p
  <2>9. new \in Drivers /\ new.seen = d.seen
    BY <2>5, <2>6, <2>7, InitialValues DEF Drivers
  <2> HIDE DEF new
  <2>10. pc' = "latest" /\ UNCHANGED <<l1, mempool, checkpoint, work>>
    BY <1>2 DEF StepRefresh
  <2>11. used' \in Spent /\ chain' \in Blocks
    BY <1>2, <2>4, SpentType DEF StepRefresh, BuiltBlocks
  <2> QED
    BY <1>1, <2>8, <2>9, <2>10, <2>11, Assembled DEF Points
<1>3. CASE StepRefreshFails
  <2>1. pc' = "latest" /\ UNCHANGED <<l1, mempool, chain, checkpoint, d, work>>
    BY <1>3 DEF StepRefreshFails
  <2>2. used' \in Spent
    BY <1>3, SpentType DEF StepRefreshFails
  <2> QED
    BY <1>1, <2>1, <2>2, Assembled DEF Points
<1> QED
  BY <1>2, <1>3

\* rewind after a reorg of L1
LEMMA ReorgTypes ==
  ASSUME Types, StepReorg
  PROVE  Types'
<1>1. /\ mempool \in SUBSET Txs /\ chain \in Blocks /\ d \in Drivers
      /\ Len(chain) \in Nat /\ Len(l1) \in L1Number /\ l2_head_number \in L2Number
      /\ Len(l1) \in Nat
  BY TypeFacts
<1> DEFINE p == RollbackTo(d.dv, ForkPoint(d.dv, l1))
           c == ClearInternalState(d)
           s == [c EXCEPT !.seen = Len(l1), !.dv = p]
           synced == [s EXCEPT !.mode = "sync"]
           raised == [synced EXCEPT !.ceiling = l2_head_number]
<1>2. c \in Drivers /\ d.dv \in CappedPipelines
  BY <1>1, ClearType, DriverFields
<1>3. p \in CappedPipelines
  BY <1>2, PipelineTypes
<1>4. p.processed \in L1Number /\ p.derived \in L2Number
  BY <1>3, PipelineTypes
<1>5. /\ checkpoint' = p.processed /\ pc' = "idle" /\ work' = NoWork
      /\ UNCHANGED <<l1, mempool>>
  BY DEF StepReorg
<1>6. \/ d' = synced /\ chain' = SubSeq(chain, 1, p.derived) /\ p.derived < l2_head_number
      \/ d' = raised /\ chain' = chain
      \/ d' = s /\ chain' = chain
      \/ d' = synced /\ chain' = chain
  BY DEF StepReorg, RewindL2Chain
<1>7. used' \in Spent
  BY SpentType DEF StepReorg
<1> HIDE DEF c, p
<1>8. s \in Drivers /\ s.seen = Len(l1)
  BY <1>1, <1>2, <1>3 DEF Drivers
<1> HIDE DEF s
<1>9. synced \in Drivers /\ synced.seen = Len(l1)
  BY <1>8 DEF Drivers, Modes
<1> HIDE DEF synced
<1>10. raised \in Drivers /\ raised.seen = Len(l1)
  BY <1>1, <1>9 DEF Drivers
<1> HIDE DEF raised
<1>11. p.derived < l2_head_number => SubSeq(chain, 1, p.derived) \in Blocks
  BY <1>1, <1>4, Bounds, BlockFacts DEF l2_head_number, L2Number
<1>12. d' \in Drivers /\ d'.seen = Len(l1) /\ chain' \in Blocks
  BY <1>1, <1>6, <1>8, <1>9, <1>10, <1>11
<1>13. d'.seen <= Len(l1)
  BY <1>1, <1>12
<1> QED
  BY <1>1, <1>4, <1>5, <1>7, <1>12, <1>13, InitialValues, Assembled DEF Points

\* A part of a chain from its start is one too.
LEMMA PrefixSeen ==
  ASSUME NEW c \in SeenChains, NEW n \in 0 .. Len(c)
  PROVE  SubSeq(c, 1, n) \in SeenChains /\ Len(SubSeq(c, 1, n)) = n
<1> DEFINE B == L1Blocks(MaxL1, MaxReorgs, MaxEntries)
           p == SubSeq(c, 1, n)
<1>1. c \in Seq(B) /\ Len(c) \in Nat /\ Len(c) <= MaxL1
      /\ \A i \in 1 .. Len(c) : Consecutive(c[i].batch)
  BY ChainReads DEF SeenChains, Chains, L1Chains
<1> HIDE DEF B
<1>2. p \in Seq(B) /\ Len(p) = n /\ \A i \in 1 .. n : p[i] = c[i]
  BY <1>1
<1> HIDE DEF p
<1>3. p \in Chains
  BY <1>1, <1>2, Bounds DEF Chains, L1Chains, B
<1>4. \A i \in 1 .. Len(p) : Consecutive(p[i].batch)
  BY <1>1, <1>2
<1> QED
  BY <1>2, <1>3, <1>4 DEF SeenChains, p

\* A batch whose transaction is missing.
LEMMA SkippedType ==
  ASSUME NEW b \in Batches(MaxL1, MaxReorgs, MaxEntries)
  PROVE  Skipped(b) \in Batches(MaxL1, MaxReorgs, MaxEntries) /\ Skipped(b).blocks = <<>>
<1> DEFINE X == Seq(BatchBlocks(MaxL1, MaxEntries))
           R == Roots(MaxL1, MaxReorgs, MaxEntries)
           none == <<>>
           r == [b EXCEPT !.blocks = none, !.ents = 0]
<1>1. none \in X
  OBVIOUS
<1> HIDE DEF X, R, none
<1>2. b \in [blocks : X, ents : Nat, used : Nat, root : R]
  BY DEF Batches, X, R
<1>3. r \in [blocks : X, ents : Nat, used : Nat, root : R] /\ r.blocks = none
  BY <1>1, <1>2
<1> QED
  BY <1>3 DEF Batches, X, R, none, Skipped

\* L1 as one derivation puts it together: the batches of the logs, the hashes
\* of the headers.
LEMMA AnsweredType ==
  ASSUME NEW logs \in SeenChains, NEW c \in Chains, Len(logs) <= Len(c), NEW missing
  PROVE  /\ Answered(logs, c, missing) \in SeenChains
         /\ Len(Answered(logs, c, missing)) = Len(logs)
<1> DEFINE B == L1Blocks(MaxL1, MaxReorgs, MaxEntries)
           E == Batches(MaxL1, MaxReorgs, MaxEntries)
           batch(i) == IF i \in missing
                       THEN Skipped(logs[i].batch)
                       ELSE logs[i].batch
           block(i) == [hash |-> c[i].hash, batch |-> batch(i)]
           a == Answered(logs, c, missing)
<1>1. /\ Len(logs) \in Nat /\ Len(c) \in Nat /\ Len(logs) <= MaxL1
      /\ logs \in L1Chains(MaxL1, MaxReorgs, MaxEntries)
      /\ c \in L1Chains(MaxL1, MaxReorgs, MaxEntries)
      /\ \A i \in 1 .. Len(logs) : Consecutive(logs[i].batch)
  BY ChainReads DEF SeenChains, Chains, L1Chains
<1>2. \A i \in 1 .. Len(logs) : logs[i].batch \in E
  BY <1>1, Bounds, L1Facts
<1>3. \A i \in 1 .. Len(logs) : c[i].hash \in 0 .. MaxReorgs
  <2>1. \A i \in 1 .. Len(logs) : i \in 1 .. Len(c)
    BY <1>1
  <2> QED
    BY <1>1, <2>1, Bounds, L1Facts
<1>4. ASSUME NEW i \in 1 .. Len(logs) PROVE batch(i) \in E /\ Consecutive(batch(i))
  <2>1. CASE i \in missing
    <3>1. batch(i) = Skipped(logs[i].batch)
      BY <2>1
    <3>2. logs[i].batch \in E
      BY <1>2
    <3>3. Skipped(logs[i].batch) \in E /\ Skipped(logs[i].batch).blocks = <<>>
      BY <3>2, SkippedType
    <3>4. batch(i) \in E /\ batch(i).blocks = <<>>
      BY <3>1, <3>3
    <3> HIDE DEF batch
    <3> QED
      BY <3>4 DEF Consecutive
  <2>2. CASE i \notin missing
    <3>1. batch(i) = logs[i].batch
      BY <2>2
    <3> QED
      BY <1>1, <1>2, <3>1
  <2> QED
    BY <2>1, <2>2
<1>5. \A i \in 1 .. Len(logs) : block(i).batch = batch(i)
  OBVIOUS
<1> HIDE DEF batch
<1>6. \A i \in 1 .. Len(logs) : block(i) \in B
  BY <1>3, <1>4 DEF L1Blocks
<1>7. a = [i \in 1 .. Len(logs) |-> block(i)]
  BY DEF Answered, batch
<1> HIDE DEF block, B, a
<1>8. a \in Seq(B) /\ Len(a) = Len(logs) /\ \A i \in 1 .. Len(logs) : a[i] = block(i)
  BY <1>1, <1>6, <1>7
<1>9. a \in Chains
  BY <1>1, <1>8 DEF Chains, L1Chains, B
<1>10. \A i \in 1 .. Len(a) : Consecutive(a[i].batch)
  BY <1>4, <1>5, <1>8
<1> QED
  BY <1>8, <1>9, <1>10 DEF SeenChains, a

\* What a derivation hands over: its blocks come after the genesis block, and
\* their numbers are consecutive.
LEMMA DerivedTypes ==
  ASSUME Types, NEW seen \in SeenChains
  PROVE  LET r == DeriveNextBatch(d.dv, seen, Len(seen))
         IN  r.blocks \in Seq(DerivedAbove) /\ r.next \in CappedPipelines
<1> DEFINE r == DeriveNextBatch(d.dv, seen, Len(seen))
           D == DerivedBlocks(MaxL1, MaxReorgs, MaxEntries)
<1>1. /\ seen \in L1Chains(MaxL1, MaxReorgs, MaxEntries)
      /\ \A i \in 1 .. Len(seen) : Consecutive(seen[i].batch)
  BY DEF SeenChains, Chains
<1>2. d.dv \in Pipelines(MaxL1, MaxReorgs) /\ Len(d.dv.cursor) <= 2 * REORG_CHECK_DEPTH
  BY TypeFacts, DriverFields DEF CappedPipelines
<1>3. d.dv.derived \in Nat
  BY <1>2, Bounds DEF Pipelines
<1>4. /\ r.blocks \in Seq(D) /\ r.next \in Pipelines(MaxL1, MaxReorgs)
      /\ Len(r.next.cursor) <= 2 * REORG_CHECK_DEPTH
  BY <1>1, <1>2, Bounds, DeriveType
<1>5. \A y \in 1 .. Len(r.blocks) : r.blocks[y].n = d.dv.derived + y
  <2> DEFINE p == d.dv
  <2>1. p \in Pipelines(MaxL1, MaxReorgs)
    BY <1>2
  <2> HIDE DEF p
  <2>2. \A y \in 1 .. Len(DeriveNextBatch(p, seen, Len(seen)).blocks) :
          DeriveNextBatch(p, seen, Len(seen)).blocks[y].n = p.derived + y
    BY <1>1, <2>1, Bounds, DerivesWithoutHoles
  <2> QED
    BY <2>2 DEF p
<1> HIDE DEF r
<1>6. \A y \in 1 .. Len(r.blocks) : r.blocks[y] \in D /\ r.blocks[y].n >= 1
  <2>1. TAKE y \in 1 .. Len(r.blocks)
  <2>2. r.blocks[y] \in D
    <3> HIDE DEF D
    <3> QED
      BY <1>4
  <2>3. d.dv.derived + y >= 1
    BY <1>3
  <2> QED
    BY <1>5, <2>2, <2>3
<1>7. \A y \in 1 .. Len(r.blocks) : r.blocks[y] \in DerivedAbove
  BY <1>6 DEF DerivedAbove
<1>8. r.blocks \in Seq(DerivedAbove)
  <2> HIDE DEF D
  <2> QED
    BY <1>4, <1>7
<1> QED
  BY <1>4, <1>8 DEF CappedPipelines, r

\* The derivation of a batch, and where L1 comes from in it.
LEMMA DerivationReads ==
  ASSUME Types, StepDerive
  PROVE  \E seen \in SeenChains : Derived(DeriveNextBatch(d.dv, seen, Len(seen)))
<1>1. PICK missing : Derived(DeriveNextBatch(d.dv, Answered(work.logs, l1, missing), d.seen))
  BY DEF StepDerive
<1> DEFINE seen == Answered(work.logs, l1, missing)
<1>2. /\ work.logs \in SeenChains /\ l1 \in Chains /\ Len(work.logs) = d.seen
      /\ Len(work.logs) <= Len(l1)
  <2>1. pc = "blocks"
    BY Derivation
  <2> QED
    BY <2>1, TypeFacts, WorkFields DEF Types, LogsRead, L1Typed
<1>3. seen \in SeenChains /\ Len(seen) = d.seen
  BY <1>2, AnsweredType
<1>4. Derived(DeriveNextBatch(d.dv, seen, d.seen))
  BY <1>1
<1> HIDE DEF seen
<1> QED
  BY <1>3, <1>4

\* derive_next_batch, and the calls that fail
LEMMA DeriveTypes ==
  ASSUME Types, StepUnchanged \/ StepLogs \/ StepDerive \/ StepFails
  PROVE  Types'
<1>1. /\ mempool \in SUBSET Txs /\ chain \in Blocks /\ checkpoint \in L1Number /\ d \in Drivers
      /\ Len(l1) \in L1Number /\ Len(l1) \in Nat /\ d.seen <= Len(l1) /\ work \in Works
      /\ d.seen \in Nat
  BY TypeFacts, DriverFields, Bounds DEF L1Number
<1>2. CASE StepUnchanged
  <2> DEFINE s == [d EXCEPT !.seen = Len(l1)]
  <2>1. s \in Drivers /\ s.seen = Len(l1)
    BY <1>1 DEF Drivers
  <2>2. /\ UNCHANGED <<l1, mempool, chain, checkpoint>> /\ NoFault
        /\ \/ Return(s)
           \/ d' = s /\ pc' = "logs" /\ UNCHANGED work
    BY <1>2 DEF StepUnchanged
  <2> HIDE DEF s
  <2>3. used' \in Spent
    BY <2>2, SpentType
  <2>4. CASE Return(s)
    BY <1>1, <2>1, <2>2, <2>3, <2>4, ReturnTypes
  <2>5. CASE d' = s /\ pc' = "logs" /\ UNCHANGED work
    <3>1. d'.seen <= Len(l1)
      BY <1>1, <2>1, <2>5
    <3> QED
      BY <1>1, <2>1, <2>2, <2>3, <2>5, <3>1, Assembled DEF Points
  <2> QED
    BY <2>2, <2>4, <2>5
<1>3. CASE StepLogs
  <2> DEFINE logs == SubSeq(l1, 1, d.seen)
             w == [work EXCEPT !.logs = logs]
  <2>1. logs \in SeenChains /\ Len(logs) = d.seen
    BY <1>1, TypeFacts, PrefixSeen DEF L1Typed, SeenChains
  <2>2. pc' = "blocks" /\ work' = w /\ UNCHANGED <<l1, mempool, chain, checkpoint, d>> /\ NoFault
    BY <1>3 DEF StepLogs
  <2> HIDE DEF logs
  <2>3. w \in Works /\ w.logs = logs
    BY <1>1, <2>1 DEF Works
  <2> HIDE DEF w
  <2>4. used' \in Spent
    BY <2>2, SpentType
  <2> QED
    BY <1>1, <2>1, <2>2, <2>3, <2>4, Assembled DEF Points
<1>4. CASE StepDerive
  <2>1. PICK seen \in SeenChains : Derived(DeriveNextBatch(d.dv, seen, Len(seen)))
    BY <1>4, DerivationReads
  <2> DEFINE r == DeriveNextBatch(d.dv, seen, Len(seen))
             w == [NoWork EXCEPT !.todo = r.blocks, !.empty = r.blocks = <<>>, !.next = r.next]
  <2>2. r.blocks \in Seq(DerivedAbove) /\ r.next \in CappedPipelines
    BY DerivedTypes
  <2>3. Derived(r)
    BY <2>1
  <2> HIDE DEF r
  <2>4. w \in Works
    <3>1. (r.blocks = <<>>) \in Flags
      BY DEF Flags
    <3> DEFINE empty == r.blocks = <<>>
    <3> HIDE DEF empty
    <3>2. empty \in Flags
      BY <3>1 DEF empty
    <3>3. [NoWork EXCEPT !.todo = r.blocks, !.empty = empty, !.next = r.next] \in Works
      BY <2>2, <3>2, InitialValues DEF Works
    <3> QED
      BY <3>3 DEF empty
  <2>5. Return(d) \/ (d' = d /\ pc' \in {"sync", "verify"} /\ work' = w)
    BY <2>3 DEF Derived
  <2> HIDE DEF w
  <2>6. used' \in Spent /\ UNCHANGED <<l1, mempool, chain, checkpoint>>
    <3>1. Fault \/ NoFault
      BY <1>4 DEF StepDerive, Unreturned
    <3> QED
      BY <1>4, <3>1, SpentType, Derivation
  <2>7. CASE Return(d)
    BY <1>1, <2>6, <2>7, ReturnTypes
  <2>8. CASE d' = d /\ pc' \in {"sync", "verify"} /\ work' = w
    BY <1>1, <2>4, <2>6, <2>8, Assembled DEF Points
  <2> QED
    BY <2>5, <2>7, <2>8
<1>5. CASE StepFails
  <2>1. used' \in Spent
    BY <1>5, SpentType DEF StepFails
  <2> QED
    BY <1>1, <1>5, <2>1, ReturnTypes DEF StepFails
<1> QED
  BY <1>2, <1>3, <1>4, <1>5

\* The next derived block, and the block built from it.
LEMMA NextBlockType ==
  ASSUME Types, work.todo # <<>>
  PROVE  /\ NextBlock \in DerivedAbove /\ NextBlock.n \in L2Number /\ NextBlock.n \in Nat /\ NextBlock.n >= 1
         /\ [work EXCEPT !.todo = Tail(@)] \in Works
         /\ Local(NextBlock) \in L2Blocks(MaxL1, MaxReorgs, MaxEntries)
         /\ NextBlock.n <= Len(chain) + 1 => LocalChain(NextBlock) \in BuiltBlocks
<1> DEFINE b == NextBlock
           rest == Tail(work.todo)
<1>1. work \in Works /\ chain \in Blocks /\ Len(chain) \in Nat /\ work.todo \in Seq(DerivedAbove)
  BY TypeFacts, WorkFields
<1>2. b \in DerivedAbove /\ rest \in Seq(DerivedAbove)
  BY <1>1 DEF NextBlock
<1> HIDE DEF b, rest
<1>3. [work EXCEPT !.todo = rest] \in Works
  BY <1>1, <1>2 DEF Works
<1>4. b.n \in 0 .. MaxL1 /\ b.n >= 1 /\ b.info \in Infos(MaxL1, MaxReorgs) /\ b.k \in 0 .. MaxEntries
  BY <1>2 DEF DerivedAbove, DerivedBlocks
<1>5. Local(b) \in L2Blocks(MaxL1, MaxReorgs, MaxEntries)
  BY <1>4 DEF Local, L2Blocks, Infos
<1>6. b.n <= Len(chain) + 1 => LocalChain(b) \in BuiltBlocks
  <2>1. SUFFICES ASSUME b.n <= Len(chain) + 1 PROVE LocalChain(b) \in BuiltBlocks
    OBVIOUS
  <2>2. b.n - 1 \in Int /\ b.n - 1 <= Len(chain) /\ b.n - 1 < MaxL1 /\ MaxL1 >= 1
    BY <1>1, <1>4, <2>1, Bounds
  <2>3. Append(SubSeq(chain, 1, b.n - 1), Local(b)) \in BuiltBlocks
    BY <1>1, <1>5, <2>2, Appended
  <2> QED
    BY <2>3 DEF LocalChain
<1>7. b.n \in L2Number /\ b.n \in Nat
  BY <1>4, Bounds DEF L2Number
<1> QED
  BY <1>2, <1>3, <1>4, <1>5, <1>6, <1>7 DEF b, rest

\* A step over a derived block that keeps the driver's fields typed.
LEMMA AdvanceTypes ==
  ASSUME Types, pc \in {"sync", "verify"}, work.todo # <<>>, Advance,
         d' \in Drivers, d'.seen = d.seen, chain' \in Blocks,
         UNCHANGED <<l1, mempool, checkpoint>>, used' \in Spent
  PROVE  Types'
<1>1. work' \in Works /\ pc' = pc
  BY NextBlockType DEF Advance
<1>2. mempool' \in SUBSET Txs /\ checkpoint' \in L1Number /\ d'.seen <= Len(l1)
  BY TypeFacts
<1> QED
  BY <1>1, <1>2, Assembled DEF Points

\* build_and_insert_block
LEMMA InsertTypes ==
  ASSUME Types, pc \in {"sync", "verify"}, work.todo # <<>>, InsertNext
  PROVE  Types'
<1>1. used' \in Spent /\ UNCHANGED <<l1, mempool, checkpoint>>
  BY SpentType DEF InsertNext
<1>2. /\ d \in Drivers /\ chain \in Blocks /\ checkpoint \in L1Number /\ d.seen <= Len(l1)
      /\ Len(chain) \in Nat
  BY TypeFacts
<1>3. CASE NextBlock.n = l2_head_number + 1
  <2>1. chain' = LocalChain(NextBlock) /\ Advance /\ UNCHANGED d
    BY <1>3 DEF InsertNext
  <2>2. NextBlock.n <= Len(chain) + 1
    BY <1>2, <1>3 DEF l2_head_number
  <2>3. chain' \in Blocks
    BY <2>1, <2>2, NextBlockType DEF BuiltBlocks
  <2> QED
    BY <1>1, <1>2, <2>1, <2>3, AdvanceTypes
<1>4. CASE NextBlock.n # l2_head_number + 1
  BY <1>1, <1>2, <1>4, ReturnTypes DEF InsertNext
<1> QED
  BY <1>3, <1>4

\* commit_batch and maybe_save_checkpoint
LEMMA CommitTypes ==
  ASSUME Types, NEW s \in Drivers, NEW next \in CappedPipelines, NEW save, Commit(s, next, save)
  PROVE  d' \in Drivers /\ d'.seen = s.seen /\ checkpoint' \in L1Number
<1>1. next.processed \in L1Number /\ \A f : PruneFinalized(next, f) \in CappedPipelines
  BY PipelineTypes
<1>2. checkpoint' \in {next.processed, checkpoint}
  BY DEF Commit
<1>3. \E p \in CappedPipelines : d' = [s EXCEPT !.dv = p]
  BY <1>1 DEF Commit
<1>4. d' \in Drivers /\ d'.seen = s.seen
  BY <1>3 DEF Drivers
<1> QED
  BY <1>1, <1>2, <1>4, TypeFacts

\* step_sync
LEMMA SyncTypes ==
  ASSUME Types, SyncRebuild \/ SyncSkip \/ SyncInsert \/ SyncCommit
  PROVE  Types'
<1>1. /\ mempool \in SUBSET Txs /\ chain \in Blocks /\ checkpoint \in L1Number /\ d \in Drivers
      /\ d.seen <= Len(l1) /\ Len(chain) \in Nat /\ work \in Works
  BY TypeFacts
<1>2. CASE SyncRebuild
  <2>1. pc = "sync" /\ work.todo # <<>> /\ NextBlock.n <= l2_head_number
        /\ UNCHANGED <<l1, mempool, checkpoint>>
    BY <1>2 DEF SyncRebuild, IsSiblingTarget
  <2>2. used' \in Spent
    BY <1>2, SpentType DEF SyncRebuild
  <2>3. CASE Return(d) /\ UNCHANGED chain
    BY <1>1, <2>1, <2>2, <2>3, ReturnTypes
  <2>4. CASE ~(Return(d) /\ UNCHANGED chain)
    <3> DEFINE s == [d EXCEPT !.sibling = NoRequest, !.cycles = 0, !.mismatches = 0, !.hold = Clear]
    <3>1. chain' = LocalChain(NextBlock) /\ d' = s /\ Advance
      BY <1>2, <2>4 DEF SyncRebuild
    <3>2. NextBlock.n <= Len(chain) + 1
      BY <1>1, <2>1, NextBlockType DEF l2_head_number
    <3>3. chain' \in Blocks
      BY <2>1, <3>1, <3>2, NextBlockType DEF BuiltBlocks
    <3>4. 0 \in CycleCounts /\ 0 \in MismatchCounts
      BY Bounds DEF CycleCounts, MismatchCounts, MAX_FLUSH_MISMATCHES
    <3>5. s \in Drivers /\ s.seen = d.seen
      BY <1>1, <3>4, InitialValues DEF Drivers
    <3> HIDE DEF s
    <3> QED
      BY <2>1, <2>2, <3>1, <3>3, <3>5, AdvanceTypes
  <2> QED
    BY <2>3, <2>4
<1>3. CASE SyncSkip
  BY <1>1, <1>3, SpentType, AdvanceTypes DEF SyncSkip
<1>4. CASE SyncInsert
  BY <1>4, InsertTypes DEF SyncInsert
<1>5. CASE SyncCommit
  <2> DEFINE c == ClearInternalState(d)
             mode == IF BuilderMode THEN "builder" ELSE "fullnode"
             live == [c EXCEPT !.cycles = 0, !.mode = mode]
  <2>1. c \in Drivers /\ c.seen = d.seen /\ 0 \in CycleCounts /\ mode \in Modes
    BY <1>1, ClearType, Bounds DEF CycleCounts, Modes
  <2>2. \/ UNCHANGED <<d, checkpoint>>
        \/ Commit(live, work.next, FALSE) \/ Commit(d, work.next, ~work.empty)
    BY <1>5 DEF SyncCommit
  <2> HIDE DEF c, mode
  <2>3. live \in Drivers /\ live.seen = d.seen
    BY <2>1 DEF Drivers
  <2> HIDE DEF live
  <2>4. work.next \in CappedPipelines
    BY <1>1, WorkFields
  <2>5. d' \in Drivers /\ d'.seen = d.seen /\ checkpoint' \in L1Number
    BY <1>1, <2>2, <2>3, <2>4, CommitTypes
  <2>6. used' \in Spent
    BY <1>5, SpentType DEF SyncCommit
  <2>7. pc' = "idle" /\ work' = NoWork /\ UNCHANGED <<l1, mempool, chain>>
    BY <1>5 DEF SyncCommit
  <2> QED
    BY <1>1, <2>5, <2>6, <2>7, InitialValues, Assembled DEF Points
<1> QED
  BY <1>2, <1>3, <1>4, <1>5

\* verification by step_builder and step_fullnode
LEMMA VerifyTypes ==
  ASSUME Types, \/ VerifyBlock \/ VerifyInsert
                \/ VerifyCommitBuilder \/ VerifyCommitFullnode
  PROVE  Types'
<1>1. /\ mempool \in SUBSET Txs /\ chain \in Blocks /\ checkpoint \in L1Number /\ d \in Drivers
      /\ d.seen <= Len(l1) /\ work \in Works /\ work.next \in CappedPipelines
  BY TypeFacts, WorkFields
<1>2. CASE VerifyBlock
  <2> DEFINE v == Verification(d, NextBlock)
  <2>1. pc = "verify" /\ work.todo # <<>> /\ UNCHANGED <<l1, mempool, chain, checkpoint>>
    BY <1>2 DEF VerifyBlock
  <2>2. v.d \in Drivers /\ v.d.seen = d.seen
    BY <1>1, <2>1, NextBlockType, VerificationType
  <2>3. used' \in Spent
    BY <1>2, SpentType DEF VerifyBlock
  <2>4. Return(v.d) \/ (d' = v.d /\ Advance)
    BY <1>2 DEF VerifyBlock
  <2> HIDE DEF v
  <2> QED
    BY <1>1, <2>1, <2>2, <2>3, <2>4, ReturnTypes, AdvanceTypes
<1>3. CASE VerifyInsert
  BY <1>3, InsertTypes DEF VerifyInsert
<1>4. CASE VerifyCommitBuilder \/ VerifyCommitFullnode
  <2>1. UNCHANGED <<d, checkpoint>> \/ \E save : Commit(d, work.next, save)
    BY <1>4 DEF VerifyCommitBuilder, VerifyCommitFullnode
  <2>2. d' \in Drivers /\ d'.seen = d.seen /\ checkpoint' \in L1Number
    BY <1>1, <2>1, CommitTypes
  <2>3. used' \in Spent
    BY <1>4, SpentType DEF VerifyCommitBuilder, VerifyCommitFullnode
  <2>4. pc' \in {"idle", "tick"} /\ work' = NoWork /\ UNCHANGED <<l1, mempool, chain>>
    BY <1>4 DEF VerifyCommitBuilder, VerifyCommitFullnode
  <2> QED
    BY <1>1, <2>2, <2>3, <2>4, InitialValues, Assembled DEF Points
<1> QED
  BY <1>2, <1>3, <1>4

\* The number a tick builds up to.
LEMMA TargetType ==
  ASSUME Types
  PROVE  EffectiveTarget \in L2Number
<1>1. /\ d \in Drivers /\ Len(chain) \in Nat /\ d.seen \in L1Number /\ d.pending \in Queues
  BY TypeFacts, DriverFields
<1>2. Len(d.pending) \in Nat
  BY <1>1 DEF Queues
<1>3. d.seen \in 0 .. MaxL1
  BY <1>1 DEF L1Number
<1> QED
  BY <1>1, <1>2, <1>3, Bounds DEF EffectiveTarget, l2_head_number, Smaller, L2Number

\* drain_rpc_queues, and a tick that builds nothing
LEMMA TickTypes ==
  ASSUME Types, TickIdle \/ \E k \in 0 .. MaxEntries : Tick(k)
  PROVE  Types'
<1>1. /\ mempool \in SUBSET Txs /\ chain \in Blocks /\ checkpoint \in L1Number /\ d \in Drivers
      /\ d.seen <= Len(l1) /\ work \in Works /\ Len(chain) \in Nat /\ Len(l1) \in Nat
      /\ used \in Spent /\ d.seen \in L1Number /\ d.entries \in Entries
  BY TypeFacts, DriverFields
<1>2. CASE TickIdle
  BY <1>1, <1>2, Assembled DEF TickIdle, NoFault, Points
<1>3. ASSUME NEW k \in 0 .. MaxEntries, Tick(k) PROVE Types'
  <2> DEFINE goal == EffectiveTarget
             info == InfoAt(l1, d.seen)
             base == Len(d.entries)
             tick == [NoTick EXCEPT !.goal = goal, !.info = info, !.k = k, !.base = base]
             w == [NoWork EXCEPT !.tick = tick]
             entries == d.entries \o [j \in 1 .. k |-> goal]
             s == [d EXCEPT !.entries = entries]
  <2>1. goal \in L2Number
    BY TargetType
  <2>2. info \in Contexts
    <3>1. d.seen \in 0 .. Len(l1)
      BY <1>1 DEF L1Number
    <3> QED
      BY <3>1, TypeFacts, L1Reads
  <2>3. d' = s /\ work' = w /\ pc' = "build" /\ UNCHANGED <<l1, mempool, chain, checkpoint, used>>
    BY <1>3 DEF Tick, NoFault
  <2>4. Len(chain) < goal
    BY <1>3 DEF Tick, MayBuild, l2_head_number
  <2> HIDE DEF goal, info
  <2>5. entries \in Entries
    <3>1. [j \in 1 .. k |-> goal] \in Seq(L2Number)
      <4>1. k \in Nat
        OBVIOUS
      <4> QED
        BY <2>1, <4>1
    <3> QED
      BY <1>1, <3>1 DEF Entries
  <2>6. base \in Nat
    BY <1>1 DEF Entries
  <2> HIDE DEF base, entries
  <2>7. tick \in Ticks /\ tick.goal = goal
    BY <2>1, <2>2, <2>6, InitialValues DEF Ticks, NoTick
  <2> HIDE DEF tick
  <2>8. w \in Works /\ w.tick = tick
    BY <2>7, InitialValues DEF Works, NoWork
  <2>9. s \in Drivers /\ s.seen = d.seen
    BY <1>1, <2>5 DEF Drivers
  <2> HIDE DEF w, s
  <2>10. Len(chain') < work'.tick.goal
    BY <2>3, <2>4, <2>7, <2>8
  <2> QED
    BY <1>1, <2>3, <2>8, <2>9, <2>10, Assembled DEF Points
<1> QED
  BY <1>2, <1>3

\* build_builder_block
LEMMA BuildTypes ==
  ASSUME Types, BuildBlock \/ BuildFails
  PROVE  Types'
<1>1. /\ mempool \in SUBSET Txs /\ chain \in Blocks /\ checkpoint \in L1Number /\ d \in Drivers
      /\ d.seen <= Len(l1) /\ work \in Works /\ Len(chain) \in Nat
      /\ d.pending \in Queues /\ d.entries \in Entries
      /\ work.tick \in Ticks /\ work.tick.goal \in L2Number /\ work.tick.info \in Contexts
      /\ work.tick.k \in 0 .. MaxEntries /\ work.tick.pushed \in Nat /\ work.tick.base \in Nat
  BY TypeFacts, DriverFields, WorkFields
<1>2. pc = "build" /\ Len(chain) < work.tick.goal
  BY DEF BuildBlock, BuildFails, Types
<1>3. CASE BuildBlock
  <2> DEFINE last == Len(chain) + 1 >= work.tick.goal
             k == IF last THEN work.tick.k ELSE 0
             b == [ctx |-> work.tick.info.l1, hash |-> work.tick.info.hash, k |-> k]
             queued == Len(d.pending) < MAX_PENDING_SUBMISSIONS
             pushed == work.tick.pushed + (IF queued THEN 1 ELSE 0)
             full == pushed >= MAX_BATCH_SIZE
             tick == [work.tick EXCEPT !.pushed = pushed, !.inner = full]
             w == [work EXCEPT !.tick = tick]
             more == Append(d.pending, chain')
             s == [d EXCEPT !.pending = more]
  <2>1. /\ chain' = Append(chain, b) /\ d' = (IF queued THEN s ELSE d)
        /\ pc' = (IF full \/ last THEN "flush" ELSE "build")
        /\ UNCHANGED <<l1, mempool, checkpoint, used>>
    BY <1>3 DEF BuildBlock, NoFault, l2_head_number
  <2>2. work' = w
    BY <1>3 DEF BuildBlock
  <2>3. k \in 0 .. MaxEntries
    BY <1>1, Bounds
  <2>4. b \in L2Blocks(MaxL1, MaxReorgs, MaxEntries)
    BY <1>1, <2>3 DEF L2Blocks, Contexts, Infos
  <2> HIDE DEF k, b
  <2>5. /\ Append(chain, b) \in Seq(L2Blocks(MaxL1, MaxReorgs, MaxEntries))
        /\ Len(Append(chain, b)) = Len(chain) + 1
    BY <1>1, <2>4 DEF Blocks, Roots
  <2>6. Len(chain) + 1 <= MaxL1
    BY <1>1, <1>2, Bounds DEF L2Number
  <2>7. chain' \in BuiltBlocks /\ chain' \in Blocks /\ Len(chain') = Len(chain) + 1
    <3>1. Append(chain, b) \in Blocks
      BY <2>5, <2>6 DEF Blocks, Roots
    <3>2. Append(chain, b) # <<>>
      BY <1>1, <2>5
    <3> QED
      BY <2>1, <2>5, <3>1, <3>2 DEF BuiltBlocks
  <2>8. queued => more \in Queues
    BY <1>1, <2>7, Bounds DEF Queues
  <2>9. pushed \in Nat
    BY <1>1
  <2>10. full \in Flags
    BY DEF Flags
  <2>11. Len(chain) + 1 < work.tick.goal \/ last
    BY <1>1, Bounds DEF L2Number
  <2> HIDE DEF pushed, full, more
  <2>12. tick \in Ticks /\ tick.goal = work.tick.goal
    BY <1>1, <2>9, <2>10 DEF Ticks
  <2> HIDE DEF tick
  <2>13. w \in Works /\ w.tick = tick
    BY <1>1, <2>12 DEF Works
  <2>14. queued => s \in Drivers /\ s.seen = d.seen
    BY <1>1, <2>8 DEF Drivers
  <2> HIDE DEF w, s, queued, last
  <2>15. d' \in Drivers /\ d'.seen <= Len(l1)
    BY <1>1, <2>1, <2>14
  <2>16. pc' \in {"flush", "build"} /\ (pc' = "build" => ~last)
    BY <2>1
  <2>17. pc' = "build" => Len(chain') < work'.tick.goal
    BY <2>2, <2>7, <2>11, <2>12, <2>13, <2>16
  <2>18. used' \in Spent /\ work' \in Works /\ mempool' \in SUBSET Txs /\ checkpoint' \in L1Number
    BY <1>1, <2>1, <2>2, <2>13, TypeFacts
  <2>19. pc' \in Points /\ pc' # "refresh" /\ pc' # "wait"
    BY <2>16 DEF Points
  <2> QED
    BY <2>1, <2>7, <2>15, <2>17, <2>18, <2>19, Assembled
<1>4. CASE BuildFails
  <2> DEFINE n == Smaller(work.tick.base, Len(d.entries))
             entries == SubSeq(d.entries, 1, n)
             s == [d EXCEPT !.mode = "sync", !.entries = entries]
  <2>1. Return(s) /\ UNCHANGED <<l1, mempool, chain, checkpoint>>
    BY <1>4 DEF BuildFails
  <2>2. n \in Nat /\ n <= Len(d.entries)
    BY <1>1 DEF Smaller, Entries
  <2> HIDE DEF n
  <2>3. entries \in Entries
    BY <1>1, <2>2 DEF Entries
  <2> HIDE DEF entries
  <2>4. s \in Drivers /\ s.seen = d.seen
    BY <1>1, <2>3 DEF Drivers, Modes
  <2> HIDE DEF s
  <2>5. used' \in Spent
    BY <1>4, SpentType DEF BuildFails
  <2> QED
    BY <1>1, <2>1, <2>4, <2>5, ReturnTypes
<1> QED
  BY <1>3, <1>4

-----------------------------------------------------------------------------
(* flush_to_l1 keeps the types *)

\* The members of a queue, and its parts.
LEMMA QueueFacts ==
  ASSUME NEW p \in Queues
  PROVE  /\ Len(p) \in Nat /\ Len(p) <= MAX_PENDING_SUBMISSIONS /\ p \in Seq(BuiltBlocks)
         /\ p # <<>> => 1 \in 1 .. Len(p)
         /\ \A i \in 1 .. Len(p) : p[i] \in Blocks /\ p[i] # <<>>
         /\ \A i \in 0 .. Len(p) :
              /\ SubSeq(p, i + 1, Len(p)) \in Queues
              /\ SubSeq(p, 1, i) \in Seq(BuiltBlocks)
              /\ Len(SubSeq(p, 1, i)) + Len(SubSeq(p, i + 1, Len(p))) = Len(p)
<1>1. Len(p) \in Nat /\ Len(p) <= MAX_PENDING_SUBMISSIONS /\ p \in Seq(BuiltBlocks)
  BY DEF Queues
<1>2. p # <<>> => 1 \in 1 .. Len(p)
  BY <1>1
<1>3. \A i \in 1 .. Len(p) : p[i] \in BuiltBlocks
  BY <1>1
<1>4. ASSUME NEW i \in 0 .. Len(p)
      PROVE  /\ SubSeq(p, i + 1, Len(p)) \in Queues
             /\ SubSeq(p, 1, i) \in Seq(BuiltBlocks)
             /\ Len(SubSeq(p, 1, i)) + Len(SubSeq(p, i + 1, Len(p))) = Len(p)
  <2>1. SubSeq(p, i + 1, Len(p)) \in Seq(BuiltBlocks) /\ Len(SubSeq(p, i + 1, Len(p))) = Len(p) - i
    BY <1>1
  <2>2. SubSeq(p, 1, i) \in Seq(BuiltBlocks) /\ Len(SubSeq(p, 1, i)) = i
    BY <1>1
  <2>3. Len(p) - i <= MAX_PENDING_SUBMISSIONS
    BY <1>1, Bounds
  <2>4. SubSeq(p, i + 1, Len(p)) \in Queues
    BY <2>1, <2>3 DEF Queues
  <2>5. i + (Len(p) - i) = Len(p)
    BY <1>1
  <2> QED
    BY <2>1, <2>2, <2>4, <2>5
<1> QED
  BY <1>1, <1>2, <1>3, <1>4 DEF BuiltBlocks

\* find_rightmost_sibling_reorg_target
LEMMA RightmostType ==
  ASSUME NEW p \in Queues, NEW root, NEW depth, NEW window \in 0 .. Len(p)
  PROVE  FindRightmostTarget(p, root, depth, window) \in Requests
<1> DEFINE hits == {i \in 1 .. window : IsDivergent(p[i], root)}
           i == CHOOSE j \in hits : \A h \in hits : h <= j
<1>1. Len(p) \in Nat /\ \A x \in 1 .. Len(p) : p[x] \in Blocks
  BY QueueFacts
<1>2. hits # {} => i \in hits
  <2>1. hits \in SUBSET Nat /\ window \in Nat /\ \A x \in hits : x <= window
    BY <1>1
  <2> HIDE DEF hits
  <2>2. hits # {} => \E x \in hits : \A y \in hits : y <= x
    BY <2>1, LargestNatural
  <2> QED
    BY <2>2
<1>3. hits # {} => i \in 1 .. Len(p)
  BY <1>1, <1>2
<1> HIDE DEF i
<1>4. ASSUME NEW x \in 1 .. Len(p) PROVE Request(NumberOf(p[x]), CleanRoot(p[x])) \in Requests
  <2>1. p[x] \in Blocks
    BY <1>1
  <2>2. CleanRoot(p[x]) \in Blocks
    <3>1. p[x] \in Roots(MaxL1, MaxReorgs, MaxEntries) /\ 0 \in 0 .. MaxEntries
      BY <2>1, Bounds DEF Blocks
    <3>2. [p[x] EXCEPT ![Len(p[x])].k = 0] \in Roots(MaxL1, MaxReorgs, MaxEntries)
      BY <3>1, Bounds, RootWithEntries
    <3> QED
      BY <3>2 DEF CleanRoot, WithEntries, Blocks
  <2>3. NumberOf(p[x]) \in L2Number
    BY <2>1, BlockFacts
  <2> QED
    BY <2>2, <2>3 DEF Request, Requests
<1>5. \/ FindRightmostTarget(p, root, depth, window) = NoRequest
      \/ /\ hits # {}
         /\ FindRightmostTarget(p, root, depth, window) = Request(NumberOf(p[i]), CleanRoot(p[i]))
  BY DEF FindRightmostTarget, i
<1> QED
  BY <1>3, <1>4, <1>5, InitialValues

\* The blocks that are confirmed leave the queue.
LEMMA TrimmedType ==
  ASSUME NEW s \in Drivers, NEW root
  PROVE  Trimmed(s, root) \in Drivers /\ Trimmed(s, root).seen = s.seen
<1> DEFINE hits == {i \in 1 .. Len(s.pending) : root \in RootChain(s.pending[i])}
           pos == CHOOSE i \in hits : \A h \in hits : h <= i
           n == NumberOf(s.pending[pos])
           found == FindRightmostTarget(s.pending, root, s.cycles, pos)
           sibling == IF s.sibling # NoRequest THEN s.sibling ELSE found
           rest == SubSeq(s.pending, pos + 1, Len(s.pending))
           anchor == IF s.anchor = NoAnchor \/ s.anchor.l2 < n THEN [l2 |-> n, l1 |-> s.seen] ELSE s.anchor
           new == [s EXCEPT !.sibling = sibling, !.pending = rest, !.anchor = anchor]
<1>1. /\ s.pending \in Queues /\ s.sibling \in Requests /\ s.anchor \in Anchors /\ s.seen \in L1Number
  BY DriverFields
<1>2. Trimmed(s, root) = IF hits = {} THEN s ELSE new
  BY DEF Trimmed
<1>3. CASE hits = {}
  BY <1>2, <1>3
<1>4. CASE hits # {}
  <2>1. hits \in SUBSET Nat /\ Len(s.pending) \in Nat /\ \A x \in hits : x <= Len(s.pending)
    BY <1>1, QueueFacts
  <2>2. hits \subseteq 1 .. Len(s.pending)
    OBVIOUS
  <2> HIDE DEF hits
  <2>3. \E x \in hits : \A y \in hits : y <= x
    BY <1>4, <2>1, LargestNatural
  <2>4. pos \in 1 .. Len(s.pending)
    BY <2>2, <2>3
  <2> HIDE DEF pos
  <2>5. pos \in 0 .. Len(s.pending)
    BY <2>1, <2>4
  <2>6. rest \in Queues
    BY <1>1, <2>5, QueueFacts
  <2>7. n \in L2Number
    BY <1>1, <2>4, QueueFacts, BlockFacts
  <2>8. found \in Requests
    BY <1>1, <2>5, RightmostType
  <2> HIDE DEF rest, n, found
  <2>9. sibling \in Requests
    BY <1>1, <2>8
  <2>10. anchor \in Anchors
    BY <1>1, <2>7 DEF Anchors
  <2> HIDE DEF sibling, anchor
  <2>11. new \in Drivers /\ new.seen = s.seen
    BY <2>6, <2>9, <2>10 DEF Drivers
  <2> QED
    BY <1>2, <1>4, <2>11
<1> QED
  BY <1>3, <1>4

\* flush_precheck
LEMMA PrecheckTypes ==
  ASSUME Types, \/ FlushSkip \/ FlushFails \/ FlushTrim \/ FlushDispatch
                \/ FlushStale \/ FlushWaitsForRefresh
  PROVE  Types'
<1>1. /\ mempool \in SUBSET Txs /\ chain \in Blocks /\ checkpoint \in L1Number /\ d \in Drivers
      /\ d.seen <= Len(l1) /\ work \in Works /\ L1Typed
  BY TypeFacts
<1>2. used' \in Spent
  BY SpentType DEF FlushSkip, FlushFails, FlushTrim, FlushDispatch, FlushStale, FlushWaitsForRefresh
<1>3. CASE FlushSkip \/ FlushFails \/ FlushWaitsForRefresh
  BY <1>1, <1>2, <1>3, FlushReturnsTypes DEF FlushSkip, FlushFails, FlushWaitsForRefresh
<1>4. CASE FlushTrim
  <2> DEFINE w == [work EXCEPT !.root = OnChainRoot]
  <2>1. /\ d' = Trimmed(d, OnChainRoot) /\ work' = w /\ pc' = "check"
        /\ UNCHANGED <<l1, mempool, chain, checkpoint>>
    BY <1>4 DEF FlushTrim
  <2>2. OnChainRoot \in Blocks
    BY <1>1, OnChainRootType
  <2>3. w \in Works
    BY <1>1, <2>2 DEF Works
  <2> HIDE DEF w
  <2>4. d' \in Drivers /\ d'.seen <= Len(l1)
    BY <1>1, <2>1, TrimmedType
  <2> QED
    BY <1>1, <1>2, <2>1, <2>3, <2>4, Assembled DEF Points
<1>5. CASE FlushDispatch
  <2> DEFINE c == ClearInternalState(d)
             target == FlushPlanTarget(d.anchor, d.sibling.target)
             p == RollbackTo([c.dv EXCEPT !.derived = target], RollbackL1(d.anchor))
             s == [c EXCEPT !.sibling = d.sibling, !.dv = p, !.mode = "sync"]
  <2>1. FlushReturns(s) /\ UNCHANGED <<l1, mempool, chain, checkpoint>>
    BY <1>5 DEF FlushDispatch
  <2>2. c \in Drivers /\ c.seen = d.seen /\ c.dv \in CappedPipelines
    BY <1>1, ClearType, DriverFields
  <2>3. d.anchor \in Anchors /\ d.sibling \in Requests /\ d.sibling.target \in L2Number
    BY <1>1, DriverFields DEF Requests
  <2>4. target \in L2Number /\ RollbackL1(d.anchor) \in L1Number
    BY <2>3, RuleTypes
  <2> HIDE DEF c, target
  <2>5. [c.dv EXCEPT !.derived = target] \in CappedPipelines
    BY <2>2, <2>4, PipelineTypes
  <2>6. p \in CappedPipelines
    BY <2>4, <2>5, PipelineTypes
  <2> HIDE DEF p
  <2>7. s \in Drivers /\ s.seen = d.seen
    BY <2>2, <2>3, <2>6 DEF Drivers, Modes
  <2> HIDE DEF s
  <2> QED
    BY <1>1, <1>2, <2>1, <2>7, FlushReturnsTypes
<1>6. CASE FlushStale
  <2> DEFINE n == NumberOf(FrontBlock)
             s == [d EXCEPT !.refresh = n]
  <2>1. d.pending # <<>> /\ UNCHANGED <<l1, mempool, chain, checkpoint>>
        /\ (FlushReturns(d) \/ FlushReturns(s))
    BY <1>6 DEF FlushStale, FrontIsStale
  <2>2. n \in L2Number
    BY <1>1, <2>1, DriverFields, QueueFacts, BlockFacts DEF FrontBlock
  <2> HIDE DEF n
  <2>3. s \in Drivers /\ s.seen = d.seen
    BY <1>1, <2>2 DEF Drivers
  <2> HIDE DEF s
  <2> QED
    BY <1>1, <1>2, <2>1, <2>3, FlushReturnsTypes
<1> QED
  BY <1>3, <1>4, <1>5, <1>6

\* flush_handle_mismatch
LEMMA MismatchTypes ==
  ASSUME Types, \/ FlushMismatchTransient \/ FlushMismatchSibling \/ FlushMismatchRewind
  PROVE  Types'
<1>1. /\ mempool \in SUBSET Txs /\ chain \in Blocks /\ checkpoint \in L1Number /\ d \in Drivers
      /\ work \in Works /\ work.root \in Blocks /\ d.anchor \in Anchors
      /\ d.mismatches \in MismatchCounts /\ d.pending \in Queues
  BY TypeFacts, DriverFields, WorkFields
<1>2. used' \in Spent
  BY SpentType DEF FlushMismatchTransient, FlushMismatchSibling, FlushMismatchRewind
<1> DEFINE reset == [d EXCEPT !.mismatches = 0]
<1>3. Mismatched \in Drivers /\ Mismatched.seen = d.seen
  <2> DEFINE m == Smaller(d.mismatches + 1, MAX_FLUSH_MISMATCHES)
  <2>1. m \in MismatchCounts
    BY <1>1 DEF MismatchCounts, Smaller, MAX_FLUSH_MISMATCHES
  <2>2. Mismatched = [d EXCEPT !.mismatches = m]
    BY DEF Mismatched
  <2> HIDE DEF m
  <2> QED
    BY <1>1, <2>1, <2>2 DEF Drivers
<1>4. reset \in Drivers /\ reset.seen = d.seen
  <2>1. 0 \in MismatchCounts
    BY DEF MismatchCounts, MAX_FLUSH_MISMATCHES
  <2> QED
    BY <1>1, <2>1 DEF Drivers
<1>5. CASE FlushMismatchTransient
  BY <1>1, <1>2, <1>3, <1>5, FlushReturnsTypes DEF FlushMismatchTransient
<1>6. CASE FlushMismatchSibling
  <2> DEFINE request == Request(d.anchor.l2, work.root)
             s == [reset EXCEPT !.sibling = request]
  <2>1. UNCHANGED <<l1, mempool, chain, checkpoint>> /\ (FlushReturns(reset) \/ FlushReturns(s))
    BY <1>6 DEF FlushMismatchSibling
  <2>2. request \in Requests
    BY <1>1, RuleTypes DEF Request, Requests
  <2> HIDE DEF request, reset
  <2>3. s \in Drivers /\ s.seen = d.seen
    BY <1>4, <2>2 DEF Drivers
  <2> HIDE DEF s
  <2> QED
    BY <1>1, <1>2, <1>4, <2>1, <2>3, FlushReturnsTypes
<1>7. CASE FlushMismatchRewind
  <2> DEFINE before == SaturatingPred(NumberOf(FrontBlock))
             target == IF d.anchor = NoAnchor THEN 0
                       ELSE IF d.cycles > 0 THEN before
                       ELSE Larger(before, d.anchor.l2)
             t == IF d.cycles > 0 THEN Mismatched ELSE reset
             s == RewindToReDerive(t, target, RollbackL1(d.anchor))
  <2>1. d.pending # <<>> /\ UNCHANGED <<l1, mempool, chain, checkpoint>> /\ FlushReturns(s)
    BY <1>7 DEF FlushMismatchRewind, Mismatch
  <2>2. before \in L2Number
    BY <1>1, <2>1, QueueFacts, BlockFacts, RuleTypes DEF FrontBlock
  <2> HIDE DEF before
  <2>3. target \in L2Number /\ RollbackL1(d.anchor) \in L1Number
    BY <1>1, <2>2, RuleTypes, InitialValues
  <2>4. t \in Drivers /\ t.seen = d.seen
    BY <1>3, <1>4
  <2> HIDE DEF target, t
  <2>5. s \in Drivers /\ s.seen = d.seen
    BY <2>3, <2>4, ReDeriveType
  <2> HIDE DEF s
  <2> QED
    BY <1>1, <1>2, <2>1, <2>5, FlushReturnsTypes
<1> QED
  BY <1>5, <1>6, <1>7

\* The batch is a front part of the queue.
LEMMA BatchSizeType ==
  ASSUME Types
  PROVE  /\ BatchSize \in 0 .. Len(d.pending) /\ BatchSize <= MAX_BATCH_SIZE
         /\ \A i \in 1 .. BatchSize : ContextOf(d.pending[i]) = ContextOf(FrontBlock)
<1> DEFINE Run(n) == \A i \in 1 .. n : ContextOf(d.pending[i]) = ContextOf(FrontBlock)
           most == Smaller(Len(d.pending), MAX_BATCH_SIZE)
           sizes == {n \in 0 .. most : Run(n)}
<1>1. Len(d.pending) \in Nat
  BY TypeFacts, DriverFields, QueueFacts
<1>2. most \in Nat /\ most <= Len(d.pending) /\ most <= MAX_BATCH_SIZE
  BY <1>1, Bounds DEF Smaller
<1>3. 0 \in sizes
  BY <1>2
<1>4. sizes \in SUBSET Nat /\ \A x \in sizes : x <= most
  BY <1>2
<1>5. BatchSize = CHOOSE n \in sizes : \A m \in sizes : m <= n
  BY DEF BatchSize
<1> HIDE DEF sizes
<1>6. \E x \in sizes : \A y \in sizes : y <= x
  BY <1>2, <1>3, <1>4, LargestNatural
<1>7. BatchSize \in sizes
  BY <1>5, <1>6
<1> QED
  BY <1>1, <1>2, <1>7, Bounds DEF sizes

\* The transaction that is sent.
LEMMA SubmissionType ==
  ASSUME Types
  PROVE  /\ Submission \in Txs
         /\ BatchSize # 0 => NumberOf(Submission.root) \in L2Number
<1>1. /\ d.pending \in Queues /\ d.entries \in Entries /\ Len(l1) \in L1Number
      /\ BatchSize \in 0 .. Len(d.pending) /\ Len(d.pending) \in Nat
  BY TypeFacts, DriverFields, BatchSizeType, QueueFacts
<1>2. Len(d.entries) \in Nat
  BY <1>1 DEF Entries
<1>3. CASE BatchSize = 0
  <2> DEFINE k == Len(d.entries)
             target == Len(l1) + 1
             tx == [NoTx EXCEPT !.ents = d.entries, !.target = target, !.sent = k]
  <2>1. Submission = tx
    BY <1>3 DEF Submission
  <2>2. target \in 0 .. MaxL1 + 1
    BY <1>1, Bounds DEF L1Number
  <2> HIDE DEF target
  <2>3. tx \in Txs
    BY <1>1, <1>2, <2>2, InitialValues DEF Txs, NoTx
  <2> QED
    BY <1>3, <2>1, <2>3
<1>4. CASE BatchSize # 0
  <2> DEFINE k == Len(d.entries)
             root == d.pending[BatchSize]
             first == NumberOf(FrontBlock)
             target == ContextOf(FrontBlock) + 1
             tx == [root |-> root, first |-> first, ents |-> d.entries, target |-> target, sent |-> k]
  <2>1. Submission = tx
    BY <1>4 DEF Submission
  <2>2. BatchSize \in 1 .. Len(d.pending) /\ d.pending # <<>> /\ 1 \in 1 .. Len(d.pending)
    BY <1>1, <1>4
  <2>3. root \in Blocks /\ root # <<>> /\ FrontBlock \in Blocks /\ FrontBlock # <<>>
    BY <1>1, <2>2, QueueFacts DEF FrontBlock
  <2>4. first \in L2Number /\ ContextOf(FrontBlock) \in L1Number
    BY <2>3, BlockFacts
  <2>5. target \in 0 .. MaxL1 + 1
    BY <2>4, Bounds DEF L1Number
  <2> HIDE DEF first, target, root
  <2>6. tx \in Txs
    BY <1>1, <1>2, <2>3, <2>4, <2>5 DEF Txs
  <2>7. NumberOf(root) \in L2Number
    BY <2>3, BlockFacts
  <2> QED
    BY <2>1, <2>6, <2>7
<1> QED
  BY <1>3, <1>4

\* The counters are reset when the pre-root matches.
LEMMA MatchedType ==
  ASSUME NEW s \in Drivers
  PROVE  /\ PreRootMatched(s) \in Drivers /\ PreRootMatched(s).seen = s.seen
         /\ PreRootMatched(s).pending = s.pending /\ PreRootMatched(s).entries = s.entries
<1>1. 0 \in CycleCounts /\ 0 \in MismatchCounts
  BY Bounds DEF CycleCounts, MismatchCounts, MAX_FLUSH_MISMATCHES
<1> QED
  BY <1>1 DEF PreRootMatched, Drivers

\* The submission, and the send that fails
LEMMA SubmitTypes ==
  ASSUME Types, FlushSubmit \/ FlushSendFails
  PROVE  Types'
<1>1. /\ mempool \in SUBSET Txs /\ chain \in Blocks /\ checkpoint \in L1Number /\ d \in Drivers
      /\ d.seen <= Len(l1) /\ work \in Works /\ d.pending \in Queues
  BY TypeFacts, DriverFields
<1>2. used' \in Spent
  BY SpentType DEF FlushSubmit, FlushSendFails
<1> DEFINE m == PreRootMatched(d)
<1>3. m \in Drivers /\ m.seen = d.seen /\ m.pending = d.pending
  BY <1>1, MatchedType
<1>4. CASE FlushSubmit
  <2> DEFINE h == HoldArmed(m)
             hold == IF m.entries # <<>> /\ BatchSize # 0
                     THEN Arm(m.hold, NumberOf(Submission.root)) ELSE m.hold
             rest == SubSeq(d.pending, BatchSize + 1, Len(d.pending))
             s == [h EXCEPT !.pending = rest, !.entries = <<>>]
             blocks == SubSeq(d.pending, 1, BatchSize)
             w == [work EXCEPT !.sent = Submission, !.blocks = blocks]
  <2>1. h = [m EXCEPT !.hold = hold]
    BY DEF HoldArmed
  <2>2. hold \in Holds
    <3>1. m.hold \in Holds
      BY <1>3, DriverFields
    <3>2. BatchSize # 0 => Arm(m.hold, NumberOf(Submission.root)) \in Holds
      BY <3>1, SubmissionType, Bounds DEF Arm, Armed, Holds
    <3> QED
      BY <3>1, <3>2
  <2> HIDE DEF hold, m
  <2>3. h \in Drivers /\ h.seen = d.seen /\ h.pending = d.pending
    BY <1>3, <2>1, <2>2 DEF Drivers
  <2>4. BatchSize \in 0 .. Len(d.pending) /\ Submission \in Txs
    BY BatchSizeType, SubmissionType
  <2>5. rest \in Queues /\ blocks \in Seq(BuiltBlocks) /\ Len(blocks) + Len(rest) = Len(d.pending)
    BY <1>1, <2>4, QueueFacts
  <2>6. Len(d.pending) <= MAX_PENDING_SUBMISSIONS
    BY <1>1, QueueFacts
  <2>7. /\ mempool' = mempool \cup {Submission} /\ work' = w /\ pc' = "wait"
        /\ UNCHANGED <<l1, chain, checkpoint>>
    BY <1>4 DEF FlushSubmit
  <2>8. d' = s
    BY <1>4, <2>3 DEF FlushSubmit, m
  <2> HIDE DEF h, rest, blocks
  <2>9. s \in Drivers /\ s.seen = d.seen /\ s.pending = rest
    BY <2>3, <2>5, InitialValues DEF Drivers
  <2>10. w \in Works /\ w.blocks = blocks
    BY <1>1, <2>4, <2>5 DEF Works
  <2> HIDE DEF s, w
  <2>11. mempool' \in SUBSET Txs
    BY <1>1, <2>4, <2>7
  <2>12. Len(work'.blocks) + Len(d'.pending) <= MAX_PENDING_SUBMISSIONS
    BY <2>5, <2>6, <2>7, <2>8, <2>9, <2>10
  <2> QED
    BY <1>1, <1>2, <2>7, <2>8, <2>9, <2>10, <2>11, <2>12, Assembled DEF Points
<1>5. CASE FlushSendFails
  <2> DEFINE s == [m EXCEPT !.hold = Clear, !.cool = TRUE]
  <2>1. FlushReturns(s) /\ UNCHANGED <<l1, mempool, chain, checkpoint>>
    BY <1>5 DEF FlushSendFails
  <2> HIDE DEF m
  <2>2. s \in Drivers /\ s.seen = d.seen
    BY <1>3, InitialValues DEF Drivers, Flags
  <2> HIDE DEF s
  <2> QED
    BY <1>1, <1>2, <2>1, <2>2, FlushReturnsTypes
<1> QED
  BY <1>4, <1>5

\* The receipt moves the anchor.
LEMMA ConfirmedType ==
  ASSUME Types, Landed
  PROVE  Confirmed \in Drivers /\ Confirmed.seen = d.seen
<1>1. d \in Drivers /\ Sent \in Txs /\ Len(l1) \in L1Number
  BY TypeFacts, WorkFields DEF Sent
<1>2. Sent.root \in Blocks /\ Sent.target \in 0 .. MaxL1 + 1
  BY <1>1 DEF Txs
<1>3. Sent.target \in L1Number
  BY <1>1, <1>2, Bounds DEF Landed, L1Number
<1>4. NumberOf(Sent.root) \in L2Number
  BY <1>2, BlockFacts
<1> DEFINE anchor == [l2 |-> NumberOf(Sent.root), l1 |-> Sent.target]
<1>5. anchor \in Anchors
  BY <1>3, <1>4 DEF Anchors
<1>6. Confirmed = IF Sent.first = 0 THEN d ELSE [d EXCEPT !.anchor = anchor]
  BY DEF Confirmed
<1> HIDE DEF anchor
<1>7. [d EXCEPT !.anchor = anchor] \in Drivers /\ [d EXCEPT !.anchor = anchor].seen = d.seen
  BY <1>1, <1>5 DEF Drivers
<1> QED
  BY <1>1, <1>6, <1>7

\* A rewind to the anchor, or to just before a held block.
LEMMA AnchorRewindType ==
  ASSUME NEW s \in Drivers
  PROVE  /\ RewindToReDerive(s, s.anchor.l2, RollbackL1(s.anchor)) \in Drivers
         /\ RewindToReDerive(s, s.anchor.l2, RollbackL1(s.anchor)).seen = s.seen
         /\ RewindToReDerive(s, PartlyConsumedTarget(s), RollbackL1(s.anchor)) \in Drivers
         /\ RewindToReDerive(s, PartlyConsumedTarget(s), RollbackL1(s.anchor)).seen = s.seen
<1>1. s.anchor \in Anchors /\ s.hold \in Holds
  BY DriverFields
<1>2. s.anchor.l2 \in L2Number /\ RollbackL1(s.anchor) \in L1Number /\ s.hold.block \in L2Number
  BY <1>1, RuleTypes DEF Holds
<1>3. PartlyConsumedTarget(s) \in L2Number
  BY <1>2, RuleTypes DEF PartlyConsumedTarget
<1> QED
  BY <1>2, <1>3, ReDeriveType

\* After the submission
LEMMA OutcomeTypes ==
  ASSUME Types, \/ TriggersNotSent \/ BatchConfirmed \/ BatchPartlyConsumed
                \/ BatchNotConsumed \/ BatchReverted \/ BatchUnknown
  PROVE  Types'
<1>1. /\ mempool \in SUBSET Txs /\ chain \in Blocks /\ checkpoint \in L1Number /\ d \in Drivers
      /\ d.seen <= Len(l1) /\ work \in Works /\ d.pending \in Queues /\ L1Typed
      /\ work.sent \in Txs /\ work.blocks \in Seq(BuiltBlocks)
  BY TypeFacts, DriverFields, WorkFields
<1>2. used' \in Spent
  BY SpentType DEF TriggersNotSent, BatchConfirmed, BatchPartlyConsumed, BatchNotConsumed,
                   BatchReverted, BatchUnknown
<1>3. CASE TriggersNotSent
  <2>1. PICK k \in 0 .. Len(Sent.ents) - 1 :
          mempool' = {IF tx = Sent THEN [tx EXCEPT !.sent = k] ELSE tx : tx \in mempool}
    BY <1>3 DEF TriggersNotSent
  <2>2. k \in Nat
    <3>1. Sent.ents \in Seq(L2Number)
      BY <1>1 DEF Sent, Txs, Entries
    <3> QED
      BY <3>1
  <2>3. \A tx \in Txs : [tx EXCEPT !.sent = k] \in Txs
    BY <2>2 DEF Txs
  <2>4. mempool' \in SUBSET Txs
    BY <1>1, <2>1, <2>3
  <2>5. FlushReturns(RewindToReDerive(d, d.anchor.l2, RollbackL1(d.anchor)))
        /\ UNCHANGED <<l1, chain, checkpoint>>
    BY <1>3 DEF TriggersNotSent
  <2> QED
    BY <1>1, <1>2, <2>4, <2>5, AnchorRewindType, FlushReturnsTypes
<1>4. CASE BatchConfirmed
  <2> DEFINE s == [Confirmed EXCEPT !.hold = Clear]
  <2>1. Landed /\ UNCHANGED <<l1, mempool, chain, checkpoint>>
        /\ (FlushReturns(s) \/ FlushReturns(Confirmed))
    BY <1>4 DEF BatchConfirmed
  <2>2. Confirmed \in Drivers /\ Confirmed.seen = d.seen
    BY <2>1, ConfirmedType
  <2>3. s \in Drivers /\ s.seen = d.seen
    BY <2>2, InitialValues DEF Drivers
  <2> HIDE DEF s
  <2> QED
    BY <1>1, <1>2, <2>1, <2>2, <2>3, FlushReturnsTypes
<1>5. CASE BatchPartlyConsumed
  <2> DEFINE c == Confirmed
  <2>1. Landed /\ UNCHANGED <<l1, mempool, chain, checkpoint>>
        /\ FlushReturns(RewindToReDerive(c, PartlyConsumedTarget(c), RollbackL1(c.anchor)))
    BY <1>5 DEF BatchPartlyConsumed
  <2>2. c \in Drivers /\ c.seen = d.seen
    BY <2>1, ConfirmedType
  <2> HIDE DEF c
  <2> QED
    BY <1>1, <1>2, <2>1, <2>2, AnchorRewindType, FlushReturnsTypes
<1>6. CASE BatchNotConsumed
  <2> DEFINE c == Confirmed
             clear == [c EXCEPT !.hold = Clear]
             request == Request(c.anchor.l2, OnChainRoot)
             asked == [c EXCEPT !.hold = Clear, !.sibling = request]
  <2>1. Landed /\ UNCHANGED <<l1, mempool, chain, checkpoint>>
        /\ (FlushReturns(NothingConsumed(c)) \/ FlushReturns(c))
    BY <1>6 DEF BatchNotConsumed
  <2>2. c \in Drivers /\ c.seen = d.seen
    BY <2>1, ConfirmedType
  <2>3. NothingConsumed(c) \in {c, clear, asked}
    BY DEF NothingConsumed
  <2> HIDE DEF c
  <2>4. request \in Requests
    BY <1>1, <2>2, OnChainRootType, DriverFields, RuleTypes DEF Request, Requests
  <2> HIDE DEF request
  <2>5. clear \in Drivers /\ clear.seen = d.seen
    BY <2>2, InitialValues DEF Drivers
  <2>6. asked \in Drivers /\ asked.seen = d.seen
    BY <2>2, <2>4, InitialValues DEF Drivers
  <2> HIDE DEF clear, asked
  <2>7. NothingConsumed(c) \in Drivers /\ NothingConsumed(c).seen = d.seen
    BY <2>2, <2>3, <2>5, <2>6
  <2> QED
    BY <1>1, <1>2, <2>1, <2>2, <2>7, FlushReturnsTypes
<1>7. CASE BatchReverted
  BY <1>1, <1>2, <1>7, AnchorRewindType, FlushReturnsTypes DEF BatchReverted
<1>8. CASE BatchUnknown
  <2> DEFINE pending == work.blocks \o d.pending
             ents == Sent.ents
             s == [d EXCEPT !.hold = Clear, !.cool = TRUE, !.pending = pending, !.entries = ents]
  <2>1. FlushReturns(s) /\ UNCHANGED <<l1, mempool, chain, checkpoint>>
    BY <1>8 DEF BatchUnknown, Requeued
  <2>2. Len(work.blocks) + Len(d.pending) <= MAX_PENDING_SUBMISSIONS
    BY <1>8 DEF BatchUnknown, Types
  <2>3. pending \in Queues
    <3>1. d.pending \in Seq(BuiltBlocks)
      BY <1>1, QueueFacts
    <3>2. pending \in Seq(BuiltBlocks) /\ Len(pending) = Len(work.blocks) + Len(d.pending)
      BY <1>1, <3>1
    <3> QED
      BY <2>2, <3>2 DEF Queues
  <2>4. ents \in Entries
    BY <1>1 DEF Sent, Txs
  <2> HIDE DEF pending, ents
  <2>5. s \in Drivers /\ s.seen = d.seen
    BY <1>1, <2>3, <2>4, InitialValues DEF Drivers, Flags
  <2> HIDE DEF s
  <2> QED
    BY <1>1, <1>2, <2>1, <2>5, FlushReturnsTypes
<1> QED
  BY <1>3, <1>4, <1>5, <1>6, <1>7, <1>8

-----------------------------------------------------------------------------
(* Restarts and L1 keep the types *)

\* run()
LEMMA RestartTypes ==
  ASSUME Types, RestartNext
  PROVE  Types'
<1>1. /\ mempool \in SUBSET Txs /\ chain \in Blocks /\ checkpoint \in L1Number /\ d \in Drivers
      /\ used \in Spent /\ Len(chain) \in Nat /\ d.dv \in CappedPipelines /\ d.anchor \in Anchors
      /\ Len(l1) \in Nat
  BY TypeFacts, DriverFields
<1>2. checkpoint' \in L1Number
  <2>1. checkpoint' \in {checkpoint, d.dv.processed}
    BY DEF RestartNext, Crash, Shutdown
  <2> QED
    BY <1>1, <2>1, PipelineTypes
<1>3. PICK lost \in Nat : Restart(lost)
  <2>1. Smaller(MaxLost, l2_head_number) \in Nat
    BY <1>1, DriverAssumption DEF Smaller, l2_head_number
  <2> QED
    BY <2>1 DEF RestartNext, Crash, Shutdown
<1> DEFINE n == Len(chain) - lost
           p == Restarted(checkpoint', chain')
           s == [FreshDriver EXCEPT !.anchor = d.anchor, !.dv = p]
<1>4. /\ chain' = SubSeq(chain, 1, n) /\ d' = s /\ pc' = "idle" /\ work' = NoWork
      /\ UNCHANGED <<l1, mempool>> /\ used' = [used EXCEPT !.crashes = @ + 1]
  BY <1>3 DEF Restart, l2_head_number
<1>5. n \in Int /\ n <= Len(chain)
  BY <1>1, <1>3
<1>6. chain' \in Blocks
  BY <1>1, <1>4, <1>5, BlockFacts
<1>7. p \in CappedPipelines
  BY <1>2, <1>6, Bounds, RestartedType DEF CappedPipelines, Blocks, L1Number
<1> HIDE DEF p
<1>8. s \in Drivers /\ s.seen = 0
  BY <1>1, <1>7, InitialValues DEF Drivers, FreshDriver
<1>9. used' \in Spent
  <2>1. used' = [used EXCEPT !.crashes = used.crashes + 1]
    BY <1>4
  <2> QED
    BY <1>1, <2>1 DEF Spent
<1> HIDE DEF s
<1>10. d'.seen <= Len(l1)
  BY <1>1, <1>4, <1>8
<1> QED
  BY <1>1, <1>2, <1>4, <1>6, <1>8, <1>9, <1>10, InitialValues, Assembled DEF Points

\* A new L1 block with a typed batch.
LEMMA MinedTypes ==
  ASSUME Types, NEW batch \in Batches(MaxL1, MaxReorgs, MaxEntries), Consecutive(batch),
         Mined(batch)
  PROVE  Types'
<1> DEFINE B == L1Blocks(MaxL1, MaxReorgs, MaxEntries)
           b == [hash |-> used.reorgs, batch |-> batch]
<1>1. /\ l1' = Append(l1, b) /\ mempool' \subseteq mempool /\ Len(l1) < MaxL1
      /\ UNCHANGED <<chain, checkpoint, d, pc, work, used>>
  BY DEF Mined
<1>2. /\ l1 \in Seq(B) /\ Len(l1) \in Nat /\ mempool \in SUBSET Txs
      /\ \A i \in 1 .. Len(l1) : Consecutive(l1[i].batch)
  BY TypeFacts DEF L1Typed, Chains, L1Chains
<1>3. b \in B
  <2>1. used.reorgs \in 0 .. MaxReorgs
    BY TypeFacts DEF Spent
  <2> QED
    BY <2>1 DEF L1Blocks
<1>4. b.batch = batch
  OBVIOUS
<1> HIDE DEF B, b
<1>5. /\ l1' \in Seq(B) /\ Len(l1') = Len(l1) + 1
      /\ \A i \in 1 .. Len(l1) : l1'[i] = l1[i]
      /\ l1'[Len(l1) + 1] = b
  BY <1>1, <1>2, <1>3
<1>6. l1' \in Chains
  BY <1>1, <1>2, <1>5, Bounds DEF Chains, L1Chains, B
<1>7. \A i \in 1 .. Len(l1') : Consecutive(l1'[i].batch)
  <2>1. \A i \in 1 .. Len(l1') : i \in 1 .. Len(l1) \/ i = Len(l1) + 1
    BY <1>2, <1>5
  <2> QED
    BY <1>2, <1>4, <1>5, <2>1
<1>8. L1Typed'
  BY <1>1, <1>2, <1>6, <1>7 DEF L1Typed
<1>9. d.seen <= Len(l1')
  <2>1. d.seen <= Len(l1) /\ d.seen \in L1Number
    BY TypeFacts, DriverFields
  <2> QED
    BY <1>2, <1>5, <2>1 DEF L1Number
<1> QED
  BY <1>1, <1>8, <1>9 DEF Types, LogsRead

\* The call data and the root of a transaction.
LEMMA IncludedType ==
  ASSUME NEW tx \in Txs, NEW consumed \in 0 .. Consumable(tx)
  PROVE  LET batch == BatchOf(tx, consumed)
         IN  /\ batch \in Batches(MaxL1, MaxReorgs, MaxEntries) /\ Consecutive(batch)
             /\ batch.blocks # <<>> =>
                  /\ tx.first # 0 /\ batch.blocks[1].n = tx.first
                  /\ Last(batch.blocks).n = Len(batch.root)
             /\ tx.first # 0 => Len(batch.root) = Len(tx.root)
<1> DEFINE root == IF tx.first = 0 THEN <<>> ELSE WithEntries(tx.root, consumed)
           blocks == BlocksOf(tx)
           ents == Len(tx.ents)
           batch == [blocks |-> blocks, ents |-> ents, used |-> consumed, root |-> root]
           E == BatchBlocks(MaxL1, MaxEntries)
<1>1. /\ tx.root \in Blocks /\ tx.first \in L2Number /\ tx.ents \in Entries /\ tx.sent \in Nat
      /\ tx.first # 0 => tx.root # <<>>
  BY DEF Txs
<1>2. ents \in Nat /\ Len(tx.root) \in Nat /\ Len(tx.root) <= MaxL1
  BY <1>1 DEF Entries, Blocks, Roots
<1>3. ASSUME tx.first # 0
      PROVE  Last(tx.root).k \in 0 .. MaxEntries /\ Consumable(tx) \in 0 .. Last(tx.root).k
  <2>1. Last(tx.root).k \in 0 .. MaxEntries
    BY <1>1, <1>3, BlockFacts DEF Last
  <2> DEFINE own == {j \in 1 .. Len(tx.ents) : tx.ents[j] = Len(tx.root)}
  <2>2. Cardinality(own) \in Nat
    <3>1. IsFiniteSet(1 .. ents)
      <4> HIDE DEF ents
      <4> QED
        BY <1>2, FS_Interval
    <3>2. own \subseteq 1 .. ents
      OBVIOUS
    <3>3. IsFiniteSet(own)
      BY <3>1, <3>2, FS_Subset
    <3> QED
      BY <3>3, FS_CardinalityType
  <2>3. Consumable(tx) = Smaller(Smaller(Last(tx.root).k, tx.sent), Cardinality(own))
    BY <1>3 DEF Consumable
  <2> HIDE DEF own
  <2> QED
    BY <1>1, <2>1, <2>2, <2>3, Bounds DEF Smaller
<1>4. consumed \in Nat /\ (tx.first # 0 => consumed \in 0 .. MaxEntries)
  BY <1>3, Bounds DEF Consumable
<1>5. root \in Roots(MaxL1, MaxReorgs, MaxEntries) /\ (tx.first # 0 => Len(root) = Len(tx.root))
  <2>1. CASE tx.first = 0
    BY <2>1, InitialValues DEF Blocks
  <2>2. CASE tx.first # 0
    <3>1. /\ [tx.root EXCEPT ![Len(tx.root)].k = consumed] \in Roots(MaxL1, MaxReorgs, MaxEntries)
          /\ Len([tx.root EXCEPT ![Len(tx.root)].k = consumed]) = Len(tx.root)
      <4>1. tx.root \in Roots(MaxL1, MaxReorgs, MaxEntries) /\ consumed \in 0 .. MaxEntries
        BY <1>1, <1>4, <2>2 DEF Blocks
      <4> QED
        BY <4>1, Bounds, RootWithEntries, SMTT(30)
    <3> QED
      BY <2>2, <3>1 DEF WithEntries
  <2> QED
    BY <2>1, <2>2
<1>6. /\ blocks \in Seq(E) /\ \A j \in 1 .. Len(blocks) : blocks[j].n = blocks[1].n + j - 1
      /\ blocks # <<>> => tx.first # 0 /\ blocks[1].n = tx.first /\ Last(blocks).n = Len(tx.root)
  <2>1. CASE tx.first = 0
    <3>1. blocks = <<>>
      BY <2>1 DEF BlocksOf
    <3> QED
      BY <3>1
  <2>2. CASE tx.first # 0
    <3> DEFINE count == Len(tx.root) - tx.first + 1
               block(j) == [n |-> tx.first + j - 1, k |-> tx.root[tx.first + j - 1].k]
    <3>1. blocks = [j \in 1 .. count |-> block(j)]
      BY <2>2 DEF BlocksOf
    <3>2. count \in Int /\ tx.first \in Nat /\ tx.first >= 1
      BY <1>1, <1>2, <2>2, Bounds DEF L2Number
    <3>3. ASSUME NEW j \in 1 .. count PROVE block(j) \in E
      <4>1. tx.first + j - 1 \in 1 .. Len(tx.root) /\ tx.first + j - 1 \in 0 .. MaxL1
        BY <1>2, <3>2, Bounds
      <4>2. tx.root[tx.first + j - 1].k \in 0 .. MaxEntries
        BY <1>1, <4>1, BlockFacts DEF L2Blocks
      <4> QED
        BY <4>1, <4>2 DEF BatchBlocks
    <3>4. \A j \in 1 .. count : block(j).n = tx.first + j - 1
      OBVIOUS
    <3> HIDE DEF block, E
    <3>5. CASE count >= 1
      <4>1. count \in Nat /\ blocks \in Seq(E) /\ Len(blocks) = count
        BY <3>1, <3>2, <3>3, <3>5
      <4>2. \A j \in 1 .. count : blocks[j] = block(j)
        BY <3>1
      <4>3. 1 \in 1 .. count
        BY <3>2, <3>5
      <4>4. blocks[1].n = tx.first
        BY <3>2, <3>4, <4>2, <4>3
      <4>5. \A j \in 1 .. count : blocks[j].n = tx.first + j - 1
        BY <3>4, <4>2
      <4>6. Last(blocks).n = Len(tx.root)
        <5>1. Last(blocks).n = tx.first + count - 1
          BY <3>5, <4>1, <4>5 DEF Last
        <5> QED
          BY <1>2, <3>2, <5>1
      <4> HIDE DEF count
      <4> QED
        BY <2>2, <4>1, <4>4, <4>5, <4>6
    <3>6. CASE count < 1
      <4>1. 1 .. count = {}
        BY <3>2, <3>6
      <4>2. blocks = <<>>
        BY <3>1, <4>1
      <4> QED
        BY <4>2
    <3> QED
      BY <3>2, <3>5, <3>6, SMTT(30)
  <2> QED
    BY <2>1, <2>2
<1> HIDE DEF root, blocks, ents, E
<1>7. batch \in Batches(MaxL1, MaxReorgs, MaxEntries)
  BY <1>2, <1>4, <1>5, <1>6 DEF Batches, E
<1>8. Consecutive(batch)
  BY <1>6 DEF Consecutive
<1>9. batch.blocks # <<>> =>
        tx.first # 0 /\ batch.blocks[1].n = tx.first /\ Last(batch.blocks).n = Len(batch.root)
  BY <1>5, <1>6
<1>10. tx.first # 0 => Len(batch.root) = Len(tx.root)
  BY <1>5
<1> QED
  BY <1>7, <1>8, <1>9, <1>10 DEF root, blocks, ents, BatchOf

\* The batch continues the L1 chain before it: its numbers are above those of
\* the root there, up to the one of its own root.
Continues(before, batch) ==
  batch.blocks # <<>> => /\ batch.blocks[1].n > Len(ContractRoot(before))
                         /\ Last(batch.blocks).n = Len(batch.root)

\* The batch of another builder: its blocks follow the root of L1 and a gap.
LEMMA ForeignType ==
  ASSUME NEW before \in Chains, NEW gap \in 0 .. MaxGap,
         NEW count \in 1 .. MAX_BATCH_SIZE, NEW ents \in 0 .. MaxEntries,
         NEW consumed \in 0 .. ents,
         ForeignFits(before, ForeignBatch(before, gap, count, ents, consumed))
  PROVE  LET batch == ForeignBatch(before, gap, count, ents, consumed)
         IN  /\ batch \in Batches(MaxL1, MaxReorgs, MaxEntries)
             /\ Consecutive(batch) /\ Continues(before, batch)
<1> DEFINE base == ContractRoot(before)
           prev == IF base = <<>> THEN DeploymentInfo
                   ELSE [l1 |-> Last(base).ctx, hash |-> Last(base).hash]
           info == InfoAt(before, Len(before))
           Block(x, k) == [ctx |-> x.l1, hash |-> x.hash, k |-> k]
           first == Len(base) + gap + 1
           skipped == [g \in 1 .. gap |-> Block(prev, 0)]
           own == [j \in 1 .. count |-> Block(info, IF j = count THEN consumed ELSE 0)]
           root == base \o skipped \o own
           blocks == [j \in 1 .. count |-> [n |-> first + j - 1, k |-> IF j = count THEN ents ELSE 0]]
           batch == [blocks |-> blocks, ents |-> ents, used |-> consumed, root |-> root]
           E == L2Blocks(MaxL1, MaxReorgs, MaxEntries)
<1>1. Len(root) <= Len(before)
  BY DEF ForeignFits, ForeignBatch
<1>2. /\ Len(before) \in Nat /\ Len(before) \in L1Number /\ base \in Blocks /\ info \in Contexts
      /\ MaxGap \in Nat
  <2>1. Len(before) \in Nat /\ Len(before) \in L1Number
    BY ChainReads
  <2>2. Len(before) \in 0 .. Len(before)
    BY <2>1
  <2>3. info \in Contexts
    BY <2>1, <2>2, ChainReads
  <2> QED
    BY <2>1, <2>3, ContractRootType, DriverAssumption
<1>3. prev \in Contexts
  <2>1. CASE base = <<>>
    BY <2>1, Bounds DEF DeploymentInfo, Contexts, Infos
  <2>2. CASE base # <<>>
    <3>1. base[Len(base)] \in E
      BY <1>2, <2>2, BlockFacts
    <3> QED
      BY <2>2, <3>1 DEF Last, L2Blocks, Contexts, Infos
  <2> QED
    BY <2>1, <2>2
<1>4. base \in Seq(E) /\ Len(base) \in Nat
  BY <1>2 DEF Blocks, Roots
<1> HIDE DEF base, prev, info
<1>5. \A x \in Contexts, k \in 0 .. MaxEntries : Block(x, k) \in E
  BY DEF Contexts, Infos, L2Blocks
<1> HIDE DEF Block, E
<1>6. 0 \in 0 .. MaxEntries /\ consumed \in 0 .. MaxEntries /\ gap \in Nat /\ count \in Nat /\ count >= 1
      /\ consumed \in Nat /\ ents \in Nat
  BY <1>2, Bounds
<1>7. skipped \in Seq(E) /\ Len(skipped) = gap
  BY <1>3, <1>5, <1>6
<1>8. own \in Seq(E) /\ Len(own) = count
  <2>1. \A j \in 1 .. count : Block(info, IF j = count THEN consumed ELSE 0) \in E
    BY <1>2, <1>5, <1>6
  <2> QED
    BY <1>6, <2>1
<1> HIDE DEF skipped, own
<1>9. root \in Seq(E) /\ Len(root) = Len(base) + gap + count
  <2> DEFINE front == base \o skipped
  <2>1. front \in Seq(E) /\ Len(front) = Len(base) + gap
    BY <1>4, <1>7
  <2> HIDE DEF front
  <2>2. front \o own \in Seq(E) /\ Len(front \o own) = Len(front) + count
    BY <1>8, <2>1
  <2> QED
    BY <2>1, <2>2 DEF front
<1> HIDE DEF root
<1>10. root \in Roots(MaxL1, MaxReorgs, MaxEntries)
  <2>1. Len(before) <= MaxL1
    BY <1>2, Bounds DEF L1Number
  <2>2. Len(root) <= MaxL1
    BY <1>1, <1>2, <1>4, <1>6, <1>9, <2>1, Bounds
  <2> QED
    BY <1>9, <2>2 DEF Roots, E
<1>11. Len(base) + gap + count <= MaxL1
  BY <1>1, <1>2, <1>4, <1>6, <1>9, Bounds DEF L1Number
<1>12. blocks \in Seq(BatchBlocks(MaxL1, MaxEntries)) /\ Len(blocks) = count
       /\ \A j \in 1 .. count : blocks[j].n = first + j - 1
  <2> DEFINE block(j) == [n |-> first + j - 1, k |-> IF j = count THEN ents ELSE 0]
  <2>1. ASSUME NEW j \in 1 .. count PROVE block(j) \in BatchBlocks(MaxL1, MaxEntries)
    <3>1. first + j - 1 \in 0 .. MaxL1
      BY <1>4, <1>6, <1>11, Bounds
    <3> QED
      BY <1>6, <3>1 DEF BatchBlocks
  <2>2. \A j \in 1 .. count : block(j).n = first + j - 1
    OBVIOUS
  <2>3. blocks = [j \in 1 .. count |-> block(j)]
    OBVIOUS
  <2> HIDE DEF block, blocks
  <2> QED
    BY <1>6, <2>1, <2>2, <2>3
<1>13. /\ \A j \in 1 .. Len(blocks) : blocks[j].n = blocks[1].n + j - 1
       /\ blocks[1].n > Len(base) /\ Last(blocks).n = Len(root)
  <2>1. first \in Nat /\ first > Len(base) /\ first + count - 1 = Len(base) + gap + count
    BY <1>4, <1>6
  <2>2. 1 \in 1 .. count /\ count \in 1 .. count
    BY <1>6
  <2> HIDE DEF blocks, first
  <2>3. blocks[1].n = first
    BY <1>12, <2>1, <2>2
  <2>4. Last(blocks).n = first + count - 1
    BY <1>12, <2>2 DEF Last
  <2> QED
    BY <1>9, <1>12, <2>1, <2>3, <2>4
<1> HIDE DEF blocks
<1>14. batch \in Batches(MaxL1, MaxReorgs, MaxEntries) /\ Consecutive(batch)
  BY <1>6, <1>10, <1>12, <1>13 DEF Batches, Consecutive
<1>15. Continues(before, batch)
  BY <1>13 DEF Continues, base
<1>16. batch = ForeignBatch(before, gap, count, ents, consumed)
  BY DEF ForeignBatch, base, prev, info, Block, skipped, own, root, blocks
<1> HIDE DEF batch
<1> QED
  BY <1>14, <1>15, <1>16

\* The new fork before its batch.
LEMMA ForkType ==
  ASSUME Types, NEW i \in 1 .. Len(l1), used.reorgs < MaxReorgs
  PROVE  Fork(i) \in SeenChains /\ Len(Fork(i)) = Len(l1)
<1> DEFINE B == L1Blocks(MaxL1, MaxReorgs, MaxEntries)
           new(j) == IF j < i THEN l1[j] ELSE [hash |-> used.reorgs + 1, batch |-> NoBatch]
           f == Fork(i)
<1>1. /\ l1 \in Seq(B) /\ Len(l1) \in Nat /\ Len(l1) <= MaxL1 /\ used \in Spent
      /\ \A j \in 1 .. Len(l1) : Consecutive(l1[j].batch)
  BY TypeFacts DEF L1Typed, Chains, L1Chains
<1>2. used.reorgs + 1 \in 0 .. MaxReorgs
  <2> DEFINE spent == used.reorgs
  <2>1. spent \in 0 .. MaxReorgs /\ spent < MaxReorgs /\ MaxReorgs \in Nat
    BY <1>1, Bounds DEF Spent
  <2> HIDE DEF spent
  <2>2. spent + 1 \in 0 .. MaxReorgs
    BY <2>1
  <2> QED
    BY <2>2 DEF spent
<1>3. Consecutive(NoBatch)
  BY DEF Consecutive, NoBatch
<1>4. f = [j \in 1 .. Len(l1) |-> new(j)]
  BY DEF Fork
<1>5. [hash |-> used.reorgs + 1, batch |-> NoBatch] \in B
  BY <1>2, InitialValues DEF L1Blocks
<1> HIDE DEF B, f
<1>6. ASSUME NEW j \in 1 .. Len(l1) PROVE new(j) \in B /\ Consecutive(new(j).batch)
  BY <1>1, <1>3, <1>5
<1> HIDE DEF new
<1>7. f \in Seq(B) /\ Len(f) = Len(l1) /\ \A j \in 1 .. Len(l1) : f[j] = new(j)
  BY <1>1, <1>4, <1>6
<1>8. f \in Chains
  BY <1>1, <1>7 DEF Chains, L1Chains, B
<1> QED
  BY <1>6, <1>7, <1>8 DEF SeenChains, f

\* A reorg replaces a suffix of L1.
LEMMA L1ReorgTypes ==
  ASSUME Types, NEW i \in 1 .. Len(l1), NEW at \in i .. Len(l1),
         NEW batch \in Batches(MaxL1, MaxReorgs, MaxEntries), Consecutive(batch),
         L1Reorg(i, at, batch)
  PROVE  Types'
<1> DEFINE B == L1Blocks(MaxL1, MaxReorgs, MaxEntries)
           f == Fork(i)
           block == [f[at] EXCEPT !.batch = batch]
<1>1. /\ l1' = [f EXCEPT ![at].batch = batch]
      /\ mempool' \subseteq mempool /\ UNCHANGED <<chain, checkpoint, d, pc, work>>
      /\ used' = [used EXCEPT !.reorgs = used.reorgs + 1] /\ used.reorgs < MaxReorgs
  BY DEF L1Reorg
<1>2. f \in SeenChains /\ Len(f) = Len(l1)
  BY <1>1, ForkType
<1>3. /\ Len(l1) \in Nat /\ mempool \in SUBSET Txs /\ used \in Spent /\ at \in 1 .. Len(l1)
      /\ d.seen <= Len(l1)
  BY TypeFacts
<1>4. used' \in Spent
  <2> DEFINE spent == used.reorgs
  <2>1. spent \in 0 .. MaxReorgs /\ spent < MaxReorgs /\ MaxReorgs \in Nat
    BY <1>1, <1>3, Bounds DEF Spent
  <2> HIDE DEF spent
  <2>2. spent + 1 \in 0 .. MaxReorgs
    BY <2>1
  <2>3. used' = [used EXCEPT !.reorgs = spent + 1]
    BY <1>1 DEF spent
  <2> QED
    BY <1>3, <2>2, <2>3 DEF Spent
<1>5. f \in Seq(B) /\ Len(f) <= MaxL1 /\ \A j \in 1 .. Len(f) : Consecutive(f[j].batch)
  BY <1>2 DEF SeenChains, Chains, L1Chains
<1> HIDE DEF f
<1>6. f[at] \in B
  <2> HIDE DEF B
  <2> QED
    BY <1>2, <1>3, <1>5
<1>7. block \in B /\ block.batch = batch
  BY <1>6 DEF L1Blocks
<1>8. l1' = [f EXCEPT ![at] = block]
  BY <1>1, <1>3, <1>2
<1> HIDE DEF block, B
<1>9. /\ l1' \in Seq(B) /\ Len(l1') = Len(l1) /\ l1'[at] = block
      /\ \A j \in 1 .. Len(l1) : j # at => l1'[j] = f[j]
  BY <1>2, <1>3, <1>5, <1>7, <1>8
<1>10. l1' \in Chains
  BY <1>2, <1>5, <1>9 DEF Chains, L1Chains, B
<1>11. \A j \in 1 .. Len(l1') : Consecutive(l1'[j].batch)
  <2>1. ASSUME NEW j \in 1 .. Len(l1') PROVE Consecutive(l1'[j].batch)
    <3>1. CASE j = at
      <4>1. l1'[j].batch = batch
        BY <1>7, <1>9, <3>1
      <4> QED
        BY <4>1
    <3>2. CASE j # at
      <4>1. l1'[j] = f[j] /\ j \in 1 .. Len(f)
        BY <1>2, <1>9, <3>2
      <4> QED
        BY <1>5, <4>1
    <3> QED
      BY <3>1, <3>2
  <2> QED
    BY <2>1
<1>12. L1Typed'
  BY <1>1, <1>3, <1>10, <1>11 DEF L1Typed
<1>13. d.seen <= Len(l1')
  BY <1>3, <1>9
<1> QED
  BY <1>1, <1>4, <1>12, <1>13 DEF Types, LogsRead

\* Any of the reorganisations L1 may go through.
LEMMA L1ReorgsTypes ==
  ASSUME Types, NEW i \in 1 .. Len(l1), L1Reorgs(i)
  PROVE  Types'
<1>1. CASE L1Reorg(i, i, NoBatch)
  <2>1. Consecutive(NoBatch) /\ i \in i .. Len(l1)
    BY TypeFacts DEF Consecutive, NoBatch
  <2> QED
    BY <1>1, <2>1, InitialValues, L1ReorgTypes
<1>2. ASSUME NEW tx \in mempool, NEW consumed \in 0 .. Consumable(tx),
             L1Reorg(i, i, BatchOf(tx, consumed))
      PROVE  Types'
  <2>1. tx \in Txs /\ i \in i .. Len(l1)
    BY TypeFacts
  <2> DEFINE batch == BatchOf(tx, consumed)
  <2>2. batch \in Batches(MaxL1, MaxReorgs, MaxEntries) /\ Consecutive(batch)
    BY <2>1, IncludedType
  <2>3. L1Reorg(i, i, batch)
    BY <1>2
  <2> HIDE DEF batch
  <2> QED
    BY <2>1, <2>2, <2>3, L1ReorgTypes
<1>3. ASSUME NEW at \in i .. Len(l1), NEW gap \in 0 .. MaxGap,
             NEW count \in 1 .. MAX_BATCH_SIZE, NEW ents \in 0 .. MaxEntries,
             NEW consumed \in 0 .. ents, NEW before, before = SubSeq(Fork(i), 1, at - 1),
             ForeignFits(before, ForeignBatch(before, gap, count, ents, consumed)),
             L1Reorg(i, at, ForeignBatch(before, gap, count, ents, consumed))
      PROVE  Types'
  <2> DEFINE batch == ForeignBatch(before, gap, count, ents, consumed)
  <2>1. before \in Chains
    <3>1. used.reorgs < MaxReorgs
      BY <1>3 DEF L1Reorg
    <3>2. at - 1 \in 0 .. Len(l1)
      BY TypeFacts
    <3> QED
      BY <1>3, <3>1, <3>2, ForkType, PrefixSeen DEF SeenChains
  <2>2. batch \in Batches(MaxL1, MaxReorgs, MaxEntries) /\ Consecutive(batch)
    BY <1>3, <2>1, ForeignType
  <2>3. L1Reorg(i, at, batch)
    BY <1>3
  <2> HIDE DEF batch
  <2> QED
    BY <2>2, <2>3, L1ReorgTypes
<1> QED
  BY <1>1, <1>2, <1>3 DEF L1Reorgs

\* What happens on L1
LEMMA L1Types ==
  ASSUME Types, L1Next
  PROVE  Types'
<1>1. CASE L1Mine
  <2>1. Consecutive(NoBatch)
    BY DEF Consecutive, NoBatch
  <2> QED
    BY <1>1, <2>1, InitialValues, MinedTypes DEF L1Mine
<1>2. ASSUME NEW tx \in mempool, NEW consumed \in 0 .. Consumable(tx), L1Include(tx, consumed)
      PROVE  Types'
  <2> DEFINE batch == BatchOf(tx, consumed)
  <2>1. tx \in Txs
    BY TypeFacts
  <2>2. batch \in Batches(MaxL1, MaxReorgs, MaxEntries) /\ Consecutive(batch)
    BY <2>1, IncludedType
  <2>3. Mined(batch)
    BY <1>2 DEF L1Include
  <2> HIDE DEF batch
  <2> QED
    BY <2>2, <2>3, MinedTypes
<1>3. ASSUME NEW gap \in 0 .. MaxGap, NEW count \in 1 .. MAX_BATCH_SIZE,
             NEW ents \in 0 .. MaxEntries, NEW consumed \in 0 .. ents,
             L1ForeignBatch(ForeignBatch(l1, gap, count, ents, consumed))
      PROVE  Types'
  <2> DEFINE batch == ForeignBatch(l1, gap, count, ents, consumed)
  <2>1. ForeignFits(l1, batch) /\ Mined(batch) /\ l1 \in Chains
    BY <1>3, TypeFacts DEF L1ForeignBatch, L1Typed
  <2>2. batch \in Batches(MaxL1, MaxReorgs, MaxEntries) /\ Consecutive(batch)
    BY <2>1, ForeignType
  <2> HIDE DEF batch
  <2> QED
    BY <2>1, <2>2, MinedTypes
<1>4. ASSUME NEW i \in 1 .. Len(l1), L1Reorgs(i)
      PROVE  Types'
  BY <1>4, L1ReorgsTypes
<1> QED
  BY <1>1, <1>2, <1>3, <1>4 DEF L1Next

-----------------------------------------------------------------------------
(* The theorem *)

\* The initial state
LEMMA InitTypes == Init => Types
<1> SUFFICES ASSUME Init PROVE Types
  OBVIOUS
<1>2. L1Typed
  <2>1. l1 = <<>> /\ mempool = {}
    BY DEF Init
  <2>2. l1 \in Chains /\ Len(l1) = 0
    BY <2>1, Bounds DEF Chains, L1Chains
  <2> QED
    BY <2>1, <2>2 DEF L1Typed
<1>3. used \in Spent
  BY Bounds DEF Init, Spent
<1>4. d.seen = 0 /\ Len(l1) = 0
  BY DEF Init, FreshDriver
<1> QED
  BY <1>2, <1>3, <1>4, InitialValues DEF Init, Types, Points, LogsRead

\* A stuttering step
LEMMA StutterTypes ==
  ASSUME Types, UNCHANGED vars
  PROVE  Types'
  BY DEF Types, L1Typed, LogsRead, vars

\* Every step
LEMMA NextTypes ==
  ASSUME Types, [Next]_vars
  PROVE  Types'
<1>1. CASE L1Next
  BY <1>1, L1Types
<1>2. CASE StepNext
  BY <1>2, RewindTypes, RefreshTypes, ReorgTypes, DeriveTypes, SyncTypes, VerifyTypes, TickTypes,
     BuildTypes DEF StepNext
<1>3. CASE FlushNext
  BY <1>3, PrecheckTypes, MismatchTypes, SubmitTypes, OutcomeTypes DEF FlushNext
<1>4. CASE RestartNext
  BY <1>4, RestartTypes
<1>5. CASE UNCHANGED vars
  BY <1>5, StutterTypes
<1> QED
  BY <1>1, <1>2, <1>3, <1>4, <1>5 DEF Next

\* The invariant gives the types the model states.
LEMMA TypesGiveTypeOK == Types => TypeOK
<1> SUFFICES ASSUME Types PROVE TypeOK
  OBVIOUS
<1>2. L2Blocks(MaxL1, MaxReorgs, MaxEntries) = [ctx : L1Number, hash : Hash, k : 0 .. MaxEntries]
  BY DEF L2Blocks, L1Number, Hash
<1>3. Blocks \subseteq Root /\ BuiltBlocks \subseteq Root
  BY <1>2 DEF Blocks, Roots, Root, BuiltBlocks
<1>4. \A r \in Seq(BuiltBlocks) : r \in Seq(Root)
  <2> HIDE DEF Root
  <2> QED
    BY <1>3
<1>5. Infos(MaxL1, MaxReorgs) = Info
  BY DEF Infos, Info, L1Number, Hash
<1>6. Metas(MaxL1, MaxReorgs) = [n : L2Number, l1 : L1Number, hash : Hash]
  BY DEF Metas, L1Number, L2Number, Hash
<1>7. Pipelines(MaxL1, MaxReorgs) = Pipeline
  BY <1>5, <1>6 DEF Pipelines, Pipeline, L1Number, L2Number
<1>8. CappedPipelines \subseteq Pipeline /\ \A p \in CappedPipelines : Len(p.cursor) <= 2 * REORG_CHECK_DEPTH
  BY <1>7 DEF CappedPipelines
<1>9. BatchBlocks(MaxL1, MaxEntries) = [n : L2Number, k : 0 .. MaxEntries]
  BY DEF BatchBlocks, L2Number
<1>10. Batches(MaxL1, MaxReorgs, MaxEntries) \subseteq Batch
  <2> HIDE DEF Root
  <2>1. Roots(MaxL1, MaxReorgs, MaxEntries) \subseteq Root
    BY <1>3 DEF Blocks
  <2> QED
    BY <1>9, <2>1 DEF Batches, Batch
<1>11. L1Blocks(MaxL1, MaxReorgs, MaxEntries) \subseteq [hash : Hash, batch : Batch]
  <2> HIDE DEF Batch
  <2> QED
    BY <1>10 DEF L1Blocks, Hash
<1>12. Txs \subseteq Tx
  <2> HIDE DEF Root
  <2> QED
    BY <1>3 DEF Txs, Tx, Entries
<1>13. \A c \in Chains : c \in L1Chain /\ Len(c) <= MaxL1
  <2> TAKE c \in Chains
  <2>1. c \in Seq(L1Blocks(MaxL1, MaxReorgs, MaxEntries)) /\ Len(c) <= MaxL1
    BY DEF Chains, L1Chains
  <2> DEFINE X == L1Blocks(MaxL1, MaxReorgs, MaxEntries)
             Y == [hash : Hash, batch : Batch]
  <2>2. X \subseteq Y
    BY <1>11
  <2> HIDE DEF X, Y
  <2>3. c \in Seq(Y)
    BY <2>1, <2>2 DEF X
  <2> QED
    BY <2>1, <2>3 DEF Y, L1Chain
<1>14. \A tx \in mempool : tx \in Tx
  BY <1>12 DEF Types, L1Typed
<1>15. chain \in Root /\ checkpoint \in L1Number /\ d \in Drivers /\ work \in Works /\ pc \in Points
  BY <1>3 DEF Types
<1>20. l1 \in L1Chain /\ Len(l1) <= MaxL1 /\ work.logs \in L1Chain
  <2>1. l1 \in Chains /\ work.logs \in Chains
    BY <1>15, WorkFields DEF Types, L1Typed, SeenChains
  <2> QED
    BY <1>13, <2>1
<1>16. /\ Len(d.pending) <= MAX_PENDING_SUBMISSIONS /\ Len(d.dv.cursor) <= 2 * REORG_CHECK_DEPTH
  BY <1>8, <1>15, DriverFields, QueueFacts
<1>17. /\ work.next \in Pipeline /\ work.sent \in Tx /\ work.root \in Root /\ work.blocks \in Seq(Root)
  BY <1>3, <1>4, <1>8, <1>12, <1>15, WorkFields
<1>18. Queues \subseteq Seq(Root) /\ Requests \subseteq [target : L2Number, root : Root]
  <2> HIDE DEF Root
  <2> QED
    BY <1>3, <1>4 DEF Queues, Requests
<1>19. d \in [mode : {"sync", "builder", "fullnode"}, pending : Seq(Root),
              entries : Seq(L2Number),
              hold : [state : {"clear", "armed"}, block : L2Number,
                      deferrals : 0 .. MAX_ENTRY_VERIFY_DEFERRALS - 1],
              anchor : [l2 : L2Number, l1 : L1Number],
              rewind : {None} \cup L2Number,
              sibling : [target : L2Number, root : Root],
              refresh : L2Number, ceiling : L2Number,
              mismatches : 0 .. MAX_FLUSH_MISMATCHES,
              cycles : 0 .. REORG_SAFETY_THRESHOLD,
              seen : L1Number, cool : BOOLEAN, dv : Pipeline]
  <2> DEFINE Q == Seq(Root)
             R == [target : L2Number, root : Root]
  <2>1. Queues \subseteq Q /\ Requests \subseteq R
    BY <1>18
  <2> HIDE DEF Q, R, Pipeline
  <2>2. d \in [mode : Modes, pending : Q, entries : Entries, hold : Holds, anchor : Anchors,
               rewind : Targets, sibling : R, refresh : L2Number, ceiling : L2Number,
               mismatches : MismatchCounts, cycles : CycleCounts, seen : L1Number, cool : Flags,
               dv : Pipeline]
    BY <1>8, <1>15, <2>1 DEF Drivers
  <2> QED
    BY <2>2 DEF Modes, Entries, Holds, Anchors, Targets, MismatchCounts, CycleCounts, Flags, Q, R
<1> QED
  BY <1>14, <1>15, <1>16, <1>17, <1>19, <1>20 DEF TypeOK, Points

\* driver/mod.rs, derivation.rs: through every rewind, reorg, restart and failed
\* step the driver's fields, the pipeline's cursor and the locals of a step keep
\* their types: the counters stay within their limits, the numbers of pending
\* and derived blocks stay numbers of blocks that exist, and no field of one
\* record is lost in an update of another.
THEOREM DriverTypeCorrect == Spec => []TypeOK
<1>1. Spec => []Types
  BY InitTypes, NextTypes, PTL DEF Spec
<1> QED
  BY <1>1, TypesGiveTypeOK, PTL

-----------------------------------------------------------------------------
(* What waits for submission is in the local chain *)

\* Every block of a queue is a block of the chain c.
AllOn(queue, c) == \A i \in 1 .. Len(queue) : IsPrefix(queue[i], c)

\* The points of step() that only a node out of sync mode reaches.
Live == {"tick", "build", "flush", "check", "wait"}

\* As long as no call failed: in sync mode nothing is queued; the phases of
\* step() fit the mode; a refresh is asked for only between two steps, of a
\* block that exists; and the queued blocks, those of a batch in flight
\* included, are blocks of the chain.
Kept ==
  /\ d.mode = "sync" => d.pending = <<>>
  /\ pc = "sync" => d.mode = "sync"
  /\ pc = "verify" /\ d.mode = "sync" => d.rewind # None
  /\ pc \in Live => d.mode # "sync"
  /\ d.refresh # 0 => /\ d.mode # "sync" /\ pc \in {"idle", "refresh"}
                      /\ d.refresh <= Len(chain)
  /\ AllOn(d.pending, chain)
  /\ pc = "wait" => AllOn(work.blocks, chain)

\* The inductive invariant
LocalInv == Types /\ IInv /\ (used.faults = 0 => Kept)

\* The empty queue
LEMMA NothingQueued == \A c : AllOn(<<>>, c)
  BY DEF AllOn

\* A prefix, position by position.
LEMMA PrefixFacts ==
  ASSUME NEW E, NEW r \in Seq(E), NEW c \in Seq(E)
  PROVE  IsPrefix(r, c) <=> Len(r) <= Len(c) /\ \A x \in 1 .. Len(r) : r[x] = c[x]
<1>1. Len(r) \in Nat /\ Len(c) \in Nat
  OBVIOUS
<1>2. ASSUME Len(r) <= Len(c)
      PROVE  SubSeq(r, 1, Len(r)) = SubSeq(c, 1, Len(r)) <=> \A x \in 1 .. Len(r) : r[x] = c[x]
  <2> DEFINE a == SubSeq(r, 1, Len(r))
             b == SubSeq(c, 1, Len(r))
  <2>1. a \in Seq(E) /\ Len(a) = Len(r) /\ b \in Seq(E) /\ Len(b) = Len(r)
    BY <1>1, <1>2
  <2>2. \A x \in 1 .. Len(r) : a[x] = r[x] /\ b[x] = c[x]
    BY <1>1, <1>2
  <2> HIDE DEF a, b
  <2>3. (\A x \in 1 .. Len(r) : a[x] = b[x]) => a = b
    BY <2>1
  <2>4. a = b <=> \A x \in 1 .. Len(r) : r[x] = c[x]
    BY <2>2, <2>3
  <2> QED
    BY <2>4 DEF a, b
<1> QED
  BY <1>1, <1>2 DEF IsPrefix

\* Blocks of a chain stay blocks of it when it grows, and are not above it.
LEMMA PrefixGrows ==
  ASSUME NEW r \in Blocks, NEW c \in Blocks, NEW b \in L2Blocks(MaxL1, MaxReorgs, MaxEntries)
  PROVE  /\ IsPrefix(r, c) => IsPrefix(r, Append(c, b)) /\ NumberOf(r) <= Len(c)
         /\ IsPrefix(Append(c, b), Append(c, b)) /\ IsPrefix(c, c)
<1> DEFINE E == L2Blocks(MaxL1, MaxReorgs, MaxEntries)
<1>1. r \in Seq(E) /\ c \in Seq(E) /\ Append(c, b) \in Seq(E)
  BY DEF Blocks, Roots
<1> HIDE DEF E
<1>2. /\ Len(Append(c, b)) = Len(c) + 1 /\ Len(c) \in Nat /\ Len(r) \in Nat
      /\ \A x \in 1 .. Len(c) : Append(c, b)[x] = c[x]
  BY <1>1
<1>3. /\ IsPrefix(Append(c, b), Append(c, b)) /\ IsPrefix(c, c)
  BY <1>2 DEF IsPrefix
<1>4. ASSUME IsPrefix(r, c) PROVE IsPrefix(r, Append(c, b)) /\ NumberOf(r) <= Len(c)
  <2>1. Len(r) <= Len(c) /\ \A x \in 1 .. Len(r) : r[x] = c[x]
    BY <1>1, <1>4, PrefixFacts
  <2>2. Len(r) <= Len(Append(c, b)) /\ \A x \in 1 .. Len(r) : r[x] = Append(c, b)[x]
    BY <1>2, <2>1
  <2> QED
    BY <1>1, <2>1, <2>2, PrefixFacts DEF NumberOf
<1> QED
  BY <1>3, <1>4

\* A queue on a chain is on the chain that grew.
LEMMA AllOnGrows ==
  ASSUME NEW q \in Seq(BuiltBlocks), NEW c \in Blocks, AllOn(q, c),
         NEW b \in L2Blocks(MaxL1, MaxReorgs, MaxEntries)
  PROVE  AllOn(q, Append(c, b))
<1>1. \A i \in 1 .. Len(q) : q[i] \in BuiltBlocks
  OBVIOUS
<1>2. \A i \in 1 .. Len(q) : q[i] \in Blocks
  BY <1>1 DEF BuiltBlocks
<1> QED
  BY <1>2, PrefixGrows DEF AllOn

\* The parts of a queue, and two queues together.
LEMMA AllOnParts ==
  ASSUME NEW q \in Seq(BuiltBlocks), NEW c, AllOn(q, c)
  PROVE  /\ \A n \in 0 .. Len(q) : AllOn(SubSeq(q, 1, n), c) /\ AllOn(SubSeq(q, n + 1, Len(q)), c)
         /\ \A p \in Seq(BuiltBlocks) : AllOn(p, c) => AllOn(p \o q, c)
         /\ \A r \in BuiltBlocks : IsPrefix(r, c) => AllOn(Append(q, r), c)
<1>1. Len(q) \in Nat
  OBVIOUS
<1>2. ASSUME NEW n \in 0 .. Len(q)
      PROVE  AllOn(SubSeq(q, 1, n), c) /\ AllOn(SubSeq(q, n + 1, Len(q)), c)
  <2>1. /\ Len(SubSeq(q, 1, n)) = n /\ \A i \in 1 .. n : SubSeq(q, 1, n)[i] = q[i]
    BY <1>1
  <2>2. /\ Len(SubSeq(q, n + 1, Len(q))) = Len(q) - n
        /\ \A i \in 1 .. Len(q) - n : SubSeq(q, n + 1, Len(q))[i] = q[n + i]
    BY <1>1
  <2>3. AllOn(SubSeq(q, 1, n), c)
    <3>1. \A i \in 1 .. n : i \in 1 .. Len(q)
      BY <1>1
    <3> QED
      BY <2>1, <3>1 DEF AllOn
  <2>4. AllOn(SubSeq(q, n + 1, Len(q)), c)
    <3>1. \A i \in 1 .. Len(q) - n : n + i \in 1 .. Len(q)
      BY <1>1
    <3> QED
      BY <2>2, <3>1 DEF AllOn
  <2> QED
    BY <2>3, <2>4
<1>3. ASSUME NEW p \in Seq(BuiltBlocks), AllOn(p, c) PROVE AllOn(p \o q, c)
  <2>1. /\ Len(p) \in Nat /\ Len(p \o q) = Len(p) + Len(q)
        /\ \A i \in 1 .. Len(p) : (p \o q)[i] = p[i]
        /\ \A i \in Len(p) + 1 .. Len(p) + Len(q) : (p \o q)[i] = q[i - Len(p)]
    BY ConcatElements
  <2>2. \A i \in 1 .. Len(p) + Len(q) :
          i \in 1 .. Len(p) \/ (i \in Len(p) + 1 .. Len(p) + Len(q) /\ i - Len(p) \in 1 .. Len(q))
    BY <1>1, <2>1
  <2> QED
    BY <1>3, <2>1, <2>2 DEF AllOn
<1>4. ASSUME NEW r \in BuiltBlocks, IsPrefix(r, c) PROVE AllOn(Append(q, r), c)
  <2>1. /\ Len(Append(q, r)) = Len(q) + 1 /\ Append(q, r)[Len(q) + 1] = r
        /\ \A i \in 1 .. Len(q) : Append(q, r)[i] = q[i]
    OBVIOUS
  <2>2. \A i \in 1 .. Len(q) + 1 : i \in 1 .. Len(q) \/ i = Len(q) + 1
    BY <1>1
  <2> QED
    BY <1>4, <2>1, <2>2 DEF AllOn
<1> QED
  BY <1>2, <1>3, <1>4

\* What is left of the fields by the operators that schedule a rewind.
Rewinds(r, s) ==
  r.mode = "sync" /\ r.pending = <<>> /\ r.rewind # None /\ r.refresh = s.refresh

\* set_rewind_target schedules one.
LEMMA Schedules ==
  ASSUME NEW s \in Drivers, NEW n \in L2Number, s.mode = "sync", s.pending = <<>>
  PROVE  Rewinds(SetRewindTarget(s, n), s)
<1>1. LowerTarget(s.rewind, n) \in L2Number
  BY DriverFields, RuleTypes
<1>2. LowerTarget(s.rewind, n) # None
  BY <1>1 DEF L2Number, None
<1> QED
  BY <1>2 DEF SetRewindTarget, Rewinds, Drivers

\* The paths that schedule one
LEMMA ReDeriveRewinds ==
  ASSUME NEW s \in Drivers, NEW target \in L2Number, NEW rollback \in L1Number
  PROVE  Rewinds(RewindToReDerive(s, target, rollback), s)
<1> DEFINE c == ClearInternalState(s)
           p == [RollbackTo(c.dv, rollback) EXCEPT !.derived = target]
           rolled == [c EXCEPT !.dv = p, !.mode = "sync"]
           t == CountCycle(rolled)
<1>1. c \in Drivers /\ c.pending = <<>> /\ c.refresh = s.refresh
  BY ClearType DEF ClearInternalState, Drivers
<1>2. p \in CappedPipelines
  BY <1>1, DriverFields, PipelineTypes
<1>3. RewindToReDerive(s, target, rollback) = SetRewindTarget(t, target)
  BY DEF RewindToReDerive
<1> HIDE DEF c, p
<1>4. rolled \in Drivers /\ rolled.mode = "sync" /\ rolled.pending = <<>> /\ rolled.refresh = s.refresh
  BY <1>1, <1>2 DEF Drivers, Modes
<1> HIDE DEF rolled
<1>5. t \in Drivers
  BY <1>4, CountType
<1>6. t.mode = "sync" /\ t.pending = <<>> /\ t.refresh = s.refresh
  BY <1>4 DEF CountCycle, Drivers
<1> HIDE DEF t
<1>7. Rewinds(SetRewindTarget(t, target), t)
  BY <1>5, <1>6, Schedules
<1> QED
  BY <1>3, <1>6, <1>7 DEF Rewinds

\* apply_sibling_reorg_plan is a rewind of the driver.
LEMMA PlanRewinds ==
  ASSUME NEW s \in Drivers, NEW n \in L2Number, NEW root \in Blocks
  PROVE  Rewinds(ApplySiblingReorgPlan(s, n, root), s)
<1> DEFINE c == ClearInternalState(s)
           target == VerifyPlanTarget(s.anchor, n)
           p == RollbackTo([c.dv EXCEPT !.derived = target], RollbackL1(s.anchor))
           request == Request(n, root)
           planned == [c EXCEPT !.sibling = request, !.dv = p, !.mode = "sync"]
<1>1. c \in Drivers /\ c.pending = <<>> /\ c.refresh = s.refresh
  BY ClearType DEF ClearInternalState, Drivers
<1>2. s.anchor \in Anchors /\ target \in L2Number /\ RollbackL1(s.anchor) \in L1Number
  BY DriverFields, RuleTypes
<1>3. p \in CappedPipelines
  <2>1. c.dv \in CappedPipelines
    BY <1>1, DriverFields
  <2>2. [c.dv EXCEPT !.derived = target] \in CappedPipelines
    BY <1>2, <2>1, PipelineTypes
  <2> QED
    BY <1>2, <2>2, PipelineTypes
<1>4. request \in Requests
  BY DEF Request, Requests
<1>5. ApplySiblingReorgPlan(s, n, root) = SetRewindTarget(planned, target)
  BY DEF ApplySiblingReorgPlan
<1> HIDE DEF c, p, request
<1>6. planned \in Drivers /\ planned.mode = "sync" /\ planned.pending = <<>> /\ planned.refresh = s.refresh
  BY <1>1, <1>3, <1>4 DEF Drivers, Modes
<1> HIDE DEF planned
<1>7. Rewinds(SetRewindTarget(planned, target), planned)
  BY <1>2, <1>6, Schedules
<1> QED
  BY <1>5, <1>6, <1>7 DEF Rewinds

\* The generic mismatch rewind is a rewind of the driver.
LEMMA GenericRewinds ==
  ASSUME NEW s \in Drivers, NEW b \in DerivedAbove
  PROVE  Rewinds(GenericMismatchRewind(s, b), s)
<1> DEFINE c == ClearInternalState(s)
           t == CountCycle(c)
           p == RollbackTo(t.dv, b.info.l1)
           r == [t EXCEPT !.mode = "sync", !.dv = p]
<1>1. b.n \in L2Number /\ b.info.l1 \in L1Number
  BY DEF DerivedAbove, DerivedBlocks, Infos, L1Number, L2Number
<1>2. c \in Drivers /\ c.pending = <<>> /\ c.refresh = s.refresh
  BY ClearType DEF ClearInternalState, Drivers
<1>3. GenericMismatchRewind(s, b) = SetRewindTarget(r, SaturatingPred(b.n))
  BY DEF GenericMismatchRewind
<1> HIDE DEF c
<1>4. t \in Drivers
  BY <1>2, CountType
<1>5. t.pending = <<>> /\ t.refresh = s.refresh
  BY <1>2 DEF CountCycle, Drivers
<1>6. p \in CappedPipelines
  BY <1>1, <1>4, DriverFields, PipelineTypes
<1>7. SaturatingPred(b.n) \in L2Number
  BY <1>1, RuleTypes
<1> HIDE DEF t, p
<1>8. r \in Drivers /\ r.mode = "sync" /\ r.pending = <<>> /\ r.refresh = s.refresh
  BY <1>4, <1>5, <1>6 DEF Drivers, Modes
<1> HIDE DEF r
<1>9. Rewinds(SetRewindTarget(r, SaturatingPred(b.n)), r)
  BY <1>7, <1>8, Schedules
<1> QED
  BY <1>3, <1>8, <1>9 DEF Rewinds

\* Verification keeps the queue and the mode, or schedules a rewind.
LEMMA VerificationKeeps ==
  ASSUME NEW s \in Drivers, NEW b \in DerivedAbove
  PROVE  LET t == Verification(s, b).d
         IN  \/ Rewinds(t, s)
             \/ /\ t.mode = s.mode /\ t.pending = s.pending /\ t.rewind = s.rewind
                /\ t.refresh = s.refresh
<1> DEFINE released == [s EXCEPT !.hold = Clear]
           deferred == [s EXCEPT !.hold = Deferred(@)]
           t == Verification(s, b).d
<1>1. b.n \in L2Number /\ b.root \in Blocks
  BY DEF DerivedAbove, DerivedBlocks, Blocks, L2Number
<1>2. SaturatingPred(b.n) \in L2Number /\ RollbackL1(s.anchor) \in L1Number
  BY <1>1, DriverFields, RuleTypes
<1>3. \/ t = s \/ t = released \/ t = deferred
      \/ t = ApplySiblingReorgPlan(s, b.n, b.root)
      \/ t = RewindToReDerive(s, SaturatingPred(b.n), RollbackL1(s.anchor))
      \/ t = GenericMismatchRewind(s, b)
  BY VerificationOutcomes
<1> HIDE DEF t, released, deferred
<1> DEFINE Same == /\ t.mode = s.mode /\ t.pending = s.pending /\ t.rewind = s.rewind
                   /\ t.refresh = s.refresh
<1>4. t = s \/ t = released \/ t = deferred => Same
  BY DEF Drivers, released, deferred
<1>5. t = ApplySiblingReorgPlan(s, b.n, b.root) => Rewinds(t, s)
  BY <1>1, PlanRewinds
<1>6. t = RewindToReDerive(s, SaturatingPred(b.n), RollbackL1(s.anchor)) => Rewinds(t, s)
  BY <1>2, ReDeriveRewinds
<1>7. t = GenericMismatchRewind(s, b) => Rewinds(t, s)
  BY GenericRewinds
<1>8. Rewinds(t, s) \/ Same
  <2> HIDE DEF Same
  <2> QED
    BY <1>3, <1>4, <1>5, <1>6, <1>7
<1> QED
  BY <1>8 DEF t

-----------------------------------------------------------------------------
(* The steps that fail nowhere keep the queue on the chain *)

\* A call that failed is counted.
LEMMA FaultCounts ==
  ASSUME Types, Fault
  PROVE  used'.faults # 0 /\ ~NoFault
<1>1. used \in Spent /\ used' = [used EXCEPT !.faults = used.faults + 1]
  BY TypeFacts DEF Fault
<1>2. used'.faults = used.faults + 1 /\ used.faults \in Nat
  BY <1>1 DEF Spent
<1> QED
  BY <1>2 DEF NoFault

\* A pending rewind finds nothing queued and no refresh asked for.
LEMMA RewindFindsNothing ==
  ASSUME LocalInv, Kept, d.rewind # None
  PROVE  d.mode = "sync" /\ d.pending = <<>> /\ d.refresh = 0 /\ pc \in {"idle", "verify"}
  BY DEF LocalInv, IInv, RewindIsClean, Kept

\* A flush that returns with fields s.
LEMMA FlushReturnsKept ==
  ASSUME LocalInv, Kept, pc \in {"flush", "check", "wait"}, NEW s \in Drivers, FlushReturns(s),
         UNCHANGED chain, AllOn(s.pending, chain),
         s.mode = "sync" => /\ s.pending = <<>> /\ (s.rewind # None \/ s.sibling # NoRequest),
         s.refresh # 0 => s.mode # "sync" /\ s.refresh <= Len(chain)
  PROVE  Kept'
<1>1. d' = s /\ \/ pc' = "idle"
                \/ /\ pc' \in {"build", "flush"}
                   /\ s.rewind = None /\ s.sibling = NoRequest /\ s.refresh = 0
  BY DEF FlushReturns
<1>2. /\ pc' \notin {"sync", "verify", "wait"}
      /\ pc' \in Live => s.mode # "sync"
      /\ s.refresh # 0 => pc' \in {"idle", "refresh"}
  BY <1>1 DEF Live
<1> QED
  BY <1>1, <1>2 DEF Kept

\* A flush that returns and only changes other fields.
LEMMA QuietFlushKept ==
  ASSUME LocalInv, Kept, pc \in {"flush", "check", "wait"}, NEW s \in Drivers, FlushReturns(s),
         UNCHANGED chain, s.mode = d.mode, s.pending = d.pending, s.refresh = d.refresh
  PROVE  Kept'
<1>1. d.mode # "sync" /\ AllOn(d.pending, chain) /\ d.refresh = 0
  BY DEF Kept, Live
<1> QED
  BY <1>1, FlushReturnsKept

\* A flush that schedules a rewind.
LEMMA FlushRewindKept ==
  ASSUME LocalInv, Kept, pc \in {"flush", "check", "wait"}, NEW s \in Drivers, FlushReturns(s),
         UNCHANGED chain, Rewinds(s, d)
  PROVE  Kept'
<1>1. d.refresh = 0
  BY DEF Kept
<1>2. s.mode = "sync" /\ s.pending = <<>> /\ s.rewind # None /\ s.refresh = 0
  BY <1>1 DEF Rewinds
<1>3. AllOn(s.pending, chain)
  BY <1>2, NothingQueued
<1> QED
  BY <1>2, <1>3, FlushReturnsKept

\* step(), up to the dispatch on the mode
LEMMA StepKept ==
  ASSUME LocalInv, Kept, NoFault,
         \/ StepRewind \/ StepRewindFails \/ Step \/ StepRefresh \/ StepRefreshFails
         \/ StepReorg \/ StepUnchanged \/ StepLogs \/ StepDerive \/ StepFails
  PROVE  Kept'
<1>1. d \in Drivers /\ chain \in Blocks /\ Len(chain) \in Nat /\ used.faults \in Nat
      /\ used' = used /\ d.refresh \in L2Number
  BY TypeFacts, DriverFields DEF LocalInv, NoFault, Spent
<1>2. ~Fault
  BY FaultCounts DEF LocalInv
<1>3. CASE StepRewind
  <2> DEFINE taken == [d EXCEPT !.rewind = None, !.cool = FALSE]
             c == ClearInternalState(taken)
             raised == [c EXCEPT !.ceiling = l2_head_number]
  <2>1. d.mode = "sync" /\ d.pending = <<>> /\ d.refresh = 0
    BY <1>3, RewindFindsNothing DEF StepRewind
  <2>2. taken.mode = "sync" /\ taken.pending = <<>> /\ taken.refresh = 0
    BY <1>1, <2>1 DEF Drivers
  <2>3. c.mode = "sync" /\ c.pending = <<>> /\ c.refresh = 0
    BY <1>1, <2>1 DEF Drivers, ClearInternalState
  <2>4. raised.mode = "sync" /\ raised.pending = <<>> /\ raised.refresh = 0
    BY <1>1, <2>1 DEF Drivers, ClearInternalState
  <2>5. d' \in {taken, c, raised} /\ pc' = "latest"
    BY <1>3, <2>1 DEF StepRewind, RewindL2Chain
  <2> HIDE DEF taken, c, raised
  <2>6. d'.mode = "sync" /\ d'.pending = <<>> /\ d'.refresh = 0
    BY <2>2, <2>3, <2>4, <2>5
  <2> QED
    BY <2>5, <2>6, NothingQueued DEF Kept, Live
<1>4. CASE Step
  <2>1. /\ pc = "idle" /\ d' = [d EXCEPT !.cool = FALSE] /\ UNCHANGED chain
        /\ pc' = (IF d.refresh # 0 THEN "refresh" ELSE "latest")
    BY <1>4 DEF Step
  <2>2. d'.mode = d.mode /\ d'.pending = d.pending /\ d'.refresh = d.refresh
    BY <1>1, <2>1 DEF Drivers
  <2>3. pc' \in {"refresh", "latest"} /\ (d.refresh # 0 => pc' = "refresh")
    BY <2>1
  <2> QED
    BY <2>1, <2>2, <2>3 DEF Kept, Live
<1>5. CASE StepRefresh
  <2> DEFINE c == ClearInternalState(d)
             p == [c.dv EXCEPT !.derived = d.refresh]
             new == [c EXCEPT !.dv = p, !.pending = <<chain'>>, !.refresh = 0]
  <2>1. pc = "refresh" /\ d' = new /\ pc' = "latest"
    BY <1>5 DEF StepRefresh
  <2>2. d.refresh # 0
    BY <2>1 DEF LocalInv, Types
  <2>3. d.mode # "sync"
    BY <2>2 DEF Kept
  <2>4. c \in Drivers /\ c.mode = d.mode
    BY <1>1, ClearType DEF Drivers, ClearInternalState
  <2> HIDE DEF c, p
  <2>5. d'.mode = d.mode /\ d'.pending = <<chain'>> /\ d'.refresh = 0
    BY <2>1, <2>4 DEF Drivers
  <2>6. AllOn(<<chain'>>, chain')
    <3>1. IsPrefix(chain', chain')
      <4>1. chain' \in Blocks
        <5>1. Types'
          BY <1>5, RefreshTypes DEF LocalInv
        <5> QED
          BY <5>1 DEF Types
      <4>2. Len(chain') \in Nat
        BY <4>1 DEF Blocks, Roots
      <4> QED
        BY <4>2 DEF IsPrefix
    <3> QED
      BY <3>1 DEF AllOn
  <2> QED
    BY <2>1, <2>3, <2>5, <2>6 DEF Kept, Live
<1>6. CASE StepRefreshFails
  <2>1. d.refresh > l2_head_number + 1 /\ pc = "refresh"
    BY <1>2, <1>6 DEF StepRefreshFails
  <2>2. d.refresh # 0
    BY <2>1 DEF LocalInv, Types
  <2>3. d.refresh <= Len(chain)
    BY <2>2 DEF Kept
  <2> QED
    BY <1>1, <2>1, <2>3 DEF l2_head_number, L2Number
<1>7. CASE StepReorg
  <2> DEFINE p == RollbackTo(d.dv, ForkPoint(d.dv, l1))
             c == ClearInternalState(d)
             s == [c EXCEPT !.seen = Len(l1), !.dv = p]
             synced == [s EXCEPT !.mode = "sync"]
             raised == [synced EXCEPT !.ceiling = l2_head_number]
  <2>1. pc = "latest" /\ pc' = "idle" /\ d' \in {s, synced, raised}
    BY <1>7 DEF StepReorg, RewindL2Chain
  <2>2. d.refresh = 0
    BY <2>1 DEF Kept
  <2>3. c \in Drivers /\ c.pending = <<>> /\ c.refresh = 0
    BY <1>1, <2>2, ClearType DEF Drivers, ClearInternalState
  <2> HIDE DEF c, p
  <2>4. d'.pending = <<>> /\ d'.refresh = 0
    BY <2>1, <2>3 DEF Drivers
  <2> QED
    BY <2>1, <2>4, NothingQueued DEF Kept, Live
<1>8. CASE StepUnchanged
  <2>1. /\ pc = "latest" /\ d' = [d EXCEPT !.seen = Len(l1)] /\ UNCHANGED chain
        /\ pc' \in {"idle", "logs"}
    BY <1>8 DEF StepUnchanged, Return
  <2>2. d'.mode = d.mode /\ d'.pending = d.pending /\ d'.refresh = d.refresh
    BY <1>1, <2>1 DEF Drivers
  <2>3. d.refresh = 0
    BY <2>1 DEF Kept
  <2> QED
    BY <2>1, <2>2, <2>3 DEF Kept, Live
<1>10. CASE StepLogs
  <2>1. pc = "logs" /\ pc' = "blocks" /\ d' = d /\ UNCHANGED chain
    BY <1>10 DEF StepLogs
  <2> QED
    BY <2>1 DEF Kept, Live
<1>11. CASE StepDerive
  <2>1. pc = "blocks" /\ UNCHANGED chain
    BY <1>11, Derivation
  <2>2. PICK batch : Derived(batch)
    BY <1>11, Derivation
  <2>3. pc' = "idle" \/ pc' = IF d.mode = "sync" THEN "sync" ELSE "verify"
    BY <2>2 DEF Derived, Return
  <2>4. d.refresh = 0
    BY <2>1 DEF Kept
  <2>5. pc' \in {"idle", "sync", "verify"} /\ (pc' = "sync" => d.mode = "sync")
        /\ (pc' = "verify" => d.mode # "sync")
    BY <2>3
  <2>6. d' = d
    BY <2>2 DEF Derived, Return
  <2>7. d'.mode = d.mode /\ d'.pending = d.pending /\ d'.refresh = d.refresh
    BY <2>6
  <2> QED
    BY <2>1, <2>4, <2>5, <2>7 DEF Kept, Live
<1>9. ~StepRewindFails /\ ~StepFails
  BY <1>2 DEF StepRewindFails, StepFails
<1> QED
  BY <1>3, <1>4, <1>5, <1>6, <1>7, <1>8, <1>9, <1>10, <1>11

\* The block put on top of the chain.
LEMMA InsertGrows ==
  ASSUME LocalInv, Kept, work.todo # <<>>, NextBlock.n = l2_head_number + 1
  PROVE  AllOn(d.pending, LocalChain(NextBlock))
<1>1. /\ chain \in Blocks /\ Len(chain) \in Nat /\ d.pending \in Seq(BuiltBlocks) /\ Types
  BY TypeFacts, DriverFields, QueueFacts DEF LocalInv
<1>2. Local(NextBlock) \in L2Blocks(MaxL1, MaxReorgs, MaxEntries)
  BY <1>1, NextBlockType
<1>3. NextBlock.n - 1 = Len(chain)
  BY <1>1 DEF l2_head_number
<1>4. SubSeq(chain, 1, Len(chain)) = chain
  <2> DEFINE E == L2Blocks(MaxL1, MaxReorgs, MaxEntries)
  <2>1. chain \in Seq(E)
    BY <1>1 DEF Blocks, Roots
  <2> HIDE DEF E
  <2> QED
    BY <2>1
<1>5. LocalChain(NextBlock) = Append(chain, Local(NextBlock))
  BY <1>3, <1>4 DEF LocalChain
<1>6. AllOn(d.pending, chain)
  BY DEF Kept
<1> QED
  BY <1>1, <1>2, <1>5, <1>6, AllOnGrows

\* commit_batch changes the pipeline only.
LEMMA CommitKeeps ==
  ASSUME NEW s \in Drivers, NEW next, NEW save, Commit(s, next, save)
  PROVE  /\ d'.mode = s.mode /\ d'.pending = s.pending /\ d'.refresh = s.refresh
         /\ d'.rewind = s.rewind
<1>1. \E p : d' = [s EXCEPT !.dv = p]
  BY DEF Commit
<1> QED
  BY <1>1 DEF Drivers

\* step_sync
LEMMA SyncKept ==
  ASSUME LocalInv, Kept, SyncRebuild \/ SyncSkip \/ SyncInsert \/ SyncCommit
  PROVE  Kept'
<1>1. pc = "sync" /\ d \in Drivers
  BY TypeFacts DEF LocalInv, SyncRebuild, SyncSkip, SyncInsert, SyncCommit
<1>2. d.mode = "sync" /\ d.pending = <<>> /\ d.refresh = 0
  BY <1>1 DEF Kept
<1>3. CASE SyncRebuild \/ SyncSkip \/ SyncInsert
  <2>1. /\ pc' \in {"sync", "idle"}
        /\ \/ d' = d
           \/ d' = [d EXCEPT !.sibling = NoRequest, !.cycles = 0, !.mismatches = 0, !.hold = Clear]
    BY <1>1, <1>3 DEF SyncRebuild, SyncSkip, SyncInsert, InsertNext, Advance, Return
  <2>2. d'.mode = "sync" /\ d'.pending = <<>> /\ d'.refresh = 0
    BY <1>1, <1>2, <2>1 DEF Drivers
  <2> QED
    BY <2>1, <2>2, NothingQueued DEF Kept, Live
<1>4. CASE SyncCommit
  <2> DEFINE c == ClearInternalState(d)
             mode == IF BuilderMode THEN "builder" ELSE "fullnode"
             live == [c EXCEPT !.cycles = 0, !.mode = mode]
  <2>1. c \in Drivers /\ 0 \in CycleCounts /\ mode \in Modes
    BY <1>1, ClearType, Bounds DEF CycleCounts, Modes
  <2>5. c.pending = <<>> /\ c.refresh = 0
    BY <1>1, <1>2 DEF Drivers, ClearInternalState
  <2>2. /\ pc' = "idle"
        /\ \/ d' = d \/ Commit(live, work.next, FALSE) \/ Commit(d, work.next, ~work.empty)
    BY <1>4 DEF SyncCommit
  <2> HIDE DEF c, mode
  <2>3. live \in Drivers /\ live.pending = <<>> /\ live.refresh = 0
    BY <2>1, <2>5 DEF Drivers
  <2> HIDE DEF live
  <2>4. d'.pending = <<>> /\ d'.refresh = 0
    BY <1>1, <1>2, <2>2, <2>3, CommitKeeps
  <2> QED
    BY <2>2, <2>4, NothingQueued DEF Kept, Live
<1> QED
  BY <1>3, <1>4

\* verification by step_builder and step_fullnode
LEMMA VerifyKept ==
  ASSUME LocalInv, Kept, \/ VerifyBlock \/ VerifyInsert
                         \/ VerifyCommitBuilder \/ VerifyCommitFullnode
  PROVE  Kept'
<1>1. pc = "verify" /\ d \in Drivers /\ Types
  BY TypeFacts DEF LocalInv, VerifyBlock, VerifyInsert, VerifyCommitBuilder, VerifyCommitFullnode
<1>2. d.refresh = 0 /\ AllOn(d.pending, chain) /\ (d.mode = "sync" => d.pending = <<>> /\ d.rewind # None)
  BY <1>1 DEF Kept
<1>3. CASE VerifyBlock
  <2> DEFINE t == Verification(d, NextBlock).d
  <2>1. NextBlock \in DerivedAbove
    BY <1>1, <1>3, NextBlockType DEF VerifyBlock
  <2>2. d' = t /\ pc' \in {"idle", "verify"} /\ UNCHANGED chain
    BY <1>1, <1>3 DEF VerifyBlock, Return, Advance
  <2>3. \/ Rewinds(t, d)
        \/ /\ t.mode = d.mode /\ t.pending = d.pending /\ t.rewind = d.rewind
           /\ t.refresh = d.refresh
    BY <1>1, <2>1, VerificationKeeps
  <2> HIDE DEF t
  <2>4. /\ d'.refresh = 0 /\ AllOn(d'.pending, chain)
        /\ d'.mode = "sync" => d'.pending = <<>> /\ d'.rewind # None
    BY <1>2, <2>2, <2>3, NothingQueued DEF Rewinds
  <2> QED
    BY <2>2, <2>4 DEF Kept, Live
<1>4. CASE VerifyInsert
  <2>1. /\ work.todo # <<>> /\ d' = d /\ pc' \in {"idle", "verify"}
        /\ \/ chain' = chain
           \/ NextBlock.n = l2_head_number + 1 /\ chain' = LocalChain(NextBlock)
    BY <1>1, <1>4 DEF VerifyInsert, InsertNext, Return, Advance
  <2>2. AllOn(d.pending, chain')
    BY <1>2, <2>1, InsertGrows
  <2> QED
    BY <1>2, <2>1, <2>2 DEF Kept, Live
<1>5. CASE VerifyCommitBuilder \/ VerifyCommitFullnode
  <2>1. d' = d \/ \E save : Commit(d, work.next, save)
    BY <1>5 DEF VerifyCommitBuilder, VerifyCommitFullnode
  <2>2. /\ d'.mode = d.mode /\ d'.pending = d.pending /\ d'.refresh = d.refresh
        /\ d'.rewind = d.rewind
    BY <1>1, <2>1, CommitKeeps
  <2>3. UNCHANGED chain /\ (pc' = "idle" \/ (pc' = "tick" /\ d.rewind = None))
    BY <1>5 DEF VerifyCommitBuilder, VerifyCommitFullnode
  <2> QED
    BY <1>2, <2>2, <2>3 DEF Kept, Live
<1> QED
  BY <1>3, <1>4, <1>5

\* step_builder: one tick
LEMMA BuildKept ==
  ASSUME LocalInv, Kept, NoFault,
         TickIdle \/ (\E k \in 0 .. MaxEntries : Tick(k)) \/ BuildBlock \/ BuildFails
  PROVE  Kept'
<1>1. /\ d \in Drivers /\ Types /\ chain \in Blocks /\ used.faults \in Nat /\ used' = used
      /\ pc \in {"tick", "build"} /\ d.pending \in Seq(BuiltBlocks)
  BY TypeFacts, DriverFields, QueueFacts DEF LocalInv, NoFault, Spent, TickIdle, Tick, BuildBlock, BuildFails
<1>2. d.refresh = 0 /\ AllOn(d.pending, chain) /\ d.mode # "sync"
  BY <1>1 DEF Kept, Live
<1>3. CASE TickIdle
  BY <1>2, <1>3 DEF TickIdle, Kept, Live
<1>4. ASSUME NEW k \in 0 .. MaxEntries, Tick(k) PROVE Kept'
  <2>1. /\ d' = [d EXCEPT !.entries = @ \o [j \in 1 .. k |-> EffectiveTarget]]
        /\ pc' = "build" /\ UNCHANGED chain
    BY <1>4 DEF Tick
  <2>2. d'.mode = d.mode /\ d'.pending = d.pending /\ d'.refresh = d.refresh
    BY <1>1, <2>1 DEF Drivers
  <2> QED
    BY <1>2, <2>1, <2>2 DEF Kept, Live
<1>5. CASE BuildBlock
  <2> DEFINE k == IF l2_head_number + 1 >= work.tick.goal THEN work.tick.k ELSE 0
             b == [ctx |-> work.tick.info.l1, hash |-> work.tick.info.hash, k |-> k]
             more == Append(d.pending, chain')
  <2>1. /\ chain' = Append(chain, b) /\ pc' \in {"flush", "build"}
        /\ d' \in {d, [d EXCEPT !.pending = more]}
    BY <1>5 DEF BuildBlock
  <2>2. b \in L2Blocks(MaxL1, MaxReorgs, MaxEntries)
    <3>1. work.tick.info \in Contexts /\ work.tick.k \in 0 .. MaxEntries
      BY <1>1, TypeFacts, WorkFields
    <3>2. k \in 0 .. MaxEntries
      BY <3>1, Bounds
    <3> QED
      BY <3>1, <3>2 DEF L2Blocks, Contexts, Infos
  <2> HIDE DEF b
  <2>3. AllOn(d.pending, chain') /\ IsPrefix(chain', chain')
    BY <1>1, <1>2, <2>1, <2>2, AllOnGrows, PrefixGrows
  <2>4. chain' \in BuiltBlocks
    <3>1. Types'
      BY <1>1, <1>5, BuildTypes
    <3>2. chain' \in Blocks
      BY <3>1 DEF Types
    <3>3. chain \in Seq(L2Blocks(MaxL1, MaxReorgs, MaxEntries))
      BY <1>1 DEF Blocks, Roots
    <3>4. chain' # <<>>
      BY <2>1, <2>2, <3>3
    <3> QED
      BY <3>2, <3>4 DEF BuiltBlocks
  <2>5. AllOn(more, chain')
    BY <1>1, <2>3, <2>4, AllOnParts
  <2> HIDE DEF more
  <2>6. d'.mode = d.mode /\ d'.pending \in {d.pending, more} /\ d'.refresh = d.refresh
    BY <1>1, <2>1 DEF Drivers
  <2>7. AllOn(d'.pending, chain')
    BY <2>3, <2>5, <2>6
  <2> QED
    BY <1>2, <2>1, <2>6, <2>7 DEF Kept, Live
<1>6. ~BuildFails
  BY FaultCounts DEF BuildFails, LocalInv
<1> QED
  BY <1>3, <1>4, <1>5, <1>6

\* What is confirmed leaves the front of the queue.
LEMMA TrimmedKeeps ==
  ASSUME NEW s \in Drivers, NEW root
  PROVE  LET t == Trimmed(s, root)
         IN  /\ t.mode = s.mode /\ t.refresh = s.refresh
             /\ \E n \in 0 .. Len(s.pending) : t.pending = SubSeq(s.pending, n + 1, Len(s.pending))
<1> DEFINE hits == {i \in 1 .. Len(s.pending) : root \in RootChain(s.pending[i])}
           pos == CHOOSE i \in hits : \A h \in hits : h <= i
           t == Trimmed(s, root)
<1>1. s.pending \in Queues /\ Len(s.pending) \in Nat /\ s.pending \in Seq(BuiltBlocks)
  BY DriverFields, QueueFacts
<1>2. t.mode = s.mode /\ t.refresh = s.refresh
  BY DEF Trimmed, Drivers
<1>3. \E n \in 0 .. Len(s.pending) : t.pending = SubSeq(s.pending, n + 1, Len(s.pending))
  <2>1. CASE hits = {}
    <3>1. t = s
      BY <2>1 DEF Trimmed
    <3>2. SubSeq(s.pending, 0 + 1, Len(s.pending)) = s.pending
      BY <1>1
    <3>3. 0 \in 0 .. Len(s.pending)
      BY <1>1
    <3> QED
      BY <3>1, <3>2, <3>3
  <2>2. CASE hits # {}
    <3>1. t.pending = SubSeq(s.pending, pos + 1, Len(s.pending))
      BY <2>2 DEF Trimmed, Drivers
    <3>2. hits \in SUBSET Nat /\ (\A x \in hits : x <= Len(s.pending)) /\ hits \subseteq 1 .. Len(s.pending)
      BY <1>1
    <3> HIDE DEF hits
    <3>3. \E x \in hits : \A y \in hits : y <= x
      BY <1>1, <2>2, <3>2, LargestNatural
    <3>4. pos \in hits
      BY <3>3
    <3> HIDE DEF pos
    <3>5. pos \in 0 .. Len(s.pending)
      BY <1>1, <3>2, <3>4
    <3> QED
      BY <3>1, <3>5
  <2> QED
    BY <2>1, <2>2
<1> QED
  BY <1>2, <1>3

\* flush_precheck
LEMMA PrecheckKept ==
  ASSUME LocalInv, Kept, \/ FlushSkip \/ FlushFails \/ FlushTrim \/ FlushDispatch
                         \/ FlushStale \/ FlushWaitsForRefresh
  PROVE  Kept'
<1>1. /\ d \in Drivers /\ Types /\ pc \in {"flush", "check"} /\ UNCHANGED chain
      /\ d.pending \in Queues /\ d.pending \in Seq(BuiltBlocks) /\ chain \in Blocks
  BY TypeFacts, DriverFields, QueueFacts DEF LocalInv, FlushSkip, FlushFails, FlushTrim, FlushDispatch, FlushStale,
     FlushWaitsForRefresh
<1>2. d.refresh = 0 /\ AllOn(d.pending, chain) /\ d.mode # "sync"
  BY <1>1 DEF Kept, Live
<1>3. CASE FlushSkip \/ FlushFails \/ FlushWaitsForRefresh
  BY <1>1, <1>3, QuietFlushKept DEF FlushSkip, FlushFails, FlushWaitsForRefresh
<1>4. CASE FlushTrim
  <2>1. d' = Trimmed(d, OnChainRoot) /\ pc' = "check"
    BY <1>4 DEF FlushTrim
  <2>2. /\ d'.mode = d.mode /\ d'.refresh = d.refresh
        /\ \E n \in 0 .. Len(d.pending) : d'.pending = SubSeq(d.pending, n + 1, Len(d.pending))
    BY <1>1, <2>1, TrimmedKeeps
  <2>3. AllOn(d'.pending, chain)
    BY <1>1, <1>2, <2>2, AllOnParts
  <2> QED
    BY <1>1, <1>2, <2>1, <2>2, <2>3 DEF Kept, Live
<1>5. CASE FlushDispatch
  <2> DEFINE c == ClearInternalState(d)
             target == FlushPlanTarget(d.anchor, d.sibling.target)
             p == RollbackTo([c.dv EXCEPT !.derived = target], RollbackL1(d.anchor))
             s == [c EXCEPT !.sibling = d.sibling, !.dv = p, !.mode = "sync"]
  <2>1. FlushReturns(s) /\ d.sibling # NoRequest
    BY <1>5 DEF FlushDispatch
  <2>2. c \in Drivers /\ c.dv \in CappedPipelines
    BY <1>1, ClearType, DriverFields
  <2>3. c.pending = <<>> /\ c.refresh = 0
    BY <1>1, <1>2 DEF ClearInternalState, Drivers
  <2>4. d.anchor \in Anchors /\ d.sibling \in Requests /\ d.sibling.target \in L2Number
    BY <1>1, DriverFields DEF Requests
  <2>5. target \in L2Number /\ RollbackL1(d.anchor) \in L1Number
    BY <2>4, RuleTypes
  <2> HIDE DEF c, target
  <2>6. [c.dv EXCEPT !.derived = target] \in CappedPipelines
    BY <2>2, <2>5, PipelineTypes
  <2>7. p \in CappedPipelines
    BY <2>5, <2>6, PipelineTypes
  <2> HIDE DEF p
  <2>8. s \in Drivers /\ s.pending = <<>> /\ s.refresh = 0 /\ s.sibling = d.sibling
    BY <2>2, <2>3, <2>4, <2>7 DEF Drivers, Modes
  <2> HIDE DEF s
  <2>9. AllOn(s.pending, chain) /\ s.sibling # NoRequest
    BY <2>1, <2>8, NothingQueued
  <2> QED
    BY <1>1, <2>1, <2>8, <2>9, FlushReturnsKept
<1>6. CASE FlushStale
  <2> DEFINE n == NumberOf(FrontBlock)
             s == [d EXCEPT !.refresh = n]
  <2>1. d.pending # <<>> /\ (FlushReturns(d) \/ FlushReturns(s))
    BY <1>6 DEF FlushStale, FrontIsStale
  <2>2. FrontBlock \in Blocks /\ IsPrefix(FrontBlock, chain)
    BY <1>1, <1>2, <2>1, QueueFacts DEF FrontBlock, AllOn
  <2>3. n \in L2Number /\ n <= Len(chain)
    BY <1>1, <2>2, BlockFacts DEF NumberOf, IsPrefix
  <2> HIDE DEF n
  <2>4. s \in Drivers /\ s.mode = d.mode /\ s.pending = d.pending /\ s.refresh = n
    BY <1>1, <2>3 DEF Drivers
  <2> HIDE DEF s
  <2>5. CASE FlushReturns(d)
    BY <1>1, <2>5, QuietFlushKept
  <2>6. CASE FlushReturns(s)
    BY <1>1, <1>2, <2>3, <2>4, <2>6, FlushReturnsKept
  <2> QED
    BY <2>1, <2>5, <2>6
<1> QED
  BY <1>3, <1>4, <1>5, <1>6

\* flush_handle_mismatch
LEMMA MismatchKept ==
  ASSUME LocalInv, Kept, \/ FlushMismatchTransient \/ FlushMismatchSibling \/ FlushMismatchRewind
  PROVE  Kept'
<1>1. /\ d \in Drivers /\ Types /\ pc = "check" /\ UNCHANGED chain
      /\ d.pending \in Queues /\ chain \in Blocks /\ d.anchor \in Anchors
      /\ work.root \in Blocks /\ d.mismatches \in MismatchCounts
  BY TypeFacts, DriverFields, WorkFields DEF LocalInv, FlushMismatchTransient, FlushMismatchSibling,
     FlushMismatchRewind, Proceed
<1> DEFINE m == Smaller(d.mismatches + 1, MAX_FLUSH_MISMATCHES)
           counted == [d EXCEPT !.mismatches = m]
           reset == [d EXCEPT !.mismatches = 0]
<1>2. m \in MismatchCounts /\ 0 \in MismatchCounts
  BY <1>1 DEF MismatchCounts, Smaller, MAX_FLUSH_MISMATCHES
<1>3. Mismatched = counted
  BY DEF Mismatched
<1> HIDE DEF m
<1>4. counted \in Drivers /\ counted.mode = d.mode /\ counted.pending = d.pending /\ counted.refresh = d.refresh
  BY <1>1, <1>2 DEF Drivers
<1>5. reset \in Drivers /\ reset.mode = d.mode /\ reset.pending = d.pending /\ reset.refresh = d.refresh
  BY <1>1, <1>2 DEF Drivers
<1>6. CASE FlushMismatchTransient
  <2>1. FlushReturns(counted)
    BY <1>3, <1>6 DEF FlushMismatchTransient
  <2> HIDE DEF counted
  <2> QED
    BY <1>1, <1>4, <2>1, QuietFlushKept
<1>7. CASE FlushMismatchSibling
  <2> DEFINE request == Request(d.anchor.l2, work.root)
             s == [reset EXCEPT !.sibling = request]
  <2>1. FlushReturns(reset) \/ FlushReturns(s)
    BY <1>7 DEF FlushMismatchSibling
  <2>2. request \in Requests
    BY <1>1, RuleTypes DEF Request, Requests
  <2> HIDE DEF request, reset
  <2>3. s \in Drivers /\ s.mode = d.mode /\ s.pending = d.pending /\ s.refresh = d.refresh
    BY <1>5, <2>2 DEF Drivers
  <2> HIDE DEF s
  <2> QED
    BY <1>1, <1>5, <2>1, <2>3, QuietFlushKept
<1>8. CASE FlushMismatchRewind
  <2> DEFINE before == SaturatingPred(NumberOf(FrontBlock))
             target == IF d.anchor = NoAnchor THEN 0
                       ELSE IF d.cycles > 0 THEN before
                       ELSE Larger(before, d.anchor.l2)
             t == IF d.cycles > 0 THEN counted ELSE reset
             s == RewindToReDerive(t, target, RollbackL1(d.anchor))
  <2>1. d.pending # <<>> /\ FlushReturns(s)
    BY <1>3, <1>8 DEF FlushMismatchRewind, Mismatch
  <2>2. before \in L2Number
    BY <1>1, <2>1, QueueFacts, BlockFacts, RuleTypes DEF FrontBlock
  <2> HIDE DEF before
  <2>3. target \in L2Number /\ RollbackL1(d.anchor) \in L1Number
    BY <1>1, <2>2, RuleTypes, InitialValues
  <2> HIDE DEF target, counted, reset
  <2>4. t \in Drivers /\ t.refresh = d.refresh
    BY <1>4, <1>5
  <2> HIDE DEF t
  <2>5. s \in Drivers /\ Rewinds(s, t)
    BY <2>3, <2>4, ReDeriveType, ReDeriveRewinds
  <2>6. Rewinds(s, d)
    BY <2>4, <2>5 DEF Rewinds
  <2> HIDE DEF s
  <2> QED
    BY <1>1, <2>1, <2>5, <2>6, FlushRewindKept
<1> QED
  BY <1>6, <1>7, <1>8

\* The submission, and the send that fails
LEMMA SubmitKept ==
  ASSUME LocalInv, Kept, FlushSubmit \/ FlushSendFails
  PROVE  Kept'
<1>1. /\ d \in Drivers /\ Types /\ pc = "check" /\ UNCHANGED chain
      /\ d.pending \in Queues /\ d.pending \in Seq(BuiltBlocks) /\ chain \in Blocks
  BY TypeFacts, DriverFields, QueueFacts DEF LocalInv, FlushSubmit, FlushSendFails, Proceed
<1>2. d.refresh = 0 /\ AllOn(d.pending, chain) /\ d.mode # "sync"
  BY <1>1 DEF Kept, Live
<1> DEFINE m == PreRootMatched(d)
<1>3. m \in Drivers /\ m.pending = d.pending
  BY <1>1, MatchedType
<1>4. m.mode = d.mode /\ m.refresh = d.refresh
  BY <1>1 DEF PreRootMatched, Drivers
<1>5. CASE FlushSubmit
  <2> DEFINE h == HoldArmed(m)
             s == [h EXCEPT !.pending = SubSeq(@, BatchSize + 1, Len(@)), !.entries = <<>>]
             blocks == SubSeq(d.pending, 1, BatchSize)
  <2>1. d' = s /\ pc' = "wait" /\ work' = [work EXCEPT !.sent = Submission, !.blocks = blocks]
    BY <1>5 DEF FlushSubmit
  <2> HIDE DEF m
  <2>2. DOMAIN h = DOMAIN m /\ h.mode = m.mode /\ h.pending = m.pending /\ h.refresh = m.refresh
        /\ DOMAIN m = Fields
    BY <1>3 DEF HoldArmed, Drivers, Fields
  <2> HIDE DEF h
  <2>3. /\ d'.mode = d.mode /\ d'.refresh = d.refresh
        /\ d'.pending = SubSeq(d.pending, BatchSize + 1, Len(d.pending))
    BY <1>3, <1>4, <2>1, <2>2 DEF Fields
  <2>4. BatchSize \in 0 .. Len(d.pending)
    BY <1>1, BatchSizeType
  <2>5. AllOn(d'.pending, chain) /\ AllOn(blocks, chain)
    BY <1>1, <1>2, <2>3, <2>4, AllOnParts
  <2>6. work'.blocks = blocks
    <3> HIDE DEF blocks
    <3>1. work \in Works
      BY <1>1, TypeFacts
    <3> QED
      BY <2>1, <3>1 DEF Works
  <2> QED
    BY <1>1, <1>2, <2>1, <2>3, <2>5, <2>6 DEF Kept, Live
<1>6. CASE FlushSendFails
  <2> DEFINE s == [m EXCEPT !.hold = Clear, !.cool = TRUE]
  <2>1. FlushReturns(s)
    BY <1>6 DEF FlushSendFails
  <2> HIDE DEF m
  <2>2. s \in Drivers /\ s.mode = d.mode /\ s.pending = d.pending /\ s.refresh = d.refresh
    BY <1>3, <1>4, InitialValues DEF Drivers, Flags
  <2> HIDE DEF s
  <2> QED
    BY <1>1, <2>1, <2>2, QuietFlushKept
<1> QED
  BY <1>5, <1>6

\* After the submission
LEMMA OutcomeKept ==
  ASSUME LocalInv, Kept, NoFault, \/ TriggersNotSent \/ BatchConfirmed \/ BatchPartlyConsumed
                         \/ BatchNotConsumed \/ BatchReverted \/ BatchUnknown
  PROVE  Kept'
<1>1. /\ d \in Drivers /\ Types /\ pc = "wait" /\ UNCHANGED chain
      /\ d.pending \in Queues /\ d.pending \in Seq(BuiltBlocks) /\ chain \in Blocks
      /\ work.blocks \in Seq(BuiltBlocks) /\ d.anchor \in Anchors /\ work.sent \in Txs /\ L1Typed
  BY TypeFacts, DriverFields, WorkFields, QueueFacts DEF LocalInv, TriggersNotSent, BatchConfirmed,
     BatchPartlyConsumed, BatchNotConsumed, BatchReverted, BatchUnknown
<1>2. d.refresh = 0 /\ AllOn(d.pending, chain) /\ AllOn(work.blocks, chain) /\ d.mode # "sync"
  BY <1>1 DEF Kept, Live
<1>3. ~TriggersNotSent
  BY <1>1, FaultCounts DEF TriggersNotSent
<1> DEFINE c == Confirmed
<1>4. Landed => c \in Drivers /\ c.mode = d.mode /\ c.pending = d.pending /\ c.refresh = d.refresh
  <2>1. Landed => c \in Drivers
    BY <1>1, ConfirmedType
  <2>2. c.mode = d.mode /\ c.pending = d.pending /\ c.refresh = d.refresh
    BY <1>1 DEF Confirmed, Drivers
  <2> QED
    BY <2>1, <2>2
<1>5. CASE BatchConfirmed
  <2> DEFINE s == [c EXCEPT !.hold = Clear]
  <2>1. Landed /\ (FlushReturns(s) \/ FlushReturns(c))
    BY <1>5 DEF BatchConfirmed
  <2> HIDE DEF c
  <2>2. s \in Drivers /\ s.mode = d.mode /\ s.pending = d.pending /\ s.refresh = d.refresh
    BY <1>4, <2>1, InitialValues DEF Drivers
  <2> HIDE DEF s
  <2> QED
    BY <1>1, <1>4, <2>1, <2>2, QuietFlushKept
<1>6. CASE BatchPartlyConsumed
  <2>1. Landed /\ FlushReturns(RewindToReDerive(c, PartlyConsumedTarget(c), RollbackL1(c.anchor)))
    BY <1>6 DEF BatchPartlyConsumed
  <2>2. c \in Drivers /\ c.refresh = d.refresh
    BY <1>4, <2>1
  <2> HIDE DEF c
  <2>3. PartlyConsumedTarget(c) \in L2Number /\ RollbackL1(c.anchor) \in L1Number
    BY <2>2, DriverFields, RuleTypes DEF PartlyConsumedTarget, Holds
  <2> DEFINE s == RewindToReDerive(c, PartlyConsumedTarget(c), RollbackL1(c.anchor))
  <2>4. s \in Drivers /\ Rewinds(s, c)
    BY <2>2, <2>3, ReDeriveType, ReDeriveRewinds
  <2>5. Rewinds(s, d) /\ FlushReturns(s)
    BY <2>1, <2>2, <2>4 DEF Rewinds
  <2> HIDE DEF s
  <2> QED
    BY <1>1, <2>4, <2>5, FlushRewindKept
<1>7. CASE BatchNotConsumed
  <2> DEFINE clear == [c EXCEPT !.hold = Clear]
             request == Request(c.anchor.l2, OnChainRoot)
             asked == [c EXCEPT !.hold = Clear, !.sibling = request]
  <2>1. Landed /\ (FlushReturns(NothingConsumed(c)) \/ FlushReturns(c))
    BY <1>7 DEF BatchNotConsumed
  <2>2. NothingConsumed(c) \in {c, clear, asked}
    BY DEF NothingConsumed
  <2>3. c \in Drivers /\ c.mode = d.mode /\ c.pending = d.pending /\ c.refresh = d.refresh
    BY <1>4, <2>1
  <2> HIDE DEF c
  <2>4. request \in Requests
    BY <1>1, <2>3, OnChainRootType, DriverFields, RuleTypes DEF Request, Requests
  <2> HIDE DEF request
  <2>5. clear \in Drivers /\ clear.mode = d.mode /\ clear.pending = d.pending /\ clear.refresh = d.refresh
    BY <2>3, InitialValues DEF Drivers
  <2>6. asked \in Drivers /\ asked.mode = d.mode /\ asked.pending = d.pending /\ asked.refresh = d.refresh
    BY <2>3, <2>4, InitialValues DEF Drivers
  <2> HIDE DEF clear, asked
  <2> QED
    BY <1>1, <2>1, <2>2, <2>3, <2>5, <2>6, QuietFlushKept
<1>8. CASE BatchReverted
  <2> DEFINE s == RewindToReDerive(d, d.anchor.l2, RollbackL1(d.anchor))
  <2>1. FlushReturns(s)
    BY <1>8 DEF BatchReverted
  <2>2. d.anchor.l2 \in L2Number /\ RollbackL1(d.anchor) \in L1Number
    BY <1>1, RuleTypes
  <2>3. s \in Drivers /\ Rewinds(s, d)
    BY <1>1, <2>2, ReDeriveType, ReDeriveRewinds
  <2> HIDE DEF s
  <2> QED
    BY <1>1, <2>1, <2>3, FlushRewindKept
<1>9. CASE BatchUnknown
  <2> DEFINE pending == work.blocks \o d.pending
             ents == Sent.ents
             s == [d EXCEPT !.hold = Clear, !.cool = TRUE, !.pending = pending, !.entries = ents]
  <2>1. FlushReturns(s)
    BY <1>9 DEF BatchUnknown, Requeued
  <2>2. Len(work.blocks) + Len(d.pending) <= MAX_PENDING_SUBMISSIONS
    BY <1>1 DEF Types
  <2>3. pending \in Queues
    <3>1. pending \in Seq(BuiltBlocks) /\ Len(pending) = Len(work.blocks) + Len(d.pending)
      BY <1>1
    <3> QED
      BY <2>2, <3>1 DEF Queues
  <2>4. ents \in Entries
    BY <1>1 DEF Sent, Txs
  <2>5. AllOn(pending, chain)
    BY <1>1, <1>2, AllOnParts
  <2> HIDE DEF pending, ents
  <2>6. s \in Drivers /\ s.mode = d.mode /\ s.pending = pending /\ s.refresh = d.refresh
    BY <1>1, <2>3, <2>4, InitialValues DEF Drivers, Flags
  <2> HIDE DEF s
  <2> QED
    BY <1>1, <1>2, <2>1, <2>5, <2>6, FlushReturnsKept
<1> QED
  BY <1>3, <1>5, <1>6, <1>7, <1>8, <1>9

\* A restart forgets the queue.
LEMMA RestartKept ==
  ASSUME RestartNext
  PROVE  Kept'
<1>1. /\ pc' = "idle"
      /\ d' = [FreshDriver EXCEPT !.anchor = d.anchor, !.dv = Restarted(checkpoint', chain')]
  BY DEF RestartNext, Crash, Shutdown, Restart
<1>2. d'.pending = <<>> /\ d'.refresh = 0
  BY <1>1 DEF FreshDriver
<1> QED
  BY <1>1, <1>2, NothingQueued DEF Kept, Live

\* L1 does not touch the node.
LEMMA L1Kept ==
  ASSUME Kept, L1Next
  PROVE  Kept'
<1>1. UNCHANGED <<chain, d, pc, work>>
  BY L1Leaves
<1> QED
  BY <1>1 DEF Kept, AllOn

\* A step counts a fault or none.
LEMMA FaultsGrow ==
  ASSUME Types, [Next]_vars
  PROVE  (used'.faults = 0 => used.faults = 0) /\ (StepNext \/ FlushNext => Fault \/ NoFault)
<1>1. used \in Spent
  BY TypeFacts
<1>8. ASSUME StepDerive PROVE Fault \/ NoFault
  BY <1>8 DEF StepDerive, Unreturned
<1>2. ASSUME StepNext PROVE Fault \/ NoFault
  BY <1>2, <1>8 DEF StepNext, StepRewind, StepRewindFails, Step, StepRefresh, StepRefreshFails,
     StepReorg, StepUnchanged, StepLogs, StepFails, SyncRebuild, SyncSkip, SyncInsert, SyncCommit, VerifyBlock, VerifyInsert,
     InsertNext, VerifyCommitBuilder, VerifyCommitFullnode, TickIdle, Tick, BuildBlock, BuildFails
<1>3. ASSUME FlushNext PROVE Fault \/ NoFault
  BY <1>3 DEF FlushNext, FlushSkip, FlushFails, FlushTrim, FlushDispatch, FlushStale,
     FlushWaitsForRefresh, FlushMismatchTransient, FlushMismatchSibling, FlushMismatchRewind,
     FlushSubmit, FlushSendFails, TriggersNotSent, BatchConfirmed, BatchPartlyConsumed,
     BatchNotConsumed, BatchReverted, BatchUnknown
<1>4. Fault \/ NoFault => (used'.faults = 0 => used.faults = 0)
  BY FaultCounts DEF NoFault
<1>5. ASSUME L1Next PROVE used'.faults = used.faults
  <2>1. used' = used \/ used' = [used EXCEPT !.reorgs = used.reorgs + 1]
    BY <1>5, L1Spends
  <2> QED
    BY <1>1, <2>1 DEF Spent
<1>6. ASSUME RestartNext PROVE used'.faults = used.faults
  <2>1. used' = [used EXCEPT !.crashes = used.crashes + 1]
    BY <1>6 DEF RestartNext, Crash, Shutdown, Restart
  <2> QED
    BY <1>1, <2>1 DEF Spent
<1>7. UNCHANGED vars => used' = used
  BY DEF vars
<1> QED
  BY <1>2, <1>3, <1>4, <1>5, <1>6, <1>7 DEF Next

\* The initial state
LEMMA InitLocal == Init => LocalInv
<1> SUFFICES ASSUME Init PROVE LocalInv
  OBVIOUS
<1>1. d.pending = <<>> /\ d.refresh = 0 /\ pc = "idle"
  BY DEF Init, FreshDriver
<1>2. Kept
  BY <1>1, NothingQueued DEF Kept, Live
<1> QED
  BY <1>2, InitTypes, InitIInv DEF LocalInv

\* Every step
LEMMA NextLocal == LocalInv /\ [Next]_vars => LocalInv'
<1> SUFFICES ASSUME LocalInv, [Next]_vars PROVE LocalInv'
  OBVIOUS
<1>1. Types' /\ IInv'
  BY NextTypes, NextIInv DEF LocalInv
<1>2. ASSUME used'.faults = 0 PROVE Kept'
  <2>1. Types /\ used.faults = 0 /\ Kept
    BY <1>2, FaultsGrow DEF LocalInv
  <2>2. StepNext \/ FlushNext => NoFault
    BY <1>2, <2>1, FaultsGrow, FaultCounts
  <2>3. CASE StepNext
    BY <2>1, <2>2, <2>3, StepKept, SyncKept, VerifyKept, BuildKept DEF StepNext
  <2>4. CASE FlushNext
    BY <2>1, <2>2, <2>4, PrecheckKept, MismatchKept, SubmitKept, OutcomeKept DEF FlushNext
  <2>5. CASE L1Next
    BY <2>1, <2>5, L1Kept
  <2>6. CASE RestartNext
    BY <2>6, RestartKept
  <2>7. CASE UNCHANGED vars
    BY <2>1, <2>7 DEF vars, Kept, AllOn
  <2> QED
    BY <2>3, <2>4, <2>5, <2>6, <2>7 DEF Next
<1> QED
  BY <1>1, <1>2 DEF LocalInv

\* As long as no call failed, what waits for submission is in the local chain,
\* whatever L1 reorganisations, recoveries, refreshes, requeues and restarts
\* there were.
THEOREM QueueFollowsChain == Spec => []QueueIsLocal
<1>1. Spec => []LocalInv
  BY InitLocal, NextLocal, PTL DEF Spec
<1>2. LocalInv => QueueIsLocal
  BY DEF LocalInv, Kept, AllOn, PendingIsLocal, QueueIsLocal
<1> QED
  BY <1>1, <1>2, PTL
=============================================================================
