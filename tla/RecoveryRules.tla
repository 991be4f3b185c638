---------------------------- MODULE RecoveryRules ----------------------------
(***************************************************************************)
(* The decision rules of the driver's divergence recovery, the pure part   *)
(* of driver/types.rs, driver/hold.rs and driver/flush_plan.rs.            *)
(*                                                                         *)
(* A state root is abstracted to the thing it commits to: the sequence of  *)
(* L2 blocks from block 1 on, each with its L1 context and the number of   *)
(* cross-chain entries whose effects it contains.  Two roots are equal     *)
(* exactly when the chains are.  <<>> is the genesis root and, where the   *)
(* code uses B256::ZERO, "no root given".                                  *)
(***************************************************************************)
EXTENDS Integers, Sequences, FiniteSets

CONSTANTS
  MAX_ENTRY_VERIFY_DEFERRALS, \* bound on the deferrals of one hold
  REORG_SAFETY_THRESHOLD      \* depth at which sibling reorgs are refused

ASSUME DeferralsAssumption == MAX_ENTRY_VERIFY_DEFERRALS \in Nat \ {0}
ASSUME ThresholdAssumption == REORG_SAFETY_THRESHOLD \in Nat \ {0}

None == -1

SaturatingPred(n) == IF n > 0 THEN n - 1 ELSE 0
Larger(a, b) == IF a >= b THEN a ELSE b
Smaller(a, b) == IF a <= b THEN a ELSE b

-----------------------------------------------------------------------------
(* State roots *)

\* The L2 block a non-genesis root belongs to, and the L1 block it was
\* built against (its mix_hash).
NumberOf(root) == Len(root)
ContextOf(root) == root[Len(root)].ctx

\* The root before the block, and the root of the same block with only the
\* first k of its entries applied.
PreRoot(root) == SubSeq(root, 1, Len(root) - 1)
WithEntries(root, k) == [root EXCEPT ![Len(root)].k = k]

\* PendingBlock::clean_state_root, and PendingBlock::intermediate_roots with
\* the two ends of the chain included.
CleanRoot(root) == WithEntries(root, 0)
RootChain(root) == {WithEntries(root, k) : k \in 0 .. root[Len(root)].k}

-----------------------------------------------------------------------------
(* EntryVerificationHold *)

Clear == [state |-> "clear", block |-> 0, deferrals |-> 0]
Armed(n) == [state |-> "armed", block |-> n, deferrals |-> 0]
IsArmed(hold) == hold # Clear
IsArmedFor(hold, n) == IsArmed(hold) /\ hold.block = n

\* arm is idempotent for the same block and starts over for another one.
Arm(hold, n) ==
  IF IsArmedFor(hold, n) THEN hold ELSE Armed(n)

\* defer counts first and compares afterwards.
Deferred(hold) == [hold EXCEPT !.deferrals = @ + 1]
MustRewind(hold) == Deferred(hold).deferrals >= MAX_ENTRY_VERIFY_DEFERRALS

-----------------------------------------------------------------------------
(* Sibling reorg requests *)

NoRequest == [target |-> 0, root |-> <<>>]
Request(target, root) == [target |-> target, root |-> root]

ReorgDepthExceeded(depth) == depth >= REORG_SAFETY_THRESHOLD

\* decide_divergence_recovery answers SiblingReorg for this pending block.
IsDivergent(pending, on_chain_root) ==
  /\ CleanRoot(pending) = on_chain_root
  /\ CleanRoot(pending) # pending

\* find_rightmost_sibling_reorg_target over the first `window` pending blocks.
FindRightmostTarget(pending, on_chain_root, depth, window) ==
  LET hits == {i \in 1 .. window : IsDivergent(pending[i], on_chain_root)}
  IN  IF hits = {} \/ ReorgDepthExceeded(depth) THEN NoRequest
      ELSE LET i == CHOOSE j \in hits : \A h \in hits : h <= j
           IN  Request(NumberOf(pending[i]), CleanRoot(pending[i]))

\* What verification does about a root mismatch (classify_verify_mismatch).
ClassifyVerifyMismatch(filtering, queued, pending_entry, deferrals) ==
  CASE filtering /\ ~queued -> "sibling"
    [] filtering /\ queued -> "noop"
    [] ~filtering /\ pending_entry
         /\ deferrals + 1 < MAX_ENTRY_VERIFY_DEFERRALS -> "defer"
    [] ~filtering /\ pending_entry
         /\ deferrals + 1 >= MAX_ENTRY_VERIFY_DEFERRALS -> "exhausted"
    [] OTHER -> "generic"

-----------------------------------------------------------------------------
(* Where a recovery rewinds to *)

NoAnchor == [l2 |-> 0, l1 |-> 0]
DeploymentL1 == 0

\* Mutant of RollbackL1: the anchor's own batch is skipped.
RollbackL1AtAnchor(anchor) ==
  IF anchor = NoAnchor THEN DeploymentL1 ELSE anchor.l1

\* The L1 block derivation rolls back to: just before the anchor's batch.
RollbackL1(anchor) ==
  IF anchor = NoAnchor THEN DeploymentL1 ELSE SaturatingPred(anchor.l1)

\* plan_sibling_reorg_from_verify: the rewind target for the entry block.
VerifyPlanTarget(anchor, entry_block) ==
  IF anchor = NoAnchor THEN 0 ELSE SaturatingPred(entry_block)

\* The flush-path dispatch keeps the target at or above the anchor.
FlushPlanTarget(anchor, entry_block) ==
  IF anchor = NoAnchor THEN SaturatingPred(entry_block)
  ELSE Larger(SaturatingPred(entry_block), anchor.l2)

\* set_rewind_target keeps the lowest of the targets asked for.
LowerTarget(old, target) == IF old = None THEN target ELSE Smaller(old, target)
=============================================================================
