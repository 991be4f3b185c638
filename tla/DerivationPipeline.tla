------------------------- MODULE DerivationPipeline -------------------------
(***************************************************************************)
(* The derivation pipeline of derivation.rs as operators on a record       *)
(*                                                                         *)
(*   processed  last_processed_l1_block                                    *)
(*   derived    last_derived_l2_block                                      *)
(*   info       last_l1_info (the deployment block when the code has None) *)
(*   cursor     the (l2, l1, hash) triples kept for reorg detection        *)
(*                                                                         *)
(* and on the L1 chain, a sequence of blocks [hash, batch].  L1 block 0 is *)
(* the deployment block.  A batch is what one postBatch transaction left:  *)
(* the L2 blocks of its call data (number and entry transactions each),    *)
(* how many deferred entries it carried, how many of them L1 consumed, and *)
(* the contract's state root afterwards.                                   *)
(***************************************************************************)
EXTENDS Integers, Sequences, SequencesExt, Positions

CONSTANTS
  DistinctActions,   \* no two batches carry entries with the same action hash
  REORG_CHECK_DEPTH, \* cursor entries checked for a reorg
  MAX_LOG_RANGE,     \* L1 blocks scanned by one call
  MAX_BLOCK_GAP      \* largest gap that is filled with empty blocks

ASSUME PipelineAssumption ==
  /\ DistinctActions \in BOOLEAN
  /\ REORG_CHECK_DEPTH \in Nat \ {0}
  /\ MAX_LOG_RANGE \in Nat \ {0}
  /\ MAX_BLOCK_GAP \in Nat

NoBatch == [blocks |-> <<>>, ents |-> 0, used |-> 0, root |-> <<>>]

DeploymentInfo == [l1 |-> 0, hash |-> 0]
HashAt(l1, i) == IF i = 0 THEN 0 ELSE l1[i].hash
InfoAt(l1, i) == [l1 |-> i, hash |-> HashAt(l1, i)]

\* The largest of a set of positions.
LastOf(S) == CHOOSE n \in S : \A m \in S : m <= n

NewPipeline ==
  [processed |-> 0, derived |-> 0, info |-> DeploymentInfo, cursor |-> <<>>]

-----------------------------------------------------------------------------
(* derive_next_batch *)

\* The ExecutionConsumed events the call can still hand to the batch.  They are
\* counted by action hash over the whole scanned range (`left` of acc), so a
\* batch whose hash is its own sees its own events only.
Events(acc, batch) == IF DistinctActions THEN batch.used ELSE acc.left
Taken(acc, batch) ==
  IF batch.ents <= Events(acc, batch) THEN batch.ents ELSE Events(acc, batch)

\* Mutant of Filtered: unconsumed entry transactions stay in the block.
FilteredNothing(k, events) == k

\* An entry transaction survives the filtering only if there is an event for it.
Filtered(k, events) == IF k <= events THEN k ELSE events

\* The posted root with the effects of the first k entries of its block.
EffectiveRoot(batch, k) ==
  [batch.root EXCEPT ![Len(batch.root)].k = Filtered(Last(batch.blocks).k, k)]

\* The DerivedBlock for the j-th L2 block of the batch in L1 block i.  Only
\* the last one carries the root; the first and the last are filtered when
\* an entry of the batch was left unconsumed.
SubmittedBlock(acc, l1, i, j) ==
  LET batch == l1[i].batch
      edge == j = 1 \/ j = Len(batch.blocks)
      filt == edge /\ Taken(acc, batch) < batch.ents
  IN  [n |-> batch.blocks[j].n,
       info |-> InfoAt(l1, i - 1),
       k |-> IF filt THEN Filtered(batch.blocks[j].k, Events(acc, batch))
             ELSE batch.blocks[j].k,
       root |-> IF j = Len(batch.blocks)
                THEN EffectiveRoot(batch, Taken(acc, batch)) ELSE <<>>,
       filt |-> filt]

GapBlock(n, info) ==
  [n |-> n, info |-> info, k |-> 0, root |-> <<>>, filt |-> FALSE]

\* One BatchPosted log: `acc` holds the local variables of the call.  Blocks
\* the pipeline already derived are stale and skipped; missing numbers are
\* filled with empty blocks on the previous L1 context.  (The numbers of one
\* batch are consecutive, so only its first block can follow a gap.)
ScanL1Block(dv, acc, l1, i) ==
  LET batch == l1[i].batch
      fresh == Retain([j \in 1 .. Len(batch.blocks) |-> j],
                      {j \in 1 .. Len(batch.blocks) :
                         ~ /\ batch.blocks[j].n <= dv.derived
                           /\ batch.blocks[j].n <= acc.derived})
      first == batch.blocks[fresh[1]].n
      gap == [g \in 1 .. (first - acc.derived - 1) |->
                GapBlock(acc.derived + g, acc.info)]
      left == acc.left - Taken(acc, batch)
  IN  IF acc.failed THEN acc
      ELSE IF fresh = <<>> THEN [acc EXCEPT !.left = left]
      ELSE IF Len(gap) > MAX_BLOCK_GAP THEN [acc EXCEPT !.failed = TRUE]
      ELSE [blocks |-> acc.blocks \o gap \o
                         [x \in 1 .. Len(fresh) |->
                            SubmittedBlock(acc, l1, i, fresh[x])],
            derived |-> batch.blocks[Last(fresh)].n,
            info |-> InfoAt(l1, i - 1),
            cursor |-> acc.cursor \o
                         [x \in 1 .. Len(fresh) |->
                            [n |-> batch.blocks[fresh[x]].n, l1 |-> i,
                             hash |-> HashAt(l1, i)]],
            left |-> left,
            failed |-> FALSE]

\* All ExecutionConsumed events of the L1 blocks from .. to.
ConsumedEvents(l1, from, to) ==
  LET upTo[i \in from - 1 .. to] ==
        IF i = from - 1 THEN 0 ELSE upTo[i - 1] + l1[i].batch.used
  IN  upTo[to]

\* sort_by_key and dedup_by_key: in the order of the L2 numbers, the first of
\* several with the same number.
FirstOfEach(s) ==
  LET numbers == {s[x].n : x \in 1 .. Len(s)}
      First(n) == CHOOSE x \in 1 .. Len(s) :
                    s[x].n = n /\ \A w \in 1 .. (x - 1) : s[w].n # n
  IN  [y \in 1 .. Cardinality(numbers) |-> s[First(Nth(numbers, y))]]

\* (With the CHOOSE, here and below, TLC evaluates the argument only once.)
Deduplicated(s) == CHOOSE r \in {FirstOfEach(t) : t \in {s}} : TRUE

\* The fold over the scanned range, starting from the pipeline's own fields.
Scan(dv, l1, to) ==
  LET local == [blocks |-> <<>>, derived |-> dv.derived, info |-> dv.info,
                cursor |-> <<>>, failed |-> FALSE,
                left |-> ConsumedEvents(l1, dv.processed + 1, to)]
      upTo[i \in dv.processed .. to] ==
        IF i = dv.processed THEN local
        ELSE CHOOSE next \in {ScanL1Block(dv, acc, l1, i) : acc \in {upTo[i - 1]}} : TRUE
  IN  upTo[to]

\* Mutant of Capped: the cursor is never cut.
CappedNever(cursor) == cursor

\* commit_batch drops the oldest cursor entries past twice the check depth.
Capped(cursor) ==
  IF Len(cursor) <= 2 * REORG_CHECK_DEPTH THEN cursor
  ELSE SubSeq(cursor, Len(cursor) - REORG_CHECK_DEPTH + 1, Len(cursor))

\* A batch whose transaction is missing or cannot be decoded is skipped; the
\* events of its entries are still counted.
Skipped(batch) == [batch EXCEPT !.blocks = <<>>, !.ents = 0]

\* L1 as the call sees it: what the batches are and how many entries were
\* consumed comes from the logs, the hashes from headers fetched afterwards.
Answered(logs, l1, missing) ==
  [i \in 1 .. Len(logs) |->
     [hash |-> l1[i].hash,
      batch |-> IF i \in missing THEN Skipped(logs[i].batch)
                ELSE logs[i].batch]]

\* The blocks of the next batch, the pipeline once the batch is committed,
\* and whether the call returned the MAX_BLOCK_GAP error.
DeriveNextBatch(dv, l1, latest) ==
  IF latest <= dv.processed
  THEN [blocks |-> <<>>, next |-> dv, failed |-> FALSE]
  ELSE LET bound == dv.processed + MAX_LOG_RANGE
           to == IF latest <= bound THEN latest ELSE bound
           acc == Scan(dv, l1, to)
           blocks == Deduplicated(acc.blocks)
       IN  [blocks |-> blocks,
            next |-> [processed |-> to,
                      derived |-> IF blocks = <<>> THEN acc.derived
                                  ELSE Last(blocks).n,
                      info |-> acc.info,
                      cursor |-> Capped(dv.cursor \o Deduplicated(acc.cursor))],
            failed |-> acc.failed]

-----------------------------------------------------------------------------
(* Reorg detection and rollback *)

Checked(cursor) ==
  SubSeq(cursor, (IF Len(cursor) > REORG_CHECK_DEPTH
                  THEN Len(cursor) - REORG_CHECK_DEPTH ELSE 0) + 1, Len(cursor))

\* detect_reorg looks at the newest cursor entry first, and only when its L1
\* block was replaced walks back to the newest entry that is still canonical.
ReorgDetected(dv, l1) ==
  dv.cursor # <<>> /\ Last(dv.cursor).hash # HashAt(l1, Last(dv.cursor).l1)

\* Mutant of ForkPoint: one L1 block too high.
ForkPointTooHigh(dv, l1) ==
  LET entries == Checked(dv.cursor)
      canonical == {i \in 1 .. Len(entries) : entries[i].hash = HashAt(l1, entries[i].l1)}
  IN  IF canonical = {} THEN 0 ELSE entries[LastOf(canonical)].l1 + 1

ForkPoint(dv, l1) ==
  LET entries == Checked(dv.cursor)
      canonical == {i \in 1 .. Len(entries) : entries[i].hash = HashAt(l1, entries[i].l1)}
  IN  IF canonical = {} THEN 0 ELSE entries[LastOf(canonical)].l1

KeptUpTo(cursor, b) == Retain(cursor, {i \in 1 .. Len(cursor) : cursor[i].l1 <= b})

\* Mutant of RollbackTo: the cursor is not truncated.
RollbackKeepsCursor(dv, b) ==
  LET kept == KeptUpTo(dv.cursor, b)
  IN  [processed |-> b,
       derived |-> IF kept = <<>> THEN 0 ELSE Last(kept).n,
       info |-> IF kept = <<>> THEN DeploymentInfo
                ELSE [l1 |-> Last(kept).l1, hash |-> Last(kept).hash],
       cursor |-> dv.cursor]

\* Mutant of RollbackTo: the rollback stops one block early.
RollbackOneShort(dv, b) ==
  LET kept == KeptUpTo(dv.cursor, b)
  IN  [processed |-> b + 1,
       derived |-> IF kept = <<>> THEN 0 ELSE Last(kept).n,
       info |-> IF kept = <<>> THEN DeploymentInfo
                ELSE [l1 |-> Last(kept).l1, hash |-> Last(kept).hash],
       cursor |-> kept]

RollbackTo(dv, b) ==
  LET kept == KeptUpTo(dv.cursor, b)
  IN  [processed |-> b,
       derived |-> IF kept = <<>> THEN 0 ELSE Last(kept).n,
       info |-> IF kept = <<>> THEN DeploymentInfo
                ELSE [l1 |-> Last(kept).l1, hash |-> Last(kept).hash],
       cursor |-> kept]

PruneFinalized(dv, finalized) ==
  [dv EXCEPT !.cursor = Retain(@, {i \in 1 .. Len(@) : @[i].l1 > finalized})]

-----------------------------------------------------------------------------
(* Restart *)

\* rebuild_cursor_from_headers: the newest headers give the L1 context pair
\* (mix_hash, parent_beacon_block_root) of each L2 block.
HeaderMeta(chain, n) ==
  [n |-> n, l1 |-> chain[n].ctx, hash |-> chain[n].hash]

\* resume_from the checkpoint, set_last_derived_l2_block(head), rebuild.
Restarted(checkpoint, chain) ==
  LET head == Len(chain)
      start == IF head > REORG_CHECK_DEPTH THEN head - REORG_CHECK_DEPTH ELSE 1
  IN  [processed |-> checkpoint,
       derived |-> head,
       info |-> IF head = 0 THEN DeploymentInfo
                ELSE [l1 |-> chain[head].ctx, hash |-> chain[head].hash],
       cursor |-> [x \in 1 .. (head - start + 1) |->
                     HeaderMeta(chain, start + x - 1)]]
=============================================================================
