----------------------------- MODULE CallQueues -----------------------------
(***************************************************************************)
(* How a user's cross-chain transaction travels through the builder: the   *)
(* RPC handlers put it into one of three shared queues (rpc.rs), a builder *)
(* tick drains the queues, builds blocks that load the L2 entries, and the *)
(* flush posts the L1 entries and then releases the user's held L1         *)
(* transaction behind them (driver/step_builder.rs, driver/flush.rs).      *)
(*                                                                         *)
(* The handlers run on other threads: they interleave with every step of   *)
(* the driver between two of its lock acquisitions or awaits.  What the    *)
(* driver decides from L1 state (module Driver) is a bounded               *)
(* nondeterministic choice here: faults counts every outcome that is not   *)
(* the smooth one.                                                         *)
(***************************************************************************)
EXTENDS PendingL1Queue, SequencesExt

CONSTANTS
  Simple,        \* L1->L2 calls with one CALL+RESULT pair
  Continuation,  \* L1->L2 calls built by buildExecutionTable
  Outgoing,      \* L2->L1 calls
  Direct,        \* raw L1 transactions handed to queueL1ForwardTx
  WithTx,        \* the L1->L2 calls that carry the user's raw_l1_tx
  Terminal,      \* L1->L2 calls whose delivery is known to revert
  Price,         \* gas price of each L1->L2 call and direct transaction
  L1Count,       \* L1 entries of each call
  OverbidPct,    \* config.l1_gas_overbid_pct
  CrossCap, OutCap, ForwardCap,      \* 500, 100 and 1000 in rpc.rs
  MAX_PENDING_CROSS_CHAIN_ENTRIES,
  MAX_BATCH_SIZE,
  PENDING_CAP,   \* BUNDLE_PATH_PENDING_CAP: blocks waiting for submission
  \* Bounds of the model
  MaxPerTick,    \* blocks one tick builds
  MaxFaults,     \* failures and recoveries
  MaxRootFaults  \* failures to compute intermediate state roots

Incoming == Simple \cup Continuation
Calls == Incoming \cup Outgoing
L1Txs == WithTx \cup Direct

ASSUME CallQueuesAssumption ==
  /\ WithTx \subseteq Incoming /\ Terminal \subseteq Incoming
  /\ Calls \cap Direct = {} /\ Incoming \cap Outgoing = {}
  /\ Simple \cap Continuation = {}
  /\ Price \in [Incoming \cup Direct -> Nat]
  /\ L1Count \in [Calls -> Nat \ {0}]
  /\ OverbidPct \in Int
  /\ {CrossCap, OutCap, ForwardCap, MAX_PENDING_CROSS_CHAIN_ENTRIES,
      MAX_BATCH_SIZE, PENDING_CAP, MaxPerTick} \subseteq Nat \ {0}
  /\ {MaxFaults, MaxRootFaults} \subseteq Nat

VARIABLES
  cross,       \* queued_cross_chain_calls
  out,         \* queued_l2_to_l1_calls
  fwd,         \* pending_l1_forward_txs
  pending_l1,
  blocks,      \* pending_submissions: what each block loads and includes, and
               \* whether a batch with it was handed to L1 already
  pool,        \* held L2 transactions in the L2 transaction pool
  mode, hold, recovery, cooling,
  pc,          \* where the driver is
  tick,        \* locals of step_builder
  flight,      \* locals of flush_to_l1; seen: the forwards its price was computed from
  accepted,    \* calls whose RPC returned success
  posted,      \* calls whose entries were handed to L1
  confirmed,   \* calls whose batch was confirmed and kept
  dropped,     \* calls whose entries were discarded before being posted
  sent,        \* how often each L1 transaction was forwarded
  faults, rootFaults

shared == <<cross, out, fwd>>
driver == <<pending_l1, blocks, pool, mode, hold, recovery, cooling>>
history == <<accepted, posted, confirmed, dropped, sent>>
bounds == <<faults, rootFaults>>
vars == <<shared, driver, pc, tick, flight, history, bounds>>

NoTick == [todo |-> <<>>, calls |-> <<>>, outs |-> <<>>, txs |-> <<>>, loads |-> {},
           len |-> 0, groups |-> 0, left |-> 0, built |-> 0, inner |-> FALSE]
NoFlight == [q |-> EmptyQueue, blocks |-> <<>>, hint |-> 0, seen |-> {}]

Init ==
  /\ cross = <<>> /\ out = <<>> /\ fwd = <<>>
  /\ pending_l1 = EmptyQueue /\ blocks = <<>> /\ pool = {}
  /\ mode = "builder" /\ hold = FALSE /\ recovery = "none" /\ cooling = FALSE
  /\ pc = "idle" /\ tick = NoTick /\ flight = NoFlight
  /\ accepted = {} /\ posted = {} /\ confirmed = {} /\ dropped = {}
  /\ sent = [t \in L1Txs |-> 0]
  /\ faults = 0 /\ rootFaults = 0

Fault == faults < MaxFaults /\ faults' = faults + 1 /\ UNCHANGED rootFaults
NoFault == UNCHANGED bounds

-----------------------------------------------------------------------------
(* RPC handlers                                                            *)

\* initiate_cross_chain_call and build_execution_table; a full queue is an
\* error for the user and changes nothing.  The driver holds the lock while
\* it drains the queue.
QueueCrossChainCall(c) ==
  /\ pc # "incoming" /\ c \notin accepted /\ Len(cross) < CrossCap
  /\ cross' = Append(cross, c)
  /\ accepted' = accepted \cup {c}
  /\ UNCHANGED <<out, fwd, driver, pc, tick, flight,
                 posted, confirmed, dropped, sent, bounds>>

\* initiate_l2_cross_chain_call and build_l2_to_l1_execution_table; both ask
\* for one executeL2TX trigger.
QueueL2ToL1Call(c) ==
  /\ pc # "outgoing" /\ c \notin accepted /\ Len(out) < OutCap
  /\ out' = Append(out, c)
  /\ accepted' = accepted \cup {c}
  /\ UNCHANGED <<cross, fwd, driver, pc, tick, flight,
                 posted, confirmed, dropped, sent, bounds>>

\* queue_l1_forward_tx
QueueL1ForwardTx(t) ==
  /\ t \notin accepted /\ Len(fwd) < ForwardCap
  /\ fwd' = Append(fwd, t)
  /\ accepted' = accepted \cup {t}
  /\ UNCHANGED <<cross, out, driver, pc, tick, flight,
                 posted, confirmed, dropped, sent, bounds>>

-----------------------------------------------------------------------------
(* Recoveries                                                              *)

\* Mutant: a rewind that keeps the users' transactions for the next batch.
ClearKeepsForwards(newMode, request) ==
  /\ pending_l1' = EmptyQueue /\ blocks' = <<>> /\ fwd' = fwd
  /\ dropped' = dropped \cup (CallsIn(pending_l1) \ posted)
  /\ hold' = FALSE /\ mode' = newMode /\ recovery' = request

\* clear_internal_state, with the mode and request the caller leaves behind.
\* The transactions in the forward queue go with the entries.
ClearInternalState(newMode, request) ==
  /\ pending_l1' = EmptyQueue /\ blocks' = <<>> /\ fwd' = <<>>
  /\ dropped' = dropped \cup (CallsIn(pending_l1) \ posted)
  /\ hold' = FALSE /\ mode' = newMode /\ recovery' = request

\* rewind_to_re_derive called by the derivation side of a step: verification
\* found a block that L1 does not have.
DerivationRewinds ==
  /\ pc = "idle" /\ mode = "builder" /\ Fault
  /\ ClearInternalState("sync", "none")
  /\ UNCHANGED <<cross, out, pool, cooling, pc, tick, flight,
                 accepted, posted, confirmed, sent>>

\* Derivation verified the entry block.
HoldReleased ==
  /\ pc = "idle" /\ hold /\ hold' = FALSE
  /\ UNCHANGED <<shared, pending_l1, blocks, pool, mode, recovery, cooling,
                 pc, tick, flight, history, bounds>>

\* step_sync reached the L1 head; a sibling it was asked for is rebuilt.
SyncDone ==
  /\ pc = "idle" /\ mode = "sync"
  /\ mode' = "builder" /\ recovery' = "none"
  /\ UNCHANGED <<shared, pending_l1, blocks, pool, hold, cooling, pc, tick,
                 flight, history, bounds>>

\* rebuild_with_fresh_l1_context: everything pending is replaced by the front
\* block, rebuilt without entries from what the pool holds.
RebuildWithFreshL1Context ==
  /\ pc = "idle" /\ recovery = "refresh"
  /\ pending_l1' = EmptyQueue /\ fwd' = <<>>
  /\ dropped' = dropped \cup (CallsIn(pending_l1) \ posted)
  /\ blocks' = <<[loads |-> {}, txs |-> pool, submitted |-> FALSE]>> /\ pool' = {}
  /\ hold' = FALSE /\ recovery' = "none"
  /\ UNCHANGED <<cross, out, mode, cooling, pc, tick, flight,
                 accepted, posted, confirmed, sent, bounds>>

\* SUBMISSION_COOLDOWN_SECS have passed since the last failure.
CooldownEnds ==
  /\ cooling /\ cooling' = FALSE
  /\ UNCHANGED <<shared, pending_l1, blocks, pool, mode, hold, recovery, pc,
                 tick, flight, history, bounds>>

-----------------------------------------------------------------------------
(* A builder tick                                                          *)

\* calls.sort_by_key(Reverse(effective_gas_price)), a stable sort: call i comes first.
Foremost(calls, i) ==
  \A j \in DOMAIN calls : \/ Price[calls[j]] < Price[calls[i]]
                          \/ Price[calls[j]] = Price[calls[i]] /\ i <= j

\* Mutant: had_continuation starts out true.
LaterAlways(c) == c \in Continuation

\* One continuation per cycle: later ones go back to the queue.
Later(c) ==
  /\ c \in Continuation
  /\ \E i \in DOMAIN tick.calls : tick.calls[i] \in Continuation

\* Mutant: the calls set aside are not pushed back.
SetAsideForgotten(c) == cross

\* queue.push of a call set aside
SetAside(c) == Append(cross, c)

\* compute_tick_context found blocks to build, and drain_rpc_queues empties the
\* L1->L2 queue under its lock.
DrainCrossChainCalls ==
  /\ pc = "idle" /\ mode = "builder" /\ recovery # "refresh" /\ ~hold
  /\ \E n \in 1..MaxPerTick :
       /\ Len(blocks) + n <= PENDING_CAP
       /\ tick' = [NoTick EXCEPT !.todo = cross, !.left = n,
                                 !.len = Len(pending_l1.entries),
                                 !.groups = Len(pending_l1.groups)]
  /\ cross' = <<>>
  /\ pc' = "incoming"
  /\ UNCHANGED <<out, fwd, driver, flight, history, bounds>>

\* An iteration of its loop over the sorted calls, the lock still held.  A
\* terminal failure loads nothing on L2, but its L1 entries are posted.
DrainCall ==
  /\ pc = "incoming"
  /\ \E i \in DOMAIN tick.todo :
       LET c == tick.todo[i]
           rest == [tick EXCEPT !.todo = RemoveAt(@, i)]
       IN  /\ Foremost(tick.todo, i)
           /\ \/ Later(c) /\ cross' = SetAside(c) /\ tick' = rest /\ UNCHANGED pending_l1
              \/ /\ ~Later(c) /\ UNCHANGED cross
                 /\ pending_l1' = append_group(pending_l1, c, L1Count[c], FALSE)
                 /\ tick' = [rest EXCEPT
                      !.calls = Append(@, c),
                      !.txs = IF c \in WithTx THEN Append(@, c) ELSE @,
                      !.loads = IF c \in Terminal THEN @ ELSE @ \cup {c}]
  /\ UNCHANGED <<out, fwd, blocks, pool, mode, hold, recovery, cooling, pc,
                 flight, history, bounds>>

\* The lock is released, and the L2->L1 queue is emptied under its own.
DrainL2ToL1Calls ==
  /\ pc = "incoming" /\ tick.todo = <<>>
  /\ tick' = [tick EXCEPT !.todo = out, !.outs = out]
  /\ out' = <<>>
  /\ pc' = "outgoing"
  /\ UNCHANGED <<cross, fwd, driver, flight, history, bounds>>

\* An iteration of the loop over these.
DrainL2ToL1Call ==
  /\ pc = "outgoing" /\ tick.todo # <<>>
  /\ LET c == Head(tick.todo)
     IN  /\ pending_l1' = append_group(pending_l1, c, L1Count[c], TRUE)
         /\ tick' = [tick EXCEPT !.todo = Tail(@), !.loads = @ \cup {c}]
  /\ UNCHANGED <<shared, blocks, pool, mode, hold, recovery, cooling, pc, flight,
                 history, bounds>>

\* inject_held_l2_txs
InjectHeldL2Txs ==
  /\ pc = "outgoing" /\ tick.todo = <<>>
  /\ pool' = pool \cup ToSet(tick.outs)
  /\ pc' = "build"
  /\ UNCHANGED <<shared, pending_l1, blocks, mode, hold, recovery, cooling, tick,
                 flight, history, bounds>>

\* Nothing to build, or the hold is armed: submission is still tried.
FlushOnly ==
  /\ pc = "idle" /\ mode = "builder" /\ recovery # "refresh"
  /\ pc' = "flush" /\ tick' = NoTick
  /\ UNCHANGED <<shared, driver, flight, history, bounds>>

\* Mutant: the loop builds one block too many.
MoreToBuildInclusive == tick.left >= 0

\* while l2_head_number < effective_target
MoreToBuild == tick.left > 0

\* Mutant: the batch is flushed one block early.
BatchFullEarly(built) == built + 1 >= MAX_BATCH_SIZE

\* blocks_in_pending_batch >= MAX_BATCH_SIZE
BatchFull(built) == built >= MAX_BATCH_SIZE

\* One iteration of the build loop.  The L2 entries go into the last block;
\* every block takes what the pool holds.  finalize_block_entries discards
\* the pending L1 entries when the intermediate roots cannot be computed.
BuildBlock ==
  /\ pc = "build" /\ MoreToBuild
  /\ LET loads == IF tick.left = 1 THEN tick.loads ELSE {}
         kept == trim_entries_from_front(pending_l1,
                                         MAX_PENDING_CROSS_CHAIN_ENTRIES)
         full == BatchFull(tick.built + 1)
     IN  /\ \E failed \in BOOLEAN :
              /\ failed => /\ loads # {} \/ HasTriggers(kept)
                           /\ rootFaults < MaxRootFaults
              /\ pending_l1' = IF failed THEN EmptyQueue ELSE kept
              /\ dropped' = dropped \cup
                   ((CallsIn(pending_l1) \ CallsIn(pending_l1')) \ posted)
              /\ rootFaults' = rootFaults + (IF failed THEN 1 ELSE 0)
         /\ blocks' = Append(blocks, [loads |-> loads, txs |-> pool,
                                    submitted |-> FALSE])
         /\ pool' = {}
         /\ tick' = [tick EXCEPT !.left = @ - 1, !.inner = full,
                                 !.built = IF full THEN 0 ELSE @ + 1]
         /\ pc' = IF full THEN "flush" ELSE "build"
  /\ UNCHANGED <<shared, mode, hold, recovery, cooling, flight,
                 accepted, posted, confirmed, sent, faults>>

\* build_builder_protocol_txs or build_and_insert_block failed:
\* rollback_queue_drain, and sync mode.
BuildFails ==
  /\ pc = "build" /\ MoreToBuild /\ Fault
  /\ pending_l1' = truncate_to(pending_l1, tick.len, tick.groups)
  /\ cross' = cross \o tick.calls
  /\ out' = out \o tick.outs
  /\ mode' = "sync" /\ pc' = "idle" /\ tick' = NoTick
  /\ UNCHANGED <<fwd, blocks, pool, hold, recovery, cooling, flight, history>>

\* After the loop the held L1 transactions go to the forward queue.
CommitForwardTxs ==
  /\ pc = "build" /\ tick.left = 0
  /\ fwd' = fwd \o tick.txs
  /\ tick' = [tick EXCEPT !.inner = FALSE] /\ pc' = "flush"
  /\ UNCHANGED <<cross, out, driver, flight, history, bounds>>

-----------------------------------------------------------------------------
(* flush_to_l1                                                             *)

\* flush_to_l1 returned.  A flush inside the loop ends the tick when it left
\* a hold or a recovery behind, and the loop goes on otherwise.
Return(bail) ==
  /\ flight' = NoFlight
  /\ IF tick.inner /\ ~bail
       THEN pc' = "build" /\ tick' = [tick EXCEPT !.inner = FALSE]
       ELSE pc' = "idle" /\ tick' = NoTick

Nothing == blocks = <<>> /\ is_empty(pending_l1)

\* flush_precheck got past the hold and the cooldown.
Prechecked == pc = "flush" /\ ~Nothing /\ ~hold /\ ~cooling

\* flush_precheck and the pre-state check: nothing to send, hold, cooldown,
\* or a root that could not be read or does not match yet.
FlushSkips ==
  /\ pc = "flush"
  /\ IF Prechecked THEN Fault ELSE NoFault
  /\ Return(hold \/ recovery # "none")
  /\ UNCHANGED <<shared, driver, history>>

\* Blocks of a batch whose receipt never came are on L1: they leave the front
\* of the queue, their entries stay.
FlushTrims ==
  /\ Prechecked /\ recovery = "none" /\ Fault
  /\ \E n \in 1..Len(blocks) :
       /\ \A i \in 1..n : blocks[i].submitted
       /\ blocks' = SubSeq(blocks, n + 1, Len(blocks))
  /\ UNCHANGED <<shared, pending_l1, pool, mode, hold, recovery, cooling, pc,
                 tick, flight, history>>

\* The front block's L1 context has passed: an anchor refresh is queued.
FlushFindsStaleContext ==
  /\ Prechecked /\ recovery = "none" /\ blocks # <<>> /\ Fault
  /\ recovery' = "refresh"
  /\ Return(TRUE)
  /\ UNCHANGED <<shared, pending_l1, blocks, pool, mode, hold, cooling, history>>

\* The pre-state mismatch persists and the anchor block differs from L1: a
\* sibling reorg is queued, the blocks stay.
FlushFindsDivergentAnchor ==
  /\ Prechecked /\ recovery = "none" /\ blocks # <<>> /\ Fault
  /\ recovery' = "sibling"
  /\ Return(TRUE)
  /\ UNCHANGED <<shared, pending_l1, blocks, pool, mode, hold, cooling, history>>

\* A queued sibling reorg is dispatched, or the pre-state mismatch persists:
\* everything pending is cleared and the driver goes to sync mode.
FlushRewinds ==
  /\ Prechecked
  /\ \/ recovery = "sibling" /\ NoFault
     \/ recovery = "none" /\ blocks # <<>> /\ Fault
  /\ ClearInternalState("sync", recovery)
  /\ Return(TRUE)
  /\ UNCHANGED <<cross, out, pool, cooling, accepted, posted, confirmed, sent>>

Fees == {Price[cross[i]] : i \in DOMAIN cross} \cup {Price[fwd[i]] : i \in DOMAIN fwd}

\* Mutant: the overbid is lost to truncation for small fees.
compute_gas_overbid_truncating ==
  LET max_fee == CHOOSE f \in Fees : \A g \in Fees : g <= f
  IN  IF Fees \subseteq {0} THEN 0 ELSE max_fee + (max_fee * OverbidPct) \div 100

\* compute_gas_overbid; 0 leaves the gas price to the default.
compute_gas_overbid ==
  LET max_fee == CHOOSE f \in Fees : \A g \in Fees : g <= f
      bump == (max_fee * OverbidPct) \div 100
      cut == (max_fee * (-OverbidPct)) \div 100
  IN  IF Fees \subseteq {0} THEN 0
      ELSE IF OverbidPct >= 0 THEN max_fee + (IF bump = 0 THEN 1 ELSE bump)
      ELSE IF cut > max_fee THEN 0 ELSE max_fee - cut

\* The batch is collected, priced, and the hold armed when it has entries.
\* It takes a run of front blocks with one L1 context; how long the run is
\* depends on L1.
CollectBatch ==
  /\ Prechecked /\ recovery = "none"
  /\ \E n \in 0..Len(blocks) :
       /\ n <= MAX_BATCH_SIZE /\ (n = 0 <=> blocks = <<>>)
       /\ flight' = [q |-> pending_l1, blocks |-> SubSeq(blocks, 1, n),
                     hint |-> compute_gas_overbid, seen |-> ToSet(fwd)]
       /\ blocks' = SubSeq(blocks, n + 1, Len(blocks))
       /\ hold' = (~is_empty(pending_l1) /\ n > 0)
  /\ pending_l1' = EmptyQueue
  /\ pc' = "send"
  /\ UNCHANGED <<shared, pool, mode, recovery, cooling, tick, history, bounds>>

\* The collected batch goes back to the front of the queues.
Requeue(submitted) ==
  /\ blocks' = [i \in DOMAIN flight.blocks |->
                  [flight.blocks[i] EXCEPT !.submitted = @ \/ submitted]] \o blocks
  /\ pending_l1' = flight.q
  /\ hold' = FALSE /\ cooling' = TRUE

SendFails ==
  /\ pc = "send" /\ Fault
  /\ Requeue(FALSE) /\ Return(FALSE)
  /\ UNCHANGED <<shared, pool, mode, recovery, history>>

SendSucceeds ==
  /\ pc = "send"
  /\ posted' = posted \cup CallsIn(flight.q)
  /\ pc' = IF is_empty(flight.q) THEN "receipt" ELSE "forward"
  /\ UNCHANGED <<shared, driver, tick, flight, accepted, confirmed, dropped,
                 sent, bounds>>

\* Mutant: the queue is read and not drained.
StillQueuedAll == fwd

\* During the cooldown the drained transactions are put back.
StillQueued == IF cooling THEN fwd ELSE <<>>

\* forward_queued_l1_txs: a transaction L1 refuses is not tried again.
ForwardQueuedL1Txs ==
  /\ pc = "forward"
  /\ fwd' = StillQueued
  /\ sent' = [t \in L1Txs |-> sent[t] +
       (IF cooling THEN 0 ELSE Cardinality({i \in DOMAIN fwd : fwd[i] = t}))]
  /\ pc' = IF HasTriggers(flight.q) THEN "triggers" ELSE "receipt"
  /\ UNCHANGED <<cross, out, driver, tick, flight, accepted, posted, confirmed,
                 dropped, bounds>>

\* send_l2_to_l1_triggers sent them all.
SendTriggers ==
  /\ pc = "triggers" /\ pc' = "receipt"
  /\ UNCHANGED <<shared, driver, tick, flight, history, bounds>>

\* A trigger could not be sent, the batch or a trigger reverted, or only some
\* entries were consumed: rewind_to_re_derive.
BatchFails ==
  /\ \/ pc = "triggers"
     \/ pc = "receipt"
  /\ Fault
  /\ ClearInternalState("sync", "none")
  /\ Return(TRUE)
  /\ UNCHANGED <<cross, out, pool, cooling, accepted, posted, confirmed, sent>>

\* External: L1 consumes a call's entries only for the user's transaction.
Consumable(q) == \A c \in CallsIn(q) \cap WithTx : sent[c] > 0

\* The batch is confirmed.  The hold goes when all entries were consumed and
\* stays when neither the events nor the new root could be read.
ReceiptConfirms ==
  /\ pc = "receipt"
  /\ hold' \in IF Consumable(flight.q) THEN {FALSE, hold} ELSE {hold}
  /\ confirmed' = confirmed \cup CallsIn(flight.q)
  /\ cooling' = FALSE
  /\ Return(hold')
  /\ UNCHANGED <<shared, pending_l1, blocks, pool, mode, recovery, accepted,
                 posted, dropped, sent, bounds>>

\* The batch is confirmed and consumed nothing: a sibling reorg is queued.
ReceiptConfirmsNothing ==
  /\ pc = "receipt" /\ ~is_empty(flight.q) /\ Fault
  /\ hold' = FALSE /\ recovery' = "sibling" /\ cooling' = FALSE
  /\ Return(TRUE)
  /\ UNCHANGED <<shared, pending_l1, blocks, pool, mode, history>>

\* The receipt did not come in time: the batch will be sent again.
ReceiptTimesOut ==
  /\ pc = "receipt" /\ Fault
  /\ Requeue(TRUE) /\ Return(FALSE)
  /\ UNCHANGED <<shared, pool, mode, recovery, history>>

-----------------------------------------------------------------------------
RpcNext ==
  \/ \E c \in Incoming : QueueCrossChainCall(c)
  \/ \E c \in Outgoing : QueueL2ToL1Call(c)
  \/ \E t \in Direct : QueueL1ForwardTx(t)

TickNext ==
  \/ DrainCrossChainCalls \/ DrainCall \/ DrainL2ToL1Calls \/ DrainL2ToL1Call
  \/ InjectHeldL2Txs \/ BuildBlock \/ BuildFails \/ CommitForwardTxs \/ FlushOnly

FlushNext ==
  \/ FlushSkips \/ FlushTrims \/ FlushFindsStaleContext
  \/ FlushFindsDivergentAnchor \/ FlushRewinds \/ CollectBatch
  \/ SendFails \/ SendSucceeds \/ ForwardQueuedL1Txs \/ SendTriggers
  \/ BatchFails \/ ReceiptConfirms \/ ReceiptConfirmsNothing \/ ReceiptTimesOut

Recovers == HoldReleased \/ SyncDone \/ RebuildWithFreshL1Context

RecoveryNext == DerivationRewinds \/ Recovers \/ CooldownEnds

Next == RpcNext \/ TickNext \/ FlushNext \/ RecoveryNext

Spec == Init /\ [][Next]_vars

\* The driver task is polled until it returns, recoveries and the cooldown
\* end, and L1 keeps growing, so that there is a block to build again and
\* again when the driver looks.
FairSpec ==
  /\ Spec
  /\ WF_vars(TickNext \/ FlushNext) /\ WF_vars(CooldownEnds)
  /\ SF_vars(Recovers) /\ SF_vars(DrainCrossChainCalls)

-----------------------------------------------------------------------------
(* Properties                                                              *)

Queues == [entries : Seq(Calls), groups : Seq([start : Nat, trigger : BOOLEAN])]
Blocks == [loads : SUBSET Calls, txs : SUBSET Outgoing, submitted : BOOLEAN]

\* The queues, the driver's fields and its locals have their types.
TypeOK ==
  /\ cross \in Seq(Incoming) /\ out \in Seq(Outgoing) /\ fwd \in Seq(L1Txs)
  /\ pending_l1 \in Queues /\ blocks \in Seq(Blocks) /\ pool \subseteq Outgoing
  /\ mode \in {"builder", "sync"} /\ hold \in BOOLEAN /\ cooling \in BOOLEAN
  /\ recovery \in {"none", "sibling", "refresh"}
  /\ pc \in {"idle", "incoming", "outgoing", "build", "flush", "send", "forward",
             "triggers", "receipt"}
  /\ tick \in [todo : Seq(Calls), calls : Seq(Incoming), outs : Seq(Outgoing), txs : Seq(WithTx),
               loads : SUBSET Calls, len : Nat, groups : Nat, left : Nat,
               built : Nat, inner : BOOLEAN]
  /\ flight \in [q : Queues, blocks : Seq(Blocks), hint : Nat,
                 seen : SUBSET L1Txs]
  /\ accepted \subseteq Calls \cup Direct
  /\ {posted, confirmed, dropped} \subseteq SUBSET Calls
  /\ sent \in [L1Txs -> Nat] /\ faults \in Nat /\ rootFaults \in Nat

\* The entry vector and the group starts stay in step through drains,
\* rollbacks, requeues and recoveries: every trigger group covers exactly the
\* entries of one call (pending_queue.rs, PendingL1Group::start).
GroupsInStep == InStep(pending_l1) /\ InStep(flight.q)

\* The calls that no entry was made for yet.
Waiting == ToSet(cross) \cup ToSet(out) \cup ToSet(tick.todo)

\* A call the RPC accepted is never lost silently: it is queued, pending, in
\* a batch, or its entries were discarded by a recovery (drain_rpc_queues,
\* rollback_queue_drain, and the requeues of flush_to_l1).
NothingLost ==
  accepted \cap Calls \subseteq
    Waiting \cup CallsIn(pending_l1) \cup CallsIn(flight.q) \cup posted \cup dropped

\* The entries of a call make up one stretch of the queue, of its length.
OneStretch(q) ==
  \A i, j \in DOMAIN q.entries :
    q.entries[i] = q.entries[j] => j - i < L1Count[q.entries[i]]

\* A call is never both queued and pending, its L1 entries are never in the
\* pending queue twice, and one whose batch was confirmed and kept never goes
\* back to any of them, however drains, failed builds and timeouts alternate
\* (rollback_queue_drain, flush_to_l1).
OnePlace ==
  /\ IsInjective(cross) /\ IsInjective(out)
  /\ Waiting \cap (CallsIn(pending_l1) \cup CallsIn(flight.q)) = {}
  /\ OneStretch(pending_l1) /\ OneStretch(flight.q)
  /\ CallsIn(pending_l1) \cap CallsIn(flight.q) = {}
  /\ confirmed \cap (Waiting \cup CallsIn(pending_l1)) = {}

\* A user's L1 transaction is released only behind the batch that carries the
\* entries it consumes: it needs them in the same L1 block
\* (forward_queued_l1_txs, ExecutionNotInCurrentBlock).
ForwardWithItsBatch ==
  [][\A c \in WithTx : sent'[c] > sent[c] => c \in CallsIn(flight.q)]_vars

\* The batch bids more than the user transactions released behind it, so that
\* L1 orders it first (compute_gas_overbid): more than every one that belongs
\* to a call, whenever that was queued, and more than every direct one that
\* was queued when the batch was priced.  A direct one queued between pricing
\* and the drain of the forward queue is released with them, at any price.
BatchOutbidsForwards ==
  [][\A t \in L1Txs : sent'[t] > sent[t] /\ Price[t] > 0 =>
        flight.hint > Price[t] \/ t \in Direct \ flight.seen]_vars

\* No user transaction is released twice, whatever is retried
\* (forward_queued_l1_txs).
ForwardedOnce == \A t \in L1Txs : sent[t] <= 1

\* Every accepted call is eventually posted or discarded by a recovery; in
\* particular, a continuation set aside for a better paid one gets its turn
\* (drain_rpc_queues).
EventuallyPosted ==
  []<>(accepted \cap Calls \subseteq posted \cup dropped)
=============================================================================
