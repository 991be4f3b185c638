----------------------------- MODULE EntryQueue -----------------------------
(***************************************************************************)
(* The three-state receipt queue behind the hold-then-forward pattern      *)
(* (entry_queue.rs).  Composer tasks push a receipt and wait for its       *)
(* confirmation; the driver drains Pending receipts, submits them to L1    *)
(* and confirms or rolls back the batch; eviction removes a receipt.       *)
(*                                                                         *)
(* The map of receipts is guarded by one mutex, so every critical section  *)
(* is one action.  What happens outside the mutex is kept apart: the       *)
(* notify_waiters call that follows confirm and remove, and the window in  *)
(* wait_confirmation between the end of its critical section and the       *)
(* creation of the Notified future.                                        *)
(***************************************************************************)
EXTENDS Naturals, FiniteSets

CONSTANTS
  \* the composer tasks, each of which handles one user transaction
  Task,
  \* the largest number of receipts one drain_pending call takes
  DrainMax,
  \* the value of receipt before push
  NoReceipt

ASSUME TaskAssumption == IsFiniteSet(Task)
ASSUME DrainMaxAssumption == DrainMax \in Nat \ {0}
ASSUME NoReceiptAssumption == NoReceipt \notin Nat

Receipt == Nat

States == {"pending", "reserved", "confirmed"}

VARIABLES
  next_id,   \* QueueState.next_id
  items,     \* QueueState.items: the live receipts and their states
  pc,        \* where each composer task is in push / wait_confirmation
  receipt,   \* the receipt a composer task got from push
  drained,   \* the receipts of the driver's batch in flight
  notifying, \* the callers that released the mutex and owe a notify_waiters
  confirmedEver \* history: every receipt some confirm call moved to confirmed

vars == <<next_id, items, pc, receipt, drained, notifying, confirmedEver>>

Live == DOMAIN items
In(state) == {r \in Live : items[r] = state}

\* What a task can be doing: before push; about to lock and look; past the
\* critical section but not yet registered with Notify; parked on Notify;
\* holding a ForwardPermit; past the forward step; told of the eviction.
PCs == {"start", "look", "unlocked", "parked", "permit", "done", "evicted"}

Init ==
  /\ next_id = 0
  /\ items = [r \in {} |-> "pending"]
  /\ pc = [t \in Task |-> "start"]
  /\ receipt = [t \in Task |-> NoReceipt]
  /\ drained = {}
  /\ notifying = {}
  /\ confirmedEver = {}

-----------------------------------------------------------------------------
(* Composer side *)

\* Mutant of Push: next_id is not advanced.
PushSameId(t) ==
  /\ pc[t] = "start"
  /\ items' = [r \in Live \cup {next_id} |->
                 IF r = next_id THEN "pending" ELSE items[r]]
  /\ receipt' = [receipt EXCEPT ![t] = next_id]
  /\ pc' = [pc EXCEPT ![t] = "look"]
  /\ UNCHANGED <<next_id, drained, notifying, confirmedEver>>

\* push: a fresh identifier, in the pending state.
Push(t) ==
  /\ pc[t] = "start"
  /\ next_id' = next_id + 1
  /\ items' = [r \in Live \cup {next_id} |->
                 IF r = next_id THEN "pending" ELSE items[r]]
  /\ receipt' = [receipt EXCEPT ![t] = next_id]
  /\ pc' = [pc EXCEPT ![t] = "look"]
  /\ UNCHANGED <<drained, notifying, confirmedEver>>

\* Mutant of Look: Reserved counts as confirmed.
LookAtReserved(t) ==
  /\ pc[t] = "look"
  /\ pc' = [pc EXCEPT ![t] =
              IF receipt[t] \notin Live THEN "evicted"
              ELSE IF items[receipt[t]] # "pending" THEN "permit"
              ELSE "unlocked"]
  /\ UNCHANGED <<next_id, items, receipt, drained, notifying, confirmedEver>>

\* One pass of the loop of wait_confirmation under the mutex.
Look(t) ==
  /\ pc[t] = "look"
  /\ pc' = [pc EXCEPT ![t] =
              IF receipt[t] \notin Live THEN "evicted"
              ELSE IF items[receipt[t]] = "confirmed" THEN "permit"
              ELSE "unlocked"]
  /\ UNCHANGED <<next_id, items, receipt, drained, notifying, confirmedEver>>

\* self.notify.notified(): the task registers after it released the mutex.
Park(t) ==
  /\ pc[t] = "unlocked"
  /\ pc' = [pc EXCEPT ![t] = "parked"]
  /\ UNCHANGED <<next_id, items, receipt, drained, notifying, confirmedEver>>

\* items.remove(&receipt) under the mutex; the notification follows.
RemoveItem(r) == items' = [q \in Live \ {r} |-> items[q]]

\* The composer forwards the user transaction with its permit and removes
\* the receipt.
Forward(t) ==
  /\ pc[t] = "permit"
  /\ pc' = [pc EXCEPT ![t] = "done"]
  /\ RemoveItem(receipt[t])
  /\ notifying' = notifying \cup {t}
  /\ UNCHANGED <<next_id, receipt, drained, confirmedEver>>

-----------------------------------------------------------------------------
(* Driver side *)

\* drain_pending takes the oldest Pending receipts, up to DrainMax.  The
\* driver keeps one batch in flight.
Oldest(S, n) ==
  {r \in S : Cardinality({q \in S : q < r}) < n}

\* Mutant of DrainPending: the drain ignores the state.
DrainEverything ==
  /\ drained = {}
  /\ In("pending") # {}
  /\ drained' = Oldest(Live, DrainMax)
  /\ items' = [r \in Live |-> IF r \in drained' THEN "reserved" ELSE items[r]]
  /\ UNCHANGED <<next_id, pc, receipt, notifying, confirmedEver>>

DrainPending ==
  /\ drained = {}
  /\ In("pending") # {}
  /\ drained' = Oldest(In("pending"), DrainMax)
  /\ items' = [r \in Live |-> IF r \in drained' THEN "reserved" ELSE items[r]]
  /\ UNCHANGED <<next_id, pc, receipt, notifying, confirmedEver>>

\* confirm skips the receipts that are no longer Reserved (an evicted one).
Confirm ==
  /\ drained # {}
  /\ items' = [r \in Live |->
                 IF r \in drained /\ items[r] = "reserved" THEN "confirmed"
                 ELSE items[r]]
  /\ confirmedEver' = confirmedEver \cup (drained \cap In("reserved"))
  /\ drained' = {}
  /\ notifying' = notifying \cup {"driver"}
  /\ UNCHANGED <<next_id, pc, receipt>>

\* Mutant of Rollback: the receipts stay Reserved.
RollbackForgets ==
  /\ drained # {}
  /\ drained' = {}
  /\ UNCHANGED <<next_id, items, pc, receipt, notifying, confirmedEver>>

\* rollback puts the batch back and wakes nobody.
Rollback ==
  /\ drained # {}
  /\ items' = [r \in Live |->
                 IF r \in drained /\ items[r] = "reserved" THEN "pending"
                 ELSE items[r]]
  /\ drained' = {}
  /\ UNCHANGED <<next_id, pc, receipt, notifying, confirmedEver>>

\* remove called for a receipt its composer has not consumed.
Evict(r) ==
  /\ r \in Live
  /\ RemoveItem(r)
  /\ notifying' = notifying \cup {"driver"}
  /\ UNCHANGED <<next_id, pc, receipt, drained, confirmedEver>>

\* notify_waiters wakes exactly the tasks that are registered now.
NotifyWaiters(c) ==
  /\ c \in notifying
  /\ notifying' = notifying \ {c}
  /\ pc' = [t \in Task |-> IF pc[t] = "parked" THEN "look" ELSE pc[t]]
  /\ UNCHANGED <<next_id, items, receipt, drained, confirmedEver>>

Composer(t) == Push(t) \/ Look(t) \/ Park(t) \/ Forward(t)

Next ==
  \/ \E t \in Task : Composer(t)
  \/ DrainPending \/ Confirm \/ Rollback
  \/ \E r \in Live : Evict(r)
  \/ \E c \in notifying : NotifyWaiters(c)

Spec == Init /\ [][Next]_vars

\* A runnable task runs, a caller that released the mutex reaches its
\* notify_waiters, and the driver keeps draining and closing batches, the
\* submissions failing only finitely often in a row.
Fairness ==
  /\ \A t \in Task : WF_vars(Look(t)) /\ WF_vars(Park(t)) /\ WF_vars(Forward(t))
  /\ \A c \in Task \cup {"driver"} : WF_vars(NotifyWaiters(c))
  /\ WF_vars(DrainPending)
  /\ SF_vars(Confirm)

FairSpec == Spec /\ Fairness

-----------------------------------------------------------------------------
(* Properties *)

\* Type correctness.
TypeOK ==
  /\ next_id \in Nat
  /\ Live \subseteq 0 .. (next_id - 1)
  /\ items \in [Live -> States]
  /\ pc \in [Task -> PCs]
  /\ receipt \in [Task -> Receipt \cup {NoReceipt}]
  /\ drained \subseteq 0 .. (next_id - 1)
  /\ notifying \subseteq Task \cup {"driver"}
  /\ confirmedEver \subseteq 0 .. (next_id - 1)

\* A ForwardPermit is a proof of confirmation: a task holds or has used one
\* only for a receipt that a confirm call moved from Reserved to Confirmed
\* (entry_queue.rs, wait_confirmation builds the permit; confirm's guard).
PermitProvesConfirmation ==
  \A t \in Task : pc[t] \in {"permit", "done"} => receipt[t] \in confirmedEver

\* Receipts are not shared: whatever was evicted or removed in between, two
\* tasks never wait on, or forward under, the same receipt.
ReceiptsDistinct ==
  \A t, u \in Task :
    t # u /\ receipt[t] # NoReceipt => receipt[t] # receipt[u]

\* No receipt is stranded: everything Reserved belongs to the batch the
\* driver has in flight, so a confirm or rollback will reach it, and
\* everything Confirmed went through a batch.
ReservedIsInFlight ==
  /\ In("reserved") \subseteq drained
  /\ In("confirmed") \subseteq confirmedEver
  /\ In("pending") \cap drained = {}

\* A step never confirms a receipt the driver did not have in flight, never
\* takes a confirmation back, and never re-creates a removed receipt.
LegalTransition ==
  \A r \in 0 .. (next_id - 1) :
    /\ r \in DOMAIN items' => r \in Live
    /\ r \in Live /\ r \in DOMAIN items' /\ items[r] # items'[r] =>
         <<items[r], items'[r]>> \in {<<"pending", "reserved">>,
                                      <<"reserved", "pending">>,
                                      <<"reserved", "confirmed">>}

TransitionsLegal == [][LegalTransition]_vars

\* wait_confirmation "block[s] until receipt reaches the Confirmed state, then
\* return[s] a ForwardPermit": a waiter of a confirmed receipt gets its permit
\* or learns of the eviction.
ConfirmedWaiterReturns ==
  \A t \in Task :
    (pc[t] \in {"look", "unlocked", "parked"} /\ receipt[t] \in confirmedEver)
      ~> pc[t] \in {"permit", "done", "evicted"}
=============================================================================
