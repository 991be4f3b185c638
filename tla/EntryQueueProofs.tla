-------------------------- MODULE EntryQueueProofs --------------------------
(***************************************************************************)
(* Proofs about the receipt queue, for any set of composer tasks and any   *)
(* batch size.                                                             *)
(***************************************************************************)
EXTENDS EntryQueue, TLAPS

\* A receipt that some task holds was handed out by push, no two tasks hold
\* the same one, and only a task before its push holds none.
ReceiptsIssued ==
  /\ \A t \in Task : receipt[t] # NoReceipt => receipt[t] < next_id
  /\ \A t \in Task : pc[t] # "start" => receipt[t] # NoReceipt

\* The inductive invariant.  PermitProvesConfirmation needs the second conjunct
\* of ReservedIsInFlight (what is Confirmed went through a confirm call), and
\* ReceiptsDistinct needs that next_id is above every receipt handed out.
IInv ==
  /\ TypeOK
  /\ ReceiptsIssued
  /\ ReservedIsInFlight
  /\ PermitProvesConfirmation
  /\ ReceiptsDistinct

USE NoReceiptAssumption, DrainMaxAssumption

\* The empty queue satisfies the invariant.
LEMMA InitIInv == Init => IInv
  BY DEF Init, IInv, TypeOK, ReceiptsIssued, ReservedIsInFlight,
     PermitProvesConfirmation, ReceiptsDistinct, Live, In, States, PCs, Receipt

\* push keeps the invariant.
LEMMA PushIInv ==
  ASSUME IInv, NEW t \in Task, Push(t)
  PROVE  IInv'
<1> USE DEF IInv, Push
<1>1. TypeOK'
  BY DEF TypeOK, Live, States, PCs, Receipt
<1>2. ReceiptsIssued'
  BY DEF TypeOK, ReceiptsIssued, Receipt
<1>3. ReservedIsInFlight'
  BY DEF TypeOK, ReservedIsInFlight, In, Live
<1>4. PermitProvesConfirmation'
  BY DEF TypeOK, PermitProvesConfirmation
<1>5. ReceiptsDistinct'
  BY DEF TypeOK, ReceiptsDistinct, ReceiptsIssued, Receipt
<1> QED
  BY <1>1, <1>2, <1>3, <1>4, <1>5

\* One look of wait_confirmation at its item keeps the invariant.
LEMMA LookIInv ==
  ASSUME IInv, NEW t \in Task, Look(t)
  PROVE  IInv'
<1> USE DEF IInv, Look
<1>1. TypeOK'
  BY DEF TypeOK, Live, PCs
<1>2. ReceiptsIssued'
  BY DEF TypeOK, ReceiptsIssued, PCs
<1>3. ReservedIsInFlight'
  BY DEF ReservedIsInFlight, In, Live
<1>4. PermitProvesConfirmation'
  BY DEF TypeOK, PermitProvesConfirmation, ReservedIsInFlight, In, Live
<1>5. ReceiptsDistinct'
  BY DEF ReceiptsDistinct
<1> QED
  BY <1>1, <1>2, <1>3, <1>4, <1>5

\* Going to sleep on the notifier keeps the invariant.
LEMMA ParkIInv ==
  ASSUME IInv, NEW t \in Task, Park(t)
  PROVE  IInv'
<1> USE DEF IInv, Park
<1>1. TypeOK'
  BY DEF TypeOK, Live, PCs
<1>2. ReceiptsIssued' /\ PermitProvesConfirmation'
  BY DEF TypeOK, ReceiptsIssued, PermitProvesConfirmation, PCs
<1>3. ReservedIsInFlight' /\ ReceiptsDistinct'
  BY DEF ReservedIsInFlight, ReceiptsDistinct, In, Live
<1> QED
  BY <1>1, <1>2, <1>3

\* Taking a confirmed item out and forwarding keeps the invariant.
LEMMA ForwardIInv ==
  ASSUME IInv, NEW t \in Task, Forward(t)
  PROVE  IInv'
<1> USE DEF IInv, Forward, RemoveItem
<1>1. TypeOK'
  BY DEF TypeOK, Live, PCs, States
<1>2. ReceiptsIssued' /\ PermitProvesConfirmation'
  BY DEF TypeOK, ReceiptsIssued, PermitProvesConfirmation, PCs
<1>3. ReservedIsInFlight' /\ ReceiptsDistinct'
  BY DEF TypeOK, ReservedIsInFlight, ReceiptsDistinct, In, Live
<1> QED
  BY <1>1, <1>2, <1>3

\* The driver's actions change neither the tasks nor their receipts.
LEMMA DriverKeepsTasks ==
  ASSUME IInv, UNCHANGED <<next_id, pc, receipt>>,
         confirmedEver \subseteq confirmedEver'
  PROVE  ReceiptsIssued' /\ PermitProvesConfirmation' /\ ReceiptsDistinct'
  BY DEF IInv, ReceiptsIssued, PermitProvesConfirmation, ReceiptsDistinct

\* drain_pending keeps the invariant.
LEMMA DrainPendingIInv ==
  ASSUME IInv, DrainPending
  PROVE  IInv'
<1>1. drained' \subseteq In("pending")
  BY DEF DrainPending, Oldest
<1>2. TypeOK'
  BY <1>1 DEF IInv, DrainPending, TypeOK, In, Live, States
<1>3. ReservedIsInFlight'
  BY <1>1 DEF IInv, DrainPending, TypeOK, ReservedIsInFlight, In, Live, States
<1> QED
  BY <1>2, <1>3, DriverKeepsTasks DEF IInv, DrainPending

\* confirm keeps the invariant.
LEMMA ConfirmIInv ==
  ASSUME IInv, Confirm
  PROVE  IInv'
<1>1. TypeOK'
  BY DEF IInv, Confirm, TypeOK, In, Live, States
<1>2. ReservedIsInFlight'
  BY DEF IInv, Confirm, TypeOK, ReservedIsInFlight, In, Live, States
<1> QED
  BY <1>1, <1>2, DriverKeepsTasks DEF IInv, Confirm

\* rollback keeps the invariant.
LEMMA RollbackIInv ==
  ASSUME IInv, Rollback
  PROVE  IInv'
<1>1. TypeOK'
  BY DEF IInv, Rollback, TypeOK, Live, States
<1>2. ReservedIsInFlight'
  BY DEF IInv, Rollback, TypeOK, ReservedIsInFlight, In, Live, States
<1> QED
  BY <1>1, <1>2, DriverKeepsTasks DEF IInv, Rollback

\* Evicting an item keeps the invariant.
LEMMA EvictIInv ==
  ASSUME IInv, NEW r \in Live, Evict(r)
  PROVE  IInv'
<1>1. TypeOK'
  BY DEF IInv, Evict, RemoveItem, TypeOK, Live, States
<1>2. ReservedIsInFlight'
  BY DEF IInv, Evict, RemoveItem, TypeOK, ReservedIsInFlight, In, Live
<1> QED
  BY <1>1, <1>2, DriverKeepsTasks DEF IInv, Evict

\* Waking the waiters keeps the invariant.
LEMMA NotifyWaitersIInv ==
  ASSUME IInv, NEW c \in notifying, NotifyWaiters(c)
  PROVE  IInv'
<1> USE DEF IInv, NotifyWaiters
<1>1. TypeOK'
  BY DEF TypeOK, Live, PCs
<1>2. ReceiptsIssued' /\ PermitProvesConfirmation'
  BY DEF TypeOK, ReceiptsIssued, PermitProvesConfirmation, PCs
<1>3. ReservedIsInFlight' /\ ReceiptsDistinct'
  BY DEF ReservedIsInFlight, ReceiptsDistinct, In, Live
<1> QED
  BY <1>1, <1>2, <1>3

\* A step that changes nothing keeps the invariant.
LEMMA StutterIInv ==
  ASSUME IInv, UNCHANGED vars
  PROVE  IInv'
  BY DEF IInv, vars, TypeOK, ReceiptsIssued, ReservedIsInFlight,
     PermitProvesConfirmation, ReceiptsDistinct, Live, In

\* Every step keeps the invariant.
LEMMA NextIInv == IInv /\ [Next]_vars => IInv'
  BY PushIInv, LookIInv, ParkIInv, ForwardIInv, DrainPendingIInv, ConfirmIInv,
     RollbackIInv, EvictIInv, NotifyWaitersIInv, StutterIInv
     DEF Next, Composer

\* IInv holds in every reachable state.
THEOREM InductiveInvariant == Spec => []IInv
<1> QED
  BY InitIInv, NextIInv, PTL DEF Spec

-----------------------------------------------------------------------------
(* What follows from it *)

\* The queue, its identifiers and the tasks keep their types: in particular
\* every live, drained or confirmed receipt was handed out by push.
THEOREM TypeCorrect == Spec => []TypeOK
<1>1. IInv => TypeOK
  BY DEF IInv
<1> QED
  BY <1>1, InductiveInvariant, PTL

\* wait_confirmation returns a ForwardPermit only for a receipt that confirm
\* moved to Confirmed, for every number of tasks and whatever was drained,
\* rolled back and evicted before.
THEOREM PermitSound == Spec => []PermitProvesConfirmation
<1>1. IInv => PermitProvesConfirmation
  BY DEF IInv
<1> QED
  BY <1>1, InductiveInvariant, PTL

\* Two composer tasks never hold the same receipt: push never reuses an
\* identifier, even after remove.
THEOREM ReceiptsNeverShared == Spec => []ReceiptsDistinct
<1>1. IInv => ReceiptsDistinct
  BY DEF IInv
<1> QED
  BY <1>1, InductiveInvariant, PTL

\* drain_pending, confirm and rollback together strand no receipt in Reserved.
THEOREM NothingStranded == Spec => []ReservedIsInFlight
<1>1. IInv => ReservedIsInFlight
  BY DEF IInv
<1> QED
  BY <1>1, InductiveInvariant, PTL

\* Every step of the queue takes a receipt along an edge of the three-state
\* diagram of entry_queue.rs, and never brings a removed one back.
THEOREM TransitionsAreLegal == Spec => TransitionsLegal
<1>1. ASSUME IInv, [Next]_vars
      PROVE  [LegalTransition]_vars
  <2>1. ASSUME NEW t \in Task, Push(t)
        PROVE  LegalTransition
    BY <1>1, <2>1 DEF Push, LegalTransition, IInv, TypeOK, Live
  <2>2. ASSUME NEW t \in Task, Look(t) \/ Park(t)
        PROVE  LegalTransition
    BY <2>2 DEF Look, Park, LegalTransition, Live
  <2>3. ASSUME NEW t \in Task, Forward(t)
        PROVE  LegalTransition
    BY <2>3 DEF Forward, RemoveItem, LegalTransition, Live
  <2>4. CASE DrainPending
    <3>1. drained' \subseteq In("pending")
      BY <2>4 DEF DrainPending, Oldest
    <3> QED
      BY <2>4, <3>1 DEF DrainPending, LegalTransition, In, Live
  <2>5. CASE Confirm
    BY <2>5 DEF Confirm, LegalTransition, Live
  <2>6. CASE Rollback
    BY <2>6 DEF Rollback, LegalTransition, Live
  <2>7. ASSUME NEW r \in Live, Evict(r)
        PROVE  LegalTransition
    BY <2>7 DEF Evict, RemoveItem, LegalTransition, Live
  <2>8. ASSUME NEW c \in notifying, NotifyWaiters(c)
        PROVE  LegalTransition
    BY <2>8 DEF NotifyWaiters, LegalTransition, Live
  <2> QED
    BY <1>1, <2>1, <2>2, <2>3, <2>4, <2>5, <2>6, <2>7, <2>8 DEF Next, Composer
<1> QED
  BY <1>1, InductiveInvariant, PTL DEF Spec, TransitionsLegal
=============================================================================
