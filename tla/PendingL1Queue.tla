--------------------------- MODULE PendingL1Queue ---------------------------
(***************************************************************************)
(* PendingL1SubmissionQueue (driver/pending_queue.rs): the deferred L1     *)
(* entries awaiting the next postBatch, in one vector, and the trigger     *)
(* groups over it, which know only the index of their first entry.         *)
(*                                                                         *)
(* An entry is represented by the cross-chain call it belongs to; a        *)
(* group's chaining mode, used only for state deltas, is left out.         *)
(***************************************************************************)
EXTENDS Integers, Sequences, FiniteSets

\* PendingL1SubmissionQueue::default
EmptyQueue == [entries |-> <<>>, groups |-> <<>>]

is_empty(q) == q.entries = <<>>

\* append_group: n entries of one call become a new group at the end.
append_group(q, call, n, trigger) ==
  [entries |-> q.entries \o [i \in 1..n |-> call],
   groups  |-> Append(q.groups, [start |-> Len(q.entries), trigger |-> trigger])]

\* Vec::truncate
Truncated(s, n) == IF Len(s) > n THEN SubSeq(s, 1, n) ELSE s

\* Mutant: the groups of the drain are kept.
truncate_entries_only(q, entry_len, group_count) ==
  [q EXCEPT !.entries = Truncated(@, entry_len)]

\* truncate_to: the rollback of a drain.
truncate_to(q, entry_len, group_count) ==
  [entries |-> Truncated(q.entries, entry_len),
   groups  |-> Truncated(q.groups, group_count)]

\* trim_entries_from_front: drops the oldest entries, leaves the groups alone.
trim_entries_from_front(q, max) ==
  [q EXCEPT !.entries =
     IF Len(@) > max THEN SubSeq(@, Len(@) - max + 1, Len(@)) ELSE @]

\* The triggers flush_to_l1 has to send: groups of user-initiated calls.
HasTriggers(q) == \E k \in DOMAIN q.groups : q.groups[k].trigger

CallsIn(q) == {q.entries[i] : i \in DOMAIN q.entries}

\* The index after the last entry of group k.
GroupEnd(q, k) ==
  IF k < Len(q.groups) THEN q.groups[k + 1].start ELSE Len(q.entries)

\* Every group covers the entries of one call and nothing else, and the
\* groups cover all entries.
InStep(q) ==
  /\ q.groups = <<>> => q.entries = <<>>
  /\ q.groups # <<>> => q.groups[1].start = 0
  /\ \A k \in DOMAIN q.groups :
       /\ q.groups[k].start < GroupEnd(q, k)
       /\ GroupEnd(q, k) <= Len(q.entries)
       /\ \A i, j \in q.groups[k].start + 1 .. GroupEnd(q, k) :
            q.entries[i] = q.entries[j]
=============================================================================
