-------------------------- MODULE CallQueuesProofs --------------------------
(***************************************************************************)
(* Proofs about the call queues, for every value of the constants: any     *)
(* number of calls, any caps, prices and entry counts, any number of       *)
(* failures.                                                               *)
(***************************************************************************)
EXTENDS CallQueues, QueueLemmas, SequenceTheorems

-----------------------------------------------------------------------------
(* What the operations of the pending L1 queue return, for any queue *)

Group == [start : Nat, trigger : BOOLEAN]

\* The queues whose entries belong to calls of S.
QueuesOver(S) == [entries : Seq(S), groups : Seq(Group)]

\* The parts of a queue have their types.
LEMMA QueueFields ==
  ASSUME NEW S, NEW q \in QueuesOver(S)
  PROVE  /\ q.entries \in Seq(S) /\ Len(q.entries) \in Nat /\ DOMAIN q.entries = 1..Len(q.entries)
         /\ q.groups \in Seq(Group) /\ Len(q.groups) \in Nat /\ DOMAIN q.groups = 1..Len(q.groups)
         /\ \A i \in 1..Len(q.entries) : q.entries[i] \in S
         /\ \A k \in 1..Len(q.groups) : q.groups[k].start \in Nat
<1>1. q.entries \in Seq(S) /\ q.groups \in Seq(Group)
  BY DEF QueuesOver
<1>2. \A k \in 1..Len(q.groups) : q.groups[k] \in Group
  BY <1>1
<1>3. \A g \in Group : g.start \in Nat
  BY DEF Group
<1> QED
  BY <1>1, <1>2, <1>3

\* r is q with n entries of call c in a new group at the end.
Appended(q, c, n, r) ==
  /\ Len(r.entries) = Len(q.entries) + n
  /\ \A i \in 1..Len(q.entries) : r.entries[i] = q.entries[i]
  /\ \A i \in Len(q.entries) + 1..Len(q.entries) + n : r.entries[i] = c
  /\ Len(r.groups) = Len(q.groups) + 1
  /\ \A k \in 1..Len(q.groups) : r.groups[k] = q.groups[k]
  /\ r.groups[Len(q.groups) + 1].start = Len(q.entries)

\* The parts of a concatenation.
LEMMA ConcatParts ==
  ASSUME NEW S, NEW s \in Seq(S), NEW u \in Seq(S)
  PROVE  /\ s \o u \in Seq(S) /\ Len(s \o u) = Len(s) + Len(u)
         /\ \A i \in 1..Len(s) : (s \o u)[i] = s[i]
         /\ \A i \in Len(s) + 1..Len(s) + Len(u) : (s \o u)[i] = u[i - Len(s)]
  OBVIOUS

\* append_group does what its name says, entry by entry.
LEMMA AppendGroupFields ==
  ASSUME NEW S, NEW q \in QueuesOver(S), NEW c \in S, NEW n \in Nat, NEW t \in BOOLEAN
  PROVE  /\ append_group(q, c, n, t) \in QueuesOver(S)
         /\ Appended(q, c, n, append_group(q, c, n, t))
<1> DEFINE new == [i \in 1..n |-> c]
           g == [start |-> Len(q.entries), trigger |-> t]
           r == append_group(q, c, n, t)
<1>1. new \in Seq(S) /\ Len(new) = n
  BY IsASeq
<1>2. q.entries \in Seq(S) /\ q.groups \in Seq(Group) /\ Len(q.entries) \in Nat
  BY DEF QueuesOver
<1>3. g \in Group
  BY <1>2 DEF Group
<1>4. r.entries = q.entries \o new /\ r.groups = Append(q.groups, g)
  BY DEF append_group
<1>5. r = [entries |-> q.entries \o new, groups |-> Append(q.groups, g)]
  BY DEF append_group
<1> HIDE DEF new, g, r
<1>6. /\ q.entries \o new \in Seq(S)
      /\ Len(q.entries \o new) = Len(q.entries) + n
      /\ \A i \in 1..Len(q.entries) : (q.entries \o new)[i] = q.entries[i]
      /\ \A i \in Len(q.entries) + 1..Len(q.entries) + n : (q.entries \o new)[i] = new[i - Len(q.entries)]
  <2> DEFINE s == q.entries
  <2>1. s \in Seq(S)
    BY <1>2
  <2> HIDE DEF s
  <2>2. /\ s \o new \in Seq(S) /\ Len(s \o new) = Len(s) + Len(new)
        /\ \A i \in 1..Len(s) : (s \o new)[i] = s[i]
        /\ \A i \in Len(s) + 1..Len(s) + Len(new) : (s \o new)[i] = new[i - Len(s)]
    BY <1>1, <2>1, ConcatParts
  <2> QED
    BY <1>1, <2>2 DEF s
<1>7. /\ Append(q.groups, g) \in Seq(Group)
      /\ Len(Append(q.groups, g)) = Len(q.groups) + 1
      /\ \A k \in 1..Len(q.groups) : Append(q.groups, g)[k] = q.groups[k]
      /\ Append(q.groups, g)[Len(q.groups) + 1] = g
  BY <1>2, <1>3, AppendProperties
<1>8. \A i \in Len(q.entries) + 1..Len(q.entries) + n : new[i - Len(q.entries)] = c
  BY <1>2 DEF new
<1>9. r \in QueuesOver(S)
  BY <1>5, <1>6, <1>7 DEF QueuesOver
<1>10. g.start = Len(q.entries)
  BY DEF g
<1>11. Appended(q, c, n, r)
  BY <1>4, <1>6, <1>7, <1>8, <1>10 DEF Appended
<1> QED
  BY <1>9, <1>11 DEF r

\* An appended group adds its call.
LEMMA AppendedCalls ==
  ASSUME NEW S, NEW q \in QueuesOver(S), NEW r \in QueuesOver(S), NEW c, NEW n \in Nat \ {0},
         Appended(q, c, n, r)
  PROVE  CallsIn(r) = CallsIn(q) \cup {c}
<1>1. /\ Len(r.entries) = Len(q.entries) + n
      /\ \A i \in 1..Len(q.entries) : r.entries[i] = q.entries[i]
      /\ \A i \in Len(q.entries) + 1..Len(q.entries) + n : r.entries[i] = c
      /\ Len(q.entries) \in Nat
  BY DEF Appended, QueuesOver
<1>2. DOMAIN r.entries = 1..Len(q.entries) + n /\ DOMAIN q.entries = 1..Len(q.entries)
  BY <1>1 DEF QueuesOver
<1>3. CallsIn(r) \subseteq CallsIn(q) \cup {c}
  <2>1. ASSUME NEW i \in DOMAIN r.entries
        PROVE  \/ r.entries[i] = c
               \/ i \in DOMAIN q.entries /\ r.entries[i] = q.entries[i]
    <3>1. i \in 1..Len(q.entries) \/ i \in Len(q.entries) + 1..Len(q.entries) + n
      BY <1>1, <1>2
    <3>2. CASE i \in 1..Len(q.entries)
      BY <1>1, <1>2, <3>2
    <3>3. CASE i \in Len(q.entries) + 1..Len(q.entries) + n
      BY <1>1, <3>3
    <3> QED
      BY <3>1, <3>2, <3>3
  <2> QED
    BY <2>1 DEF CallsIn
<1>4. CallsIn(q) \cup {c} \subseteq CallsIn(r)
  <2>1. Len(q.entries) + 1 \in DOMAIN r.entries /\ r.entries[Len(q.entries) + 1] = c
    BY <1>1, <1>2
  <2>2. \A i \in DOMAIN q.entries : i \in DOMAIN r.entries /\ r.entries[i] = q.entries[i]
    BY <1>1, <1>2
  <2> QED
    BY <2>1, <2>2 DEF CallsIn
<1> QED
  BY <1>3, <1>4

\* A queue in step stays in step when a non-empty group is appended.
LEMMA AppendedInStep ==
  ASSUME NEW S, NEW q \in QueuesOver(S), NEW r \in QueuesOver(S), NEW c, NEW n \in Nat \ {0},
         Appended(q, c, n, r), InStep(q)
  PROVE  InStep(r)
<1> DEFINE l == Len(q.entries)
           m == Len(q.groups)
<1>1. /\ Len(r.entries) = l + n
      /\ \A i \in 1..l : r.entries[i] = q.entries[i]
      /\ \A i \in l + 1..l + n : r.entries[i] = c
      /\ Len(r.groups) = m + 1
      /\ \A k \in 1..m : r.groups[k] = q.groups[k]
      /\ r.groups[m + 1].start = l
  BY DEF Appended
<1>2. /\ l \in Nat /\ m \in Nat /\ DOMAIN r.groups = 1..m + 1 /\ DOMAIN q.groups = 1..m
      /\ \A k \in 1..m : q.groups[k].start \in Nat
  BY <1>1, QueueFields
<1>2a. /\ m = 0 => l = 0
       /\ m > 0 => q.groups[1].start = 0
  BY <1>2, QueueFields DEF InStep
<1> HIDE DEF l, m
<1>3. r.groups # <<>> /\ r.groups[1].start = 0
  BY <1>1, <1>2, <1>2a
<1>4. ASSUME NEW k \in 1..m + 1
      PROVE  /\ r.groups[k].start < GroupEnd(r, k)
             /\ GroupEnd(r, k) <= Len(r.entries)
             /\ \A i, j \in r.groups[k].start + 1 .. GroupEnd(r, k) : r.entries[i] = r.entries[j]
  <2>1. CASE k = m + 1
    <3>1. GroupEnd(r, k) = l + n /\ r.groups[k].start = l
      BY <1>1, <1>2, <2>1 DEF GroupEnd
    <3> QED
      BY <1>1, <1>2, <3>1
  <2>2. CASE k \in 1..m
    <3>1. r.groups[k].start = q.groups[k].start
      BY <1>1, <2>2
    <3>2. GroupEnd(r, k) = GroupEnd(q, k)
      <4>1. CASE k = m
        BY <1>1, <1>2, <4>1 DEF GroupEnd, l, m
      <4>2. CASE k < m
        <5>1. k + 1 \in 1..m
          BY <1>2, <2>2, <4>2
        <5>2. r.groups[k + 1] = q.groups[k + 1]
          BY <1>1, <5>1
        <5>3. GroupEnd(q, k) = q.groups[k + 1].start
          BY <4>2 DEF GroupEnd, m
        <5>4. k < Len(r.groups)
          BY <1>1, <1>2, <2>2
        <5>5. GroupEnd(r, k) = r.groups[k + 1].start
          BY <5>4 DEF GroupEnd
        <5> QED
          BY <5>2, <5>3, <5>5
      <4> QED
        BY <1>2, <2>2, <4>1, <4>2
    <3>3. /\ q.groups[k].start < GroupEnd(q, k) /\ GroupEnd(q, k) <= l
          /\ \A i, j \in q.groups[k].start + 1 .. GroupEnd(q, k) : q.entries[i] = q.entries[j]
      BY <1>2, <2>2 DEF InStep, l
    <3>4. GroupEnd(q, k) \in Nat
      BY <1>2, <2>2 DEF GroupEnd, l, m
    <3>5. q.groups[k].start \in Nat
      BY <1>2, <2>2
    <3>6. \A i \in q.groups[k].start + 1 .. GroupEnd(q, k) : r.entries[i] = q.entries[i]
      <4>1. \A i \in q.groups[k].start + 1 .. GroupEnd(q, k) : i \in 1..l
        <5> DEFINE from == q.groups[k].start
                   end == GroupEnd(q, k)
        <5>1. from \in Nat /\ end \in Nat /\ end <= l
          BY <3>3, <3>4, <3>5
        <5> HIDE DEF from, end
        <5>2. \A i \in from + 1 .. end : i \in 1..l
          BY <1>2, <5>1
        <5> QED
          BY <5>2 DEF from, end
      <4> QED
        BY <1>1, <4>1
    <3>7. GroupEnd(q, k) <= Len(r.entries)
      BY <1>1, <1>2, <3>3, <3>4
    <3> QED
      BY <3>1, <3>2, <3>3, <3>6, <3>7
  <2> QED
    BY <1>2, <2>1, <2>2
<1> QED
  BY <1>2, <1>3, <1>4 DEF InStep

\* The empty queue has no calls, is in step, and is what its truncation leaves.
LEMMA EmptyQueueFields ==
  ASSUME NEW S, NEW a \in Nat, NEW b \in Nat
  PROVE  /\ EmptyQueue \in QueuesOver(S) /\ EmptyQueue.entries = <<>> /\ EmptyQueue.groups = <<>>
         /\ CallsIn(EmptyQueue) = {} /\ InStep(EmptyQueue)
         /\ truncate_to(EmptyQueue, a, b) = EmptyQueue
<1>1. EmptyQueue.entries = <<>> /\ EmptyQueue.groups = <<>>
  BY DEF EmptyQueue
<1>2. EmptyQueue \in QueuesOver(S)
  BY DEF EmptyQueue, QueuesOver
<1>3. DOMAIN EmptyQueue.entries = {} /\ DOMAIN EmptyQueue.groups = {}
  BY <1>1
<1>4. CallsIn(EmptyQueue) = {}
  BY <1>3 DEF CallsIn
<1>5. InStep(EmptyQueue)
  BY <1>1, <1>3 DEF InStep
<1>6. Truncated(<<>>, a) = <<>> /\ Truncated(<<>>, b) = <<>>
  BY DEF Truncated
<1> QED
  BY <1>1, <1>2, <1>4, <1>5, <1>6 DEF truncate_to, EmptyQueue

\* Vec::truncate keeps the first n elements.
LEMMA TruncatedFields ==
  ASSUME NEW S, NEW s \in Seq(S), NEW n \in Nat
  PROVE  /\ Truncated(s, n) \in Seq(S)
         /\ Len(Truncated(s, n)) = IF Len(s) > n THEN n ELSE Len(s)
         /\ \A i \in 1..Len(Truncated(s, n)) : Truncated(s, n)[i] = s[i]
         /\ Len(s) <= n => Truncated(s, n) = s
<1>1. CASE Len(s) > n
  BY <1>1 DEF Truncated
<1>2. CASE ~(Len(s) > n)
  BY <1>2 DEF Truncated
<1> QED
  BY <1>1, <1>2

\* The rollback of a drain is a prefix of the entries and of the groups.
LEMMA TruncateFields ==
  ASSUME NEW S, NEW q \in QueuesOver(S), NEW a \in Nat, NEW b \in Nat
  PROVE  /\ truncate_to(q, a, b) \in QueuesOver(S)
         /\ Len(truncate_to(q, a, b).entries) = IF Len(q.entries) > a THEN a ELSE Len(q.entries)
         /\ \A i \in 1..Len(truncate_to(q, a, b).entries) :
               truncate_to(q, a, b).entries[i] = q.entries[i]
<1>1. q.entries \in Seq(S) /\ q.groups \in Seq(Group)
  BY QueueFields
<1>2. truncate_to(q, a, b).entries = Truncated(q.entries, a)
  BY DEF truncate_to
<1>3. Truncated(q.entries, a) \in Seq(S) /\ Truncated(q.groups, b) \in Seq(Group)
  BY <1>1, TruncatedFields
<1>4. truncate_to(q, a, b) \in QueuesOver(S)
  BY <1>3 DEF truncate_to, QueuesOver
<1>5. /\ Len(Truncated(q.entries, a)) = IF Len(q.entries) > a THEN a ELSE Len(q.entries)
      /\ \A i \in 1..Len(Truncated(q.entries, a)) : Truncated(q.entries, a)[i] = q.entries[i]
  BY <1>1, TruncatedFields
<1> QED
  BY <1>2, <1>4, <1>5

\* The rollback keeps exactly the calls of the entries before its mark.
LEMMA TruncateCalls ==
  ASSUME NEW S, NEW q \in QueuesOver(S), NEW a \in Nat, NEW b \in Nat
  PROVE  CallsIn(truncate_to(q, a, b)) = {q.entries[i] : i \in {j \in DOMAIN q.entries : j <= a}}
<1> DEFINE r == truncate_to(q, a, b)
<1>1. /\ r \in QueuesOver(S)
      /\ Len(r.entries) = IF Len(q.entries) > a THEN a ELSE Len(q.entries)
      /\ \A i \in 1..Len(r.entries) : r.entries[i] = q.entries[i]
  BY TruncateFields
<1> HIDE DEF r
<1>2. /\ DOMAIN r.entries = 1..Len(r.entries) /\ Len(q.entries) \in Nat
      /\ DOMAIN q.entries = 1..Len(q.entries)
  BY <1>1, QueueFields
<1>3. DOMAIN r.entries = {j \in DOMAIN q.entries : j <= a}
  BY <1>1, <1>2
<1> QED
  BY <1>1, <1>2, <1>3 DEF CallsIn, r

\* A rollback to the present lengths changes nothing.
LEMMA TruncateAtEnd ==
  ASSUME NEW S, NEW q \in QueuesOver(S)
  PROVE  truncate_to(q, Len(q.entries), Len(q.groups)) = q
<1>1. q.entries \in Seq(S) /\ q.groups \in Seq(Group) /\ Len(q.entries) \in Nat /\ Len(q.groups) \in Nat
  BY QueueFields
<1>2. Truncated(q.entries, Len(q.entries)) = q.entries /\ Truncated(q.groups, Len(q.groups)) = q.groups
  BY <1>1, TruncatedFields
<1>3. q = [entries |-> q.entries, groups |-> q.groups]
  BY DEF QueuesOver
<1> QED
  BY <1>2, <1>3 DEF truncate_to

\* Two sequences that agree up to n have the same first n elements.
LEMMA TruncatedSame ==
  ASSUME NEW S, NEW s \in Seq(S), NEW u \in Seq(S), NEW n \in Nat,
         n <= Len(s), n <= Len(u), \A i \in 1..n : s[i] = u[i]
  PROVE  Truncated(s, n) = Truncated(u, n)
<1> DEFINE x == Truncated(s, n)
           y == Truncated(u, n)
<1>1. x \in Seq(S) /\ Len(x) = n /\ \A i \in 1..n : x[i] = s[i]
  <2>1. CASE n < Len(s)
    BY <2>1 DEF Truncated
  <2>2. CASE n = Len(s)
    BY <2>2 DEF Truncated
  <2> QED
    BY <2>1, <2>2
<1>2. y \in Seq(S) /\ Len(y) = n /\ \A i \in 1..n : y[i] = u[i]
  <2>1. CASE n < Len(u)
    BY <2>1 DEF Truncated
  <2>2. CASE n = Len(u)
    BY <2>2 DEF Truncated
  <2> QED
    BY <2>1, <2>2
<1> HIDE DEF x, y
<1>3. x = y
  BY <1>1, <1>2
<1> QED
  BY <1>3 DEF x, y

\* A rollback forgets what was appended after its mark.
LEMMA TruncateForgetsAppended ==
  ASSUME NEW S, NEW q \in QueuesOver(S), NEW r \in QueuesOver(S), NEW c, NEW n \in Nat,
         Appended(q, c, n, r),
         NEW a \in 0..Len(q.entries), NEW b \in 0..Len(q.groups)
  PROVE  truncate_to(r, a, b) = truncate_to(q, a, b)
<1>1. /\ q.entries \in Seq(S) /\ q.groups \in Seq(Group)
      /\ r.entries \in Seq(S) /\ r.groups \in Seq(Group)
      /\ Len(q.entries) \in Nat /\ Len(q.groups) \in Nat
  BY QueueFields
<1>2. a \in Nat /\ b \in Nat
  BY <1>1
<1>3. /\ Len(r.entries) = Len(q.entries) + n /\ Len(r.groups) = Len(q.groups) + 1
      /\ \A i \in 1..a : r.entries[i] = q.entries[i]
      /\ \A k \in 1..b : r.groups[k] = q.groups[k]
  BY <1>1, <1>2 DEF Appended
<1>4. Truncated(r.entries, a) = Truncated(q.entries, a)
  <2>1. a <= Len(r.entries) /\ a <= Len(q.entries)
    BY <1>1, <1>3
  <2> QED
    BY <1>1, <1>2, <1>3, <2>1, TruncatedSame
<1>5. Truncated(r.groups, b) = Truncated(q.groups, b)
  <2>1. b <= Len(r.groups) /\ b <= Len(q.groups)
    BY <1>1, <1>3
  <2> QED
    BY <1>1, <1>2, <1>3, <2>1, TruncatedSame
<1> QED
  BY <1>4, <1>5 DEF truncate_to

\* Trimming keeps the last entries: each had an index at least as large.
LEMMA TrimFields ==
  ASSUME NEW S, NEW q \in QueuesOver(S), NEW max \in Nat,
         NEW r, r = trim_entries_from_front(q, max)
  PROVE  /\ r \in QueuesOver(S)
         /\ Len(q.entries) <= max => r = q
         /\ \A i \in DOMAIN r.entries :
              \E j \in DOMAIN q.entries : j >= i /\ q.entries[j] = r.entries[i]
<1>1. q.entries \in Seq(S) /\ q.groups \in Seq(Group) /\ Len(q.entries) \in Nat
  BY QueueFields
<1>2. q = [entries |-> q.entries, groups |-> q.groups]
  BY DEF QueuesOver
<1>3. CASE Len(q.entries) <= max
  <2>1. r = q
    BY <1>1, <1>2, <1>3 DEF trim_entries_from_front
  <2> QED
    BY <1>1, <2>1
<1>4. CASE Len(q.entries) > max
  <2> DEFINE k == Len(q.entries) - max
             s == SubSeq(q.entries, k + 1, Len(q.entries))
  <2>1. r = [entries |-> s, groups |-> q.groups]
    BY <1>1, <1>2, <1>4 DEF trim_entries_from_front
  <2>2. k \in 1..Len(q.entries)
    BY <1>1, <1>4
  <2> HIDE DEF k
  <2>3. /\ s \in Seq(S) /\ Len(s) = Len(q.entries) - k
        /\ \A i \in 1..Len(q.entries) - k : s[i] = q.entries[i + k]
    BY <1>1, <2>2
  <2> HIDE DEF s
  <2>4. r \in QueuesOver(S)
    BY <1>1, <2>1, <2>3 DEF QueuesOver
  <2>5. r.entries = s /\ DOMAIN s = 1..Len(q.entries) - k
    BY <1>1, <2>1, <2>2, <2>3
  <2>6. ASSUME NEW i \in DOMAIN r.entries
        PROVE  \E j \in DOMAIN q.entries : j >= i /\ q.entries[j] = r.entries[i]
    <3>1. i \in 1..Len(q.entries) - k
      BY <2>5
    <3>2. i + k \in DOMAIN q.entries /\ i + k >= i
      BY <1>1, <2>2, <3>1
    <3>3. q.entries[i + k] = r.entries[i]
      BY <2>3, <2>5, <3>1
    <3> QED
      BY <3>2, <3>3
  <2> QED
    BY <1>1, <1>4, <2>4, <2>6
<1> QED
  BY <1>1, <1>3, <1>4

-----------------------------------------------------------------------------
(* Types *)

Ticks == [todo : Seq(Calls), calls : Seq(Incoming), outs : Seq(Outgoing), txs : Seq(WithTx),
          loads : SUBSET Calls, len : Nat, groups : Nat, left : Nat,
          built : Nat, inner : BOOLEAN]
Flights == [q : Queues, blocks : Seq(Blocks), hint : Nat, seen : SUBSET L1Txs]
Places == {"idle", "incoming", "outgoing", "build", "flush", "send", "forward",
           "triggers", "receipt"}

\* TypeOK in parts, and the kind of the calls a drain has left to do.
SharedTypes == cross \in Seq(Incoming) /\ out \in Seq(Outgoing) /\ fwd \in Seq(L1Txs)
DriverTypes ==
  /\ pending_l1 \in Queues /\ blocks \in Seq(Blocks) /\ pool \subseteq Outgoing
  /\ mode \in {"builder", "sync"} /\ hold \in BOOLEAN /\ cooling \in BOOLEAN
  /\ recovery \in {"none", "sibling", "refresh"}
LocalTypes == pc \in Places /\ tick \in Ticks /\ flight \in Flights
HistoryTypes ==
  /\ accepted \subseteq Calls \cup Direct
  /\ posted \subseteq Calls /\ confirmed \subseteq Calls /\ dropped \subseteq Calls
  /\ sent \in [L1Txs -> Nat] /\ faults \in Nat /\ rootFaults \in Nat
TodoTypes ==
  /\ pc = "incoming" => tick.todo \in Seq(Incoming)
  /\ pc = "outgoing" => tick.todo \in Seq(Outgoing)
Types == SharedTypes /\ DriverTypes /\ LocalTypes /\ HistoryTypes /\ TodoTypes

\* The typing used in the proofs implies the one the runs check.
LEMMA TypesGiveTypeOK == Types => TypeOK
  BY DEF Types, SharedTypes, DriverTypes, LocalTypes, HistoryTypes, Ticks, Flights, Places, TypeOK

\* A sequence over a set is one over any larger set.
LEMMA SeqOfMore ==
  ASSUME NEW S, NEW T, S \subseteq T, NEW s \in Seq(S)
  PROVE  s \in Seq(T)
<1>1. Len(s) \in Nat /\ DOMAIN s = 1..Len(s) /\ \A i \in 1..Len(s) : s[i] \in T
  OBVIOUS
<1>2. s = [i \in 1..Len(s) |-> s[i]]
  OBVIOUS
<1> QED
  BY <1>1, <1>2, IsASeq

\* The fields of step_builder's locals have their types.
LEMMA TickFields ==
  ASSUME NEW t \in Ticks
  PROVE  /\ t.todo \in Seq(Calls) /\ t.calls \in Seq(Incoming) /\ t.outs \in Seq(Outgoing)
         /\ t.txs \in Seq(WithTx) /\ t.loads \subseteq Calls /\ t.len \in Nat
         /\ t.groups \in Nat /\ t.left \in Nat /\ t.built \in Nat /\ t.inner \in BOOLEAN
  BY DEF Ticks

\* The types of the parts of a batch in flight.
LEMMA FlightFields ==
  ASSUME NEW f \in Flights
  PROVE  f.q \in Queues /\ f.blocks \in Seq(Blocks) /\ f.hint \in Nat
  BY DEF Flights

\* The queues of the model are the queues of QueueLemmas over its calls.
LEMMA QueuesAreOverCalls == Queues = QueuesOver(Calls)
  BY DEF Queues, QueuesOver, Group

\* The locals of an idle driver are locals of a tick.
LEMMA NoTickType == NoTick \in Ticks
  BY DEF NoTick, Ticks

\* The absent batch and the empty queue have the types of a batch and a queue.
LEMMA NoFlightType == NoFlight \in Flights /\ EmptyQueue \in Queues
  BY EmptyQueueFields, QueuesAreOverCalls DEF NoFlight, Flights

\* A step of the RPC side.
LEMMA RpcTypes ==
  ASSUME Types, RpcNext
  PROVE  Types'
<1>1. Incoming \subseteq Calls /\ Outgoing \subseteq Calls /\ Direct \subseteq L1Txs
  BY DEF Calls, L1Txs
<1>2. ASSUME NEW c \in Incoming, QueueCrossChainCall(c) PROVE Types'
  <2>1. cross' \in Seq(Incoming)
    BY <1>2, AppendFacts DEF Types, SharedTypes, QueueCrossChainCall
  <2> QED
    BY <1>1, <1>2, <2>1 DEF QueueCrossChainCall, Types, SharedTypes, DriverTypes,
      LocalTypes, HistoryTypes, TodoTypes, driver, bounds
<1>3. ASSUME NEW c \in Outgoing, QueueL2ToL1Call(c) PROVE Types'
  <2>1. out' \in Seq(Outgoing)
    BY <1>3, AppendFacts DEF Types, SharedTypes, QueueL2ToL1Call
  <2> QED
    BY <1>1, <1>3, <2>1 DEF QueueL2ToL1Call, Types, SharedTypes, DriverTypes,
      LocalTypes, HistoryTypes, TodoTypes, driver, bounds
<1>4. ASSUME NEW t \in Direct, QueueL1ForwardTx(t) PROVE Types'
  <2>1. fwd' \in Seq(L1Txs)
    BY <1>1, <1>4, AppendFacts DEF Types, SharedTypes, QueueL1ForwardTx
  <2> QED
    BY <1>1, <1>4, <2>1 DEF QueueL1ForwardTx, Types, SharedTypes, DriverTypes,
      LocalTypes, HistoryTypes, TodoTypes, driver, bounds
<1> QED
  BY <1>2, <1>3, <1>4 DEF RpcNext

\* The calls of a queue are calls.
LEMMA CallsInType ==
  ASSUME NEW q \in Queues
  PROVE  CallsIn(q) \subseteq Calls
<1>1. DOMAIN q.entries = 1..Len(q.entries) /\ \A i \in 1..Len(q.entries) : q.entries[i] \in Calls
  BY QueueFields, QueuesAreOverCalls
<1> QED
  BY <1>1 DEF CallsIn

\* The group of a drained call is added to the queue, whatever its trigger flag.
LEMMA DrainedGroup ==
  ASSUME NEW q \in Queues, NEW c \in Calls, NEW t \in BOOLEAN
  PROVE  /\ append_group(q, c, L1Count[c], t) \in Queues
         /\ Appended(q, c, L1Count[c], append_group(q, c, L1Count[c], t))
<1>1. L1Count[c] \in Nat
  BY CallQueuesAssumption
<1> QED
  BY <1>1, AppendGroupFields, QueuesAreOverCalls

\* It adds the call to the calls of the queue.
LEMMA DrainedCalls ==
  ASSUME NEW q \in Queues, NEW r \in Queues, NEW c \in Calls, Appended(q, c, L1Count[c], r)
  PROVE  CallsIn(r) = CallsIn(q) \cup {c}
<1>1. L1Count[c] \in Nat \ {0}
  BY CallQueuesAssumption
<1> QED
  BY <1>1, AppendedCalls, QueuesAreOverCalls

\* What a recovery leaves has its types.
LEMMA ClearedTypes ==
  ASSUME Types, NEW m \in {"builder", "sync"}, NEW r \in {"none", "sibling", "refresh"},
         ClearInternalState(m, r)
  PROVE  /\ pending_l1' \in Queues /\ blocks' \in Seq(Blocks) /\ fwd' \in Seq(L1Txs)
         /\ hold' \in BOOLEAN /\ mode' \in {"builder", "sync"}
         /\ recovery' \in {"none", "sibling", "refresh"} /\ dropped' \subseteq Calls
<1>1. CallsIn(pending_l1) \subseteq Calls /\ dropped \subseteq Calls
  BY CallsInType DEF Types, DriverTypes, HistoryTypes
<1>2. EmptyQueue \in Queues
  BY NoFlightType
<1>3. hold' \in BOOLEAN
  BY DEF ClearInternalState
<1>4. <<>> \in Seq(Blocks) /\ <<>> \in Seq(L1Txs)
  OBVIOUS
<1> QED
  BY <1>1, <1>2, <1>3, <1>4 DEF ClearInternalState

\* A block built now loads calls of this tick and includes what the pool holds.
LEMMA BlockType ==
  ASSUME NEW l \in SUBSET Calls, NEW x \in SUBSET Outgoing, NEW b \in BOOLEAN
  PROVE  [loads |-> l, txs |-> x, submitted |-> b] \in Blocks
  BY DEF Blocks

\* The counters of the build loop may be set to any number.
LEMMA TickBuilt ==
  ASSUME NEW t \in Ticks, NEW l \in Nat, NEW i \in BOOLEAN, NEW b \in Nat
  PROVE  [t EXCEPT !.left = l, !.inner = i, !.built = b] \in Ticks
  BY DEF Ticks

\* A step of the recovery paths keeps the types.
LEMMA RecoveryTypes ==
  ASSUME Types, RecoveryNext
  PROVE  Types'
<1>1. CASE DerivationRewinds
  <2>1. faults' \in Nat /\ rootFaults' \in Nat
    BY <1>1 DEF DerivationRewinds, Fault, Types, HistoryTypes
  <2>2. ClearInternalState("sync", "none")
    BY <1>1 DEF DerivationRewinds
  <2> QED
    BY <1>1, <2>1, <2>2, ClearedTypes DEF DerivationRewinds, Types, SharedTypes, DriverTypes,
    LocalTypes, HistoryTypes, TodoTypes, shared, driver, history, bounds
<1>2. CASE HoldReleased
  BY <1>2 DEF HoldReleased, Types, SharedTypes, DriverTypes,
    LocalTypes, HistoryTypes, TodoTypes, shared, driver, history, bounds
<1>3. CASE SyncDone
  BY <1>3 DEF SyncDone, Types, SharedTypes, DriverTypes,
    LocalTypes, HistoryTypes, TodoTypes, shared, driver, history, bounds
<1>4. CASE RebuildWithFreshL1Context
  <2>1. CallsIn(pending_l1) \subseteq Calls
    BY CallsInType DEF Types, DriverTypes
  <2>2. [loads |-> {}, txs |-> pool, submitted |-> FALSE] \in Blocks
    BY BlockType DEF Types, DriverTypes
  <2>3. blocks' \in Seq(Blocks)
    BY <1>4, <2>2 DEF RebuildWithFreshL1Context
  <2>4. EmptyQueue \in Queues /\ <<>> \in Seq(L1Txs)
    BY NoFlightType
  <2>5. dropped' \subseteq Calls
    BY <1>4, <2>1 DEF RebuildWithFreshL1Context, Types, HistoryTypes
  <2> QED
    BY <1>4, <2>3, <2>4, <2>5 DEF RebuildWithFreshL1Context, Types, SharedTypes, DriverTypes,
    LocalTypes, HistoryTypes, TodoTypes, shared, driver, history, bounds
<1>5. CASE CooldownEnds
  BY <1>5 DEF CooldownEnds, Types, SharedTypes, DriverTypes,
    LocalTypes, HistoryTypes, TodoTypes, shared, driver, history, bounds
<1> QED
  BY <1>1, <1>2, <1>3, <1>4, <1>5 DEF RecoveryNext, Recovers

\* A step of step_builder keeps the types.
LEMMA TickTypes ==
  ASSUME Types, TickNext
  PROVE  Types'
<1>a. Incoming \subseteq Calls /\ Outgoing \subseteq Calls /\ WithTx \subseteq L1Txs
  BY DEF Calls, L1Txs
<1>b. pending_l1 \in Queues /\ tick \in Ticks
  BY DEF Types, DriverTypes, LocalTypes
<1>c. /\ tick.todo \in Seq(Calls) /\ tick.calls \in Seq(Incoming) /\ tick.outs \in Seq(Outgoing)
      /\ tick.txs \in Seq(WithTx) /\ tick.loads \subseteq Calls
      /\ tick.left \in Nat /\ tick.built \in Nat
  BY <1>b, TickFields
<1>d. Len(pending_l1.entries) \in Nat /\ Len(pending_l1.groups) \in Nat
  BY <1>b, QueueFields, QueuesAreOverCalls
<1>1. CASE DrainCrossChainCalls
  <2>1. PICK n \in 1..MaxPerTick :
          tick' = [NoTick EXCEPT !.todo = cross, !.left = n, !.len = Len(pending_l1.entries),
                                 !.groups = Len(pending_l1.groups)]
    BY <1>1 DEF DrainCrossChainCalls
  <2>2. cross \in Seq(Incoming) /\ cross \in Seq(Calls)
    BY <1>a, SeqOfMore DEF Types, SharedTypes
  <2>3. n \in Nat
    BY CallQueuesAssumption
  <2>4. tick' \in Ticks /\ tick'.todo = cross
    <3>1. NoTick \in Ticks
      BY NoTickType
    <3> QED
      BY <1>d, <2>1, <2>2, <2>3, <3>1 DEF Ticks
  <2>5. pc' = "incoming" /\ cross' = <<>>
    BY <1>1 DEF DrainCrossChainCalls
  <2> QED
    BY <1>1, <2>2, <2>4, <2>5 DEF DrainCrossChainCalls, Places, Types, SharedTypes, DriverTypes,
    LocalTypes, HistoryTypes, TodoTypes, shared, driver, history, bounds
<1>2. CASE DrainCall
  <2>1. PICK i \in DOMAIN tick.todo :
          LET c == tick.todo[i]
              rest == [tick EXCEPT !.todo = RemoveAt(@, i)]
          IN  \/ cross' = SetAside(c) /\ tick' = rest /\ UNCHANGED pending_l1
              \/ /\ UNCHANGED cross
                 /\ pending_l1' = append_group(pending_l1, c, L1Count[c], FALSE)
                 /\ tick' = [rest EXCEPT
                      !.calls = Append(@, c),
                      !.txs = IF c \in WithTx THEN Append(@, c) ELSE @,
                      !.loads = IF c \in Terminal THEN @ ELSE @ \cup {c}]
    BY <1>2 DEF DrainCall
  <2> DEFINE c == tick.todo[i]
             left == RemoveAt(tick.todo, i)
  <2>2. tick.todo \in Seq(Incoming)
    BY <1>2 DEF DrainCall, Types, TodoTypes
  <2>3. c \in Incoming /\ left \in Seq(Incoming)
    BY <2>2, RemoveAtFacts
  <2>4. c \in Calls /\ left \in Seq(Calls)
    BY <1>a, <2>3, SeqOfMore
  <2>5. Append(tick.calls, c) \in Seq(Incoming)
    BY <1>c, <2>3, AppendFacts
  <2>6. c \in WithTx => Append(tick.txs, c) \in Seq(WithTx)
    BY <1>c, AppendFacts
  <2>7. append_group(pending_l1, c, L1Count[c], FALSE) \in Queues
    BY <1>b, <2>4, DrainedGroup
  <2>8. SetAside(c) \in Seq(Incoming)
    BY <2>3, AppendFacts DEF SetAside, Types, SharedTypes
  <2> HIDE DEF c, left
  <2>9. tick' \in Ticks /\ tick'.todo = left /\ pending_l1' \in Queues /\ cross' \in Seq(Incoming)
    <3>1. CASE cross' = SetAside(c) /\ tick' = [tick EXCEPT !.todo = left] /\ UNCHANGED pending_l1
      BY <1>b, <2>4, <2>8, <3>1 DEF Ticks
    <3>2. CASE /\ UNCHANGED cross
               /\ pending_l1' = append_group(pending_l1, c, L1Count[c], FALSE)
               /\ tick' = [[tick EXCEPT !.todo = left] EXCEPT
                      !.calls = Append(@, c),
                      !.txs = IF c \in WithTx THEN Append(@, c) ELSE @,
                      !.loads = IF c \in Terminal THEN @ ELSE @ \cup {c}]
      <4>1. cross' \in Seq(Incoming)
        BY <3>2 DEF Types, SharedTypes
      <4>2. tick' \in Ticks /\ tick'.todo = left
        BY <1>b, <1>c, <2>4, <2>5, <2>6, <3>2 DEF Ticks
      <4> QED
        BY <2>7, <3>2, <4>1, <4>2
    <3> QED
      BY <2>1, <3>1, <3>2 DEF c, left
  <2> QED
    BY <1>2, <2>3, <2>9 DEF DrainCall, Types, SharedTypes, DriverTypes,
    LocalTypes, HistoryTypes, TodoTypes, shared, driver, history, bounds
<1>3. CASE DrainL2ToL1Calls
  <2>1. out \in Seq(Outgoing) /\ out \in Seq(Calls)
    BY <1>a, SeqOfMore DEF Types, SharedTypes
  <2>2. tick' \in Ticks /\ tick'.todo = out
    BY <1>3, <1>b, <2>1 DEF DrainL2ToL1Calls, Ticks
  <2>3. pc' = "outgoing" /\ out' = <<>>
    BY <1>3 DEF DrainL2ToL1Calls
  <2> QED
    BY <1>3, <2>1, <2>2, <2>3 DEF DrainL2ToL1Calls, Places, Types, SharedTypes, DriverTypes,
    LocalTypes, HistoryTypes, TodoTypes, shared, driver, history, bounds
<1>4. CASE DrainL2ToL1Call
  <2> DEFINE c == Head(tick.todo)
             left == Tail(tick.todo)
  <2>1. tick.todo \in Seq(Outgoing) /\ tick.todo # <<>>
    BY <1>4 DEF DrainL2ToL1Call, Types, TodoTypes
  <2>2. c \in Outgoing /\ left \in Seq(Outgoing)
    BY <2>1
  <2>3. c \in Calls /\ left \in Seq(Calls)
    BY <1>a, <2>2, SeqOfMore
  <2>4. append_group(pending_l1, c, L1Count[c], TRUE) \in Queues
    BY <1>b, <2>3, DrainedGroup
  <2>5. pending_l1' \in Queues
    BY <1>4, <2>4 DEF DrainL2ToL1Call
  <2>6. tick' = [tick EXCEPT !.todo = left, !.loads = @ \cup {c}]
    BY <1>4 DEF DrainL2ToL1Call
  <2> HIDE DEF c, left
  <2>7. tick' \in Ticks /\ tick'.todo = left
    BY <1>b, <1>c, <2>3, <2>6 DEF Ticks
  <2> QED
    BY <1>4, <2>2, <2>5, <2>7 DEF DrainL2ToL1Call, Types, SharedTypes, DriverTypes,
    LocalTypes, HistoryTypes, TodoTypes, shared, driver, history, bounds
<1>5. CASE InjectHeldL2Txs
  <2>1. ToSet(tick.outs) \subseteq Outgoing
    BY <1>c, ToSetType
  <2> QED
    BY <1>5, <2>1 DEF InjectHeldL2Txs, Places, Types, SharedTypes, DriverTypes,
    LocalTypes, HistoryTypes, TodoTypes, shared, driver, history, bounds
<1>6. CASE BuildBlock
  <2> DEFINE loads == IF tick.left = 1 THEN tick.loads ELSE {}
             kept == trim_entries_from_front(pending_l1, MAX_PENDING_CROSS_CHAIN_ENTRIES)
             full == BatchFull(tick.built + 1)
  <2>1. kept \in Queues
    <3>1. MAX_PENDING_CROSS_CHAIN_ENTRIES \in Nat
      BY CallQueuesAssumption
    <3> QED
      BY <1>b, <3>1, TrimFields, QueuesAreOverCalls
  <2>2. [loads |-> loads, txs |-> pool, submitted |-> FALSE] \in Blocks
    BY <1>c, BlockType DEF Types, DriverTypes
  <2>3. tick' = [tick EXCEPT !.left = @ - 1, !.inner = full, !.built = IF full THEN 0 ELSE @ + 1]
    BY <1>6 DEF BuildBlock
  <2>4. full \in BOOLEAN /\ tick.left - 1 \in Nat
    BY <1>6, <1>c DEF BuildBlock, MoreToBuild, BatchFull
  <2>5. \/ pending_l1' = EmptyQueue /\ rootFaults' = rootFaults + 1
        \/ pending_l1' = kept /\ rootFaults' = rootFaults + 0
    BY <1>6 DEF BuildBlock
  <2>6. blocks' = Append(blocks, [loads |-> loads, txs |-> pool, submitted |-> FALSE])
    BY <1>6 DEF BuildBlock
  <2>7. dropped' = dropped \cup ((CallsIn(pending_l1) \ CallsIn(pending_l1')) \ posted)
    BY <1>6 DEF BuildBlock
  <2>8. pc' \in {"flush", "build"} /\ pool' = {}
    BY <1>6 DEF BuildBlock
  <2> HIDE DEF loads, kept, full
  <2>9. pending_l1' \in Queues /\ rootFaults' \in Nat
    BY <2>1, <2>5, NoFlightType DEF Types, HistoryTypes
  <2>10. blocks' \in Seq(Blocks)
    BY <2>2, <2>6 DEF Types, DriverTypes
  <2>11. tick' \in Ticks
    <3>1. (IF full THEN 0 ELSE tick.built + 1) \in Nat
      BY <1>c
    <3> QED
      BY <1>b, <2>3, <2>4, <3>1, TickBuilt
  <2>12. dropped' \subseteq Calls
    BY <1>b, <2>7, CallsInType DEF Types, HistoryTypes
  <2> QED
    BY <1>6, <2>8, <2>9, <2>10, <2>11, <2>12 DEF BuildBlock, Places, Types, SharedTypes, DriverTypes,
    LocalTypes, HistoryTypes, TodoTypes, shared, driver, history, bounds
<1>7. CASE BuildFails
  <2>1. truncate_to(pending_l1, tick.len, tick.groups) \in Queues
    BY <1>b, TruncateFields, TickFields, QueuesAreOverCalls
  <2>2. cross \o tick.calls \in Seq(Incoming) /\ out \o tick.outs \in Seq(Outgoing)
    BY <1>c, ConcatFacts DEF Types, SharedTypes
  <2>3. faults' \in Nat /\ rootFaults' \in Nat
    BY <1>7 DEF BuildFails, Fault, Types, HistoryTypes
  <2> QED
    BY <1>7, <2>1, <2>2, <2>3, NoTickType DEF BuildFails, Places, Types, SharedTypes, DriverTypes,
    LocalTypes, HistoryTypes, TodoTypes, shared, driver, history, bounds
<1>8. CASE CommitForwardTxs
  <2>1. tick.txs \in Seq(L1Txs)
    BY <1>a, <1>c, SeqOfMore
  <2>2. fwd \o tick.txs \in Seq(L1Txs)
    BY <2>1, ConcatFacts DEF Types, SharedTypes
  <2>3. tick' \in Ticks
    BY <1>8, <1>b DEF CommitForwardTxs, Ticks
  <2> QED
    BY <1>8, <2>2, <2>3 DEF CommitForwardTxs, Places, Types, SharedTypes, DriverTypes,
    LocalTypes, HistoryTypes, TodoTypes, shared, driver, history, bounds
<1>9. CASE FlushOnly
  BY <1>9, NoTickType DEF FlushOnly, Places, Types, SharedTypes, DriverTypes,
    LocalTypes, HistoryTypes, TodoTypes, shared, driver, history, bounds
<1> QED
  BY <1>1, <1>2, <1>3, <1>4, <1>5, <1>6, <1>7, <1>8, <1>9 DEF TickNext

\* Both queues are finite, so one of the waiting fees is the largest.
LEMMA LargestFee ==
  ASSUME SharedTypes
  PROVE  /\ Fees \in SUBSET Nat
         /\ Fees # {} => \E f \in Fees : \A g \in Fees : g <= f
<1> DEFINE A == [i \in DOMAIN cross |-> Price[cross[i]]]
           B == [i \in DOMAIN fwd |-> Price[fwd[i]]]
<1>1. /\ DOMAIN cross = 1..Len(cross) /\ Len(cross) \in Nat
      /\ DOMAIN fwd = 1..Len(fwd) /\ Len(fwd) \in Nat
  BY DEF SharedTypes
<1>2. Price \in [Incoming \cup Direct -> Nat] /\ L1Txs \subseteq Incoming \cup Direct
  BY CallQueuesAssumption DEF L1Txs
<1>3. \A i \in 1..Len(cross) : cross[i] \in Incoming
  BY <1>1 DEF SharedTypes
<1>4. \A i \in 1..Len(fwd) : fwd[i] \in L1Txs
  BY <1>1 DEF SharedTypes
<1>5. \A i \in 1..Len(cross) : A[i] = Price[cross[i]] /\ A[i] \in Nat
  BY <1>1, <1>2, <1>3
<1>6. \A i \in 1..Len(fwd) : B[i] = Price[fwd[i]] /\ B[i] \in Nat
  BY <1>1, <1>2, <1>4
<1> HIDE DEF A, B
<1>7. PICK a \in Nat : \A i \in 1..Len(cross) : A[i] <= a
  BY <1>1, <1>5, SeqIsBounded
<1>8. PICK b \in Nat : \A i \in 1..Len(fwd) : B[i] <= b
  BY <1>1, <1>6, SeqIsBounded
<1>9. Fees \in SUBSET Nat
  <2>1. \A i \in DOMAIN cross : Price[cross[i]] \in Nat
    BY <1>1, <1>5
  <2>2. \A i \in DOMAIN fwd : Price[fwd[i]] \in Nat
    BY <1>1, <1>6
  <2> QED
    BY <2>1, <2>2 DEF Fees
<1>10. \A f \in Fees : f <= a + b
  <2>1. \A i \in DOMAIN cross : Price[cross[i]] \in Nat /\ Price[cross[i]] <= a
    BY <1>1, <1>5, <1>7
  <2>2. \A i \in DOMAIN fwd : Price[fwd[i]] \in Nat /\ Price[fwd[i]] <= b
    BY <1>1, <1>6, <1>8
  <2> QED
    BY <1>7, <1>8, <2>1, <2>2 DEF Fees
<1>11. a + b \in Nat
  BY <1>7, <1>8
<1> QED
  BY <1>9, <1>10, <1>11, LargestNatural

\* The largest waiting fee, as compute_gas_overbid determines it.
MaxFee == CHOOSE f \in Fees : \A g \in Fees : g <= f

\* compute_gas_overbid never goes below zero, and with a non-negative percentage
\* it is larger than every waiting fee, unless they are all zero.
LEMMA Overbid ==
  ASSUME SharedTypes
  PROVE  /\ compute_gas_overbid \in Nat
         /\ OverbidPct >= 0 => \A f \in Fees : f > 0 => compute_gas_overbid > f
<1>1. Fees \in SUBSET Nat /\ (Fees # {} => \E f \in Fees : \A g \in Fees : g <= f)
  BY LargestFee
<1>2. OverbidPct \in Int
  BY CallQueuesAssumption
<1>3. CASE Fees \subseteq {0}
  <2>1. compute_gas_overbid = 0
    BY <1>3 DEF compute_gas_overbid
  <2> QED
    BY <1>3, <2>1
<1>4. CASE ~(Fees \subseteq {0})
  <2>1. MaxFee \in Fees /\ \A g \in Fees : g <= MaxFee
    BY <1>1, <1>4 DEF MaxFee
  <2>2. MaxFee \in Nat
    BY <1>1, <2>1
  <2> DEFINE bump == (MaxFee * OverbidPct) \div 100
             cut == (MaxFee * (-OverbidPct)) \div 100
  <2>3. MaxFee * OverbidPct \in Int /\ MaxFee * (-OverbidPct) \in Int
    BY <1>2, <2>2
  <2>4. bump \in Int /\ cut \in Int
    BY <2>3
  <2>5. OverbidPct >= 0 => bump >= 0
    <3>1. OverbidPct >= 0 => MaxFee * OverbidPct >= 0
      BY <1>2, <2>2
    <3>2. \A x \in Int : x >= 0 => x \div 100 >= 0
      OBVIOUS
    <3> QED
      BY <2>3, <3>1, <3>2
  <2>5a. OverbidPct < 0 => cut >= 0
    <3>1. OverbidPct < 0 => MaxFee * (-OverbidPct) >= 0
      BY <1>2, <2>2
    <3>2. \A x \in Int : x >= 0 => x \div 100 >= 0
      OBVIOUS
    <3> QED
      BY <2>3, <3>1, <3>2
  <2>6. compute_gas_overbid =
          IF OverbidPct >= 0 THEN MaxFee + (IF bump = 0 THEN 1 ELSE bump)
          ELSE IF cut > MaxFee THEN 0 ELSE MaxFee - cut
    BY <1>4 DEF compute_gas_overbid, MaxFee
  <2> HIDE DEF bump, cut
  <2>7. CASE OverbidPct >= 0
    <3>1. compute_gas_overbid = MaxFee + (IF bump = 0 THEN 1 ELSE bump)
      BY <2>6, <2>7
    <3>2. compute_gas_overbid \in Nat /\ compute_gas_overbid > MaxFee
      BY <2>2, <2>4, <2>5, <2>7, <3>1
    <3> QED
      BY <1>1, <2>1, <2>2, <3>2
  <2>8. CASE ~(OverbidPct >= 0)
    <3>1. compute_gas_overbid = IF cut > MaxFee THEN 0 ELSE MaxFee - cut
      BY <2>6, <2>8
    <3>2. compute_gas_overbid \in Nat
      BY <2>2, <2>4, <3>1
    <3> QED
      BY <2>8, <3>2
  <2> QED
    BY <2>7, <2>8
<1> QED
  BY <1>3, <1>4

\* Every way out of flush_to_l1.
LEMMA Returns ==
  ASSUME Types, NEW bail, Return(bail)
  PROVE  flight' \in Flights /\ tick' \in Ticks /\ pc' \in {"idle", "build"}
<1>1. tick \in Ticks
  BY DEF Types, LocalTypes
<1>2. [tick EXCEPT !.inner = FALSE] \in Ticks
  BY <1>1 DEF Ticks
<1> QED
  BY <1>2, NoTickType, NoFlightType DEF Return

\* A failure of the model's environment.
LEMMA FaultTypes ==
  ASSUME Types, Fault \/ NoFault
  PROVE  faults' \in Nat /\ rootFaults' \in Nat
  BY DEF Fault, NoFault, bounds, Types, HistoryTypes

\* A requeued batch has the type of the queues.
LEMMA Requeues ==
  ASSUME Types, NEW b \in BOOLEAN, Requeue(b)
  PROVE  /\ blocks' \in Seq(Blocks) /\ pending_l1' \in Queues
         /\ hold' \in BOOLEAN /\ cooling' \in BOOLEAN
<1> DEFINE front == [i \in DOMAIN flight.blocks |->
                      [flight.blocks[i] EXCEPT !.submitted = @ \/ b]]
<1>1. flight.blocks \in Seq(Blocks) /\ flight.q \in Queues /\ blocks \in Seq(Blocks)
  BY FlightFields DEF Types, LocalTypes, DriverTypes
<1>2. DOMAIN flight.blocks = 1..Len(flight.blocks) /\ Len(flight.blocks) \in Nat
  BY <1>1
<1>3. ASSUME NEW x \in Blocks PROVE [x EXCEPT !.submitted = @ \/ b] \in Blocks
  <2>1. (x.submitted \/ b) \in BOOLEAN
    OBVIOUS
  <2> DEFINE y == x.submitted \/ b
  <2> HIDE DEF y
  <2>2. y \in BOOLEAN
    BY <2>1 DEF y
  <2>3. [x EXCEPT !.submitted = y] \in Blocks
    BY <2>2 DEF Blocks
  <2> QED
    BY <2>3 DEF y
<1>4. \A i \in 1..Len(flight.blocks) : [flight.blocks[i] EXCEPT !.submitted = @ \/ b] \in Blocks
  BY <1>1, <1>2, <1>3
<1>5. front \in Seq(Blocks)
  BY <1>2, <1>4, IsASeq
<1>6. blocks' = front \o blocks
  BY DEF Requeue
<1> HIDE DEF front
<1>7. blocks' \in Seq(Blocks)
  BY <1>1, <1>5, <1>6
<1>8. hold' = FALSE /\ cooling' = TRUE /\ pending_l1' = flight.q
  BY DEF Requeue
<1> QED
  BY <1>1, <1>7, <1>8

\* A cut of the front of the pending blocks.
LEMMA CutType ==
  ASSUME NEW S, NEW s \in Seq(S), NEW n \in 0..Len(s)
  PROVE  SubSeq(s, 1, n) \in Seq(S) /\ SubSeq(s, n + 1, Len(s)) \in Seq(S)
<1>1. n \in Nat /\ Len(s) \in Nat
  OBVIOUS
<1>2. SubSeq(s, 1, n) \in Seq(S)
  BY <1>1
<1>3. SubSeq(s, n + 1, Len(s)) \in Seq(S)
  BY <1>1
<1> QED
  BY <1>2, <1>3

\* A step of flush_to_l1 keeps the types.
LEMMA FlushTypes ==
  ASSUME Types, FlushNext
  PROVE  Types'
<1>a. pending_l1 \in Queues /\ blocks \in Seq(Blocks) /\ tick \in Ticks /\ flight \in Flights
  BY DEF Types, DriverTypes, LocalTypes
<1>b. flight.q \in Queues /\ flight.blocks \in Seq(Blocks) /\ flight.hint \in Nat
  BY <1>a, FlightFields
<1>c. CallsIn(flight.q) \subseteq Calls
  BY <1>b, CallsInType
<1>1. CASE FlushSkips
  <2>1. Return(hold \/ recovery # "none") /\ (Fault \/ NoFault)
    BY <1>1 DEF FlushSkips
  <2>2. flight' \in Flights /\ tick' \in Ticks /\ pc' \in {"idle", "build"}
    BY <2>1, Returns
  <2>3. faults' \in Nat /\ rootFaults' \in Nat
    BY <2>1, FaultTypes
  <2> QED
    BY <1>1, <2>2, <2>3 DEF FlushSkips, Places, Types, SharedTypes, DriverTypes,
    LocalTypes, HistoryTypes, TodoTypes, shared, driver, history, bounds
<1>2. CASE FlushTrims
  <2>1. PICK n \in 1..Len(blocks) : blocks' = SubSeq(blocks, n + 1, Len(blocks))
    BY <1>2 DEF FlushTrims
  <2>2. n \in 0..Len(blocks)
    BY <1>a
  <2>3. blocks' \in Seq(Blocks)
    BY <1>a, <2>1, <2>2, CutType
  <2>4. faults' \in Nat /\ rootFaults' \in Nat
    BY <1>2, FaultTypes DEF FlushTrims
  <2> QED
    BY <1>2, <2>3, <2>4 DEF FlushTrims, Types, SharedTypes, DriverTypes,
    LocalTypes, HistoryTypes, TodoTypes, shared, driver, history, bounds
<1>3. CASE FlushFindsStaleContext \/ FlushFindsDivergentAnchor
  <2>1. flight' \in Flights /\ tick' \in Ticks /\ pc' \in {"idle", "build"}
    BY <1>3, Returns DEF FlushFindsStaleContext, FlushFindsDivergentAnchor
  <2>2. faults' \in Nat /\ rootFaults' \in Nat
    BY <1>3, FaultTypes DEF FlushFindsStaleContext, FlushFindsDivergentAnchor
  <2> QED
    BY <1>3, <2>1, <2>2 DEF FlushFindsStaleContext, FlushFindsDivergentAnchor, Places, Types, SharedTypes, DriverTypes,
    LocalTypes, HistoryTypes, TodoTypes, shared, driver, history, bounds
<1>4. CASE FlushRewinds
  <2>1. flight' \in Flights /\ tick' \in Ticks /\ pc' \in {"idle", "build"}
    BY <1>4, Returns DEF FlushRewinds
  <2>2. faults' \in Nat /\ rootFaults' \in Nat
    BY <1>4, FaultTypes DEF FlushRewinds
  <2>3. ClearInternalState("sync", recovery) /\ recovery \in {"none", "sibling", "refresh"}
    BY <1>4 DEF FlushRewinds, Types, DriverTypes
  <2> QED
    BY <1>4, <2>1, <2>2, <2>3, ClearedTypes DEF FlushRewinds, Places, Types, SharedTypes, DriverTypes,
    LocalTypes, HistoryTypes, TodoTypes, shared, driver, history, bounds
<1>5. CASE CollectBatch
  <2>1. PICK n \in 0..Len(blocks) :
          /\ flight' = [q |-> pending_l1, blocks |-> SubSeq(blocks, 1, n),
                        hint |-> compute_gas_overbid, seen |-> ToSet(fwd)]
          /\ blocks' = SubSeq(blocks, n + 1, Len(blocks))
          /\ hold' = (~is_empty(pending_l1) /\ n > 0)
    BY <1>5 DEF CollectBatch
  <2>2. SubSeq(blocks, 1, n) \in Seq(Blocks) /\ blocks' \in Seq(Blocks)
    BY <1>a, <2>1, CutType
  <2>3. compute_gas_overbid \in Nat /\ ToSet(fwd) \subseteq L1Txs
    BY Overbid DEF Types, SharedTypes, ToSet
  <2>4. flight' \in Flights
    BY <1>a, <2>1, <2>2, <2>3 DEF Flights
  <2>5. hold' \in BOOLEAN
    BY <2>1
  <2>6. pending_l1' \in Queues /\ pc' = "send"
    BY <1>5, NoFlightType DEF CollectBatch
  <2> QED
    BY <1>5, <2>2, <2>4, <2>5, <2>6 DEF CollectBatch, Places, Types, SharedTypes, DriverTypes,
    LocalTypes, HistoryTypes, TodoTypes, shared, driver, history, bounds
<1>6. CASE SendFails \/ ReceiptTimesOut
  <2>1. flight' \in Flights /\ tick' \in Ticks /\ pc' \in {"idle", "build"}
    BY <1>6, Returns DEF SendFails, ReceiptTimesOut
  <2>2. faults' \in Nat /\ rootFaults' \in Nat
    BY <1>6, FaultTypes DEF SendFails, ReceiptTimesOut
  <2>3. /\ blocks' \in Seq(Blocks) /\ pending_l1' \in Queues
        /\ hold' \in BOOLEAN /\ cooling' \in BOOLEAN
    BY <1>6, Requeues DEF SendFails, ReceiptTimesOut
  <2> QED
    BY <1>6, <2>1, <2>2, <2>3 DEF SendFails, ReceiptTimesOut, Places, Types, SharedTypes, DriverTypes,
    LocalTypes, HistoryTypes, TodoTypes, shared, driver, history, bounds
<1>7. CASE SendSucceeds
  <2>1. posted' \subseteq Calls /\ pc' \in {"receipt", "forward"}
    BY <1>7, <1>c DEF SendSucceeds, Types, HistoryTypes
  <2> QED
    BY <1>7, <2>1 DEF SendSucceeds, Places, Types, SharedTypes, DriverTypes,
    LocalTypes, HistoryTypes, TodoTypes, shared, driver, history, bounds
<1>8. CASE ForwardQueuedL1Txs
  <2>1. fwd' \in Seq(L1Txs)
    BY <1>8 DEF ForwardQueuedL1Txs, StillQueued, Types, SharedTypes
  <2>2. \A t : Cardinality({i \in DOMAIN fwd : fwd[i] = t}) \in Nat
    <3>1. DOMAIN fwd = 1..Len(fwd) /\ Len(fwd) \in Nat
      BY DEF Types, SharedTypes
    <3>2. IsFiniteSet(DOMAIN fwd)
      BY <3>1, FS_Interval
    <3> QED
      BY <3>2, FS_Subset, FS_CardinalityType
  <2>3. sent' \in [L1Txs -> Nat]
    <3> DEFINE times(t) == Cardinality({i \in DOMAIN fwd : fwd[i] = t})
    <3>1. \A t \in L1Txs : sent[t] \in Nat /\ times(t) \in Nat
      BY <2>2 DEF Types, HistoryTypes
    <3>2. sent' = [t \in L1Txs |-> sent[t] + (IF cooling THEN 0 ELSE times(t))]
      BY <1>8 DEF ForwardQueuedL1Txs
    <3> HIDE DEF times
    <3> QED
      BY <3>1, <3>2
  <2>4. pc' \in {"triggers", "receipt"}
    BY <1>8 DEF ForwardQueuedL1Txs
  <2> QED
    BY <1>8, <2>1, <2>3, <2>4 DEF ForwardQueuedL1Txs, Places, Types, SharedTypes, DriverTypes,
    LocalTypes, HistoryTypes, TodoTypes, shared, driver, history, bounds
<1>9. CASE SendTriggers
  BY <1>9 DEF SendTriggers, Places, Types, SharedTypes, DriverTypes,
    LocalTypes, HistoryTypes, TodoTypes, shared, driver, history, bounds
<1>10. CASE BatchFails
  <2>1. flight' \in Flights /\ tick' \in Ticks /\ pc' \in {"idle", "build"}
    BY <1>10, Returns DEF BatchFails
  <2>2. faults' \in Nat /\ rootFaults' \in Nat
    BY <1>10, FaultTypes DEF BatchFails
  <2>3. ClearInternalState("sync", "none")
    BY <1>10 DEF BatchFails
  <2> QED
    BY <1>10, <2>1, <2>2, <2>3, ClearedTypes DEF BatchFails, Places, Types, SharedTypes, DriverTypes,
    LocalTypes, HistoryTypes, TodoTypes, shared, driver, history, bounds
<1>11. CASE ReceiptConfirms
  <2>1. flight' \in Flights /\ tick' \in Ticks /\ pc' \in {"idle", "build"}
    BY <1>11, Returns DEF ReceiptConfirms
  <2>2. hold' \in BOOLEAN
    BY <1>11 DEF ReceiptConfirms, Types, DriverTypes
  <2>3. confirmed' \subseteq Calls
    BY <1>11, <1>c DEF ReceiptConfirms, Types, HistoryTypes
  <2> QED
    BY <1>11, <2>1, <2>2, <2>3 DEF ReceiptConfirms, Places, Types, SharedTypes, DriverTypes,
    LocalTypes, HistoryTypes, TodoTypes, shared, driver, history, bounds
<1>12. CASE ReceiptConfirmsNothing
  <2>1. flight' \in Flights /\ tick' \in Ticks /\ pc' \in {"idle", "build"}
    BY <1>12, Returns DEF ReceiptConfirmsNothing
  <2>2. faults' \in Nat /\ rootFaults' \in Nat
    BY <1>12, FaultTypes DEF ReceiptConfirmsNothing
  <2> QED
    BY <1>12, <2>1, <2>2 DEF ReceiptConfirmsNothing, Places, Types, SharedTypes, DriverTypes,
    LocalTypes, HistoryTypes, TodoTypes, shared, driver, history, bounds
<1> QED
  BY <1>1, <1>2, <1>3, <1>4, <1>5, <1>6, <1>7, <1>8, <1>9, <1>10, <1>11, <1>12 DEF FlushNext

\* The initial state has the types.
LEMMA InitTypes == Init => Types
<1> SUFFICES ASSUME Init PROVE Types
  OBVIOUS
<1>1. SharedTypes
  BY DEF Init, SharedTypes
<1>2. DriverTypes
  <2>1. hold \in BOOLEAN /\ cooling \in BOOLEAN
    BY DEF Init
  <2> QED
    BY <2>1, NoFlightType DEF Init, DriverTypes
<1>3. LocalTypes /\ TodoTypes
  BY NoTickType, NoFlightType DEF Init, LocalTypes, TodoTypes, Places
<1>4. HistoryTypes
  BY DEF Init, HistoryTypes
<1> QED
  BY <1>1, <1>2, <1>3, <1>4 DEF Types

\* Every step keeps the types.
LEMMA NextTypes == Types /\ [Next]_vars => Types'
<1> SUFFICES ASSUME Types, [Next]_vars PROVE Types'
  OBVIOUS
<1>1. CASE UNCHANGED vars
  BY <1>1 DEF vars, Types, SharedTypes, DriverTypes,
    LocalTypes, HistoryTypes, TodoTypes, shared, driver, history, bounds
<1> QED
  BY <1>1, RpcTypes, TickTypes, FlushTypes, RecoveryTypes DEF Next

\* Every queue, local and history variable of the call queues keeps its type;
\* among them the gas price hint, which no discount takes below zero.
THEOREM TypesHold == Spec => []TypeOK
<1>1. Spec => []Types
  BY InitTypes, NextTypes, PTL DEF Spec
<1> QED
  BY <1>1, TypesGiveTypeOK, PTL

-----------------------------------------------------------------------------
(* Where the driver is *)

InFlight == pc \in {"send", "forward", "triggers", "receipt"}

\* The locals of step_builder are in use.
Ticking == pc \in {"incoming", "outgoing", "build"} \/ tick.inner

\* What the driver's position says about its locals and the pending queue.
Control ==
  /\ tick.inner => pc = "flush" \/ InFlight
  /\ pc = "idle" => tick = NoTick
  /\ tick.todo # <<>> => pc \in {"incoming", "outgoing"}
  /\ ~InFlight => flight = NoFlight
  /\ InFlight => pending_l1 = EmptyQueue /\ ~cooling
  /\ pc \in {"forward", "triggers", "receipt"} => CallsIn(flight.q) \subseteq posted

\* The locals of a tick are a record with these fields.
LEMMA TickShape ==
  ASSUME NEW t \in Ticks
  PROVE  DOMAIN t = {"todo", "calls", "outs", "txs", "loads", "len", "groups", "left", "built", "inner"}
  BY DEF Ticks

\* The locals of an idle driver are empty.
LEMMA NoTickFields ==
  /\ NoTick.todo = <<>> /\ NoTick.calls = <<>> /\ NoTick.outs = <<>> /\ NoTick.txs = <<>>
  /\ NoTick.loads = {} /\ NoTick.left = 0 /\ NoTick.built = 0 /\ ~NoTick.inner
  BY DEF NoTick

\* After flush_to_l1 there is no batch in flight, and the locals are as they
\* were or unused.
LEMMA ReturnFields ==
  ASSUME Types, NEW bail, Return(bail)
  PROVE  /\ flight' = NoFlight /\ ~tick'.inner
         /\ \/ tick.inner /\ ~bail /\ pc' = "build" /\ tick' = [tick EXCEPT !.inner = FALSE]
            \/ pc' = "idle" /\ tick' = NoTick
<1>1. DOMAIN tick = {"todo", "calls", "outs", "txs", "loads", "len", "groups", "left", "built", "inner"}
  BY TickShape DEF Types, LocalTypes
<1> QED
  BY <1>1, NoTickFields DEF Return

\* A return from flush_to_l1 leaves control where the locals fit.
LEMMA ReturnControl ==
  ASSUME Types, Control, pc \in {"flush", "send", "forward", "triggers", "receipt"},
         NEW bail, Return(bail)
  PROVE  Control'
<1>1. DOMAIN tick = {"todo", "calls", "outs", "txs", "loads", "len", "groups", "left", "built", "inner"}
  BY TickShape DEF Types, LocalTypes
<1>2. tick.todo = <<>>
  BY DEF Control
<1>3. tick'.todo = <<>>
  BY <1>1, <1>2, ReturnFields, NoTickFields
<1> QED
  BY <1>3, ReturnFields DEF Control, InFlight

\* Every step keeps locals and program counter consistent.
LEMMA NextControl ==
  ASSUME Types, Control, [Next]_vars
  PROVE  Control'
<1>a. DOMAIN tick = {"todo", "calls", "outs", "txs", "loads", "len", "groups", "left", "built", "inner"}
  BY TickShape DEF Types, LocalTypes
<1>1. CASE RpcNext
  BY <1>1 DEF RpcNext, QueueCrossChainCall, QueueL2ToL1Call, QueueL1ForwardTx, Control, InFlight,
     driver, bounds
<1>2. CASE RecoveryNext
  <2>1. CASE DerivationRewinds
    BY <2>1 DEF DerivationRewinds, Control, InFlight
  <2>2. CASE HoldReleased \/ SyncDone
    BY <2>2 DEF HoldReleased, SyncDone, Control, InFlight, history
  <2>3. CASE RebuildWithFreshL1Context
    BY <2>3 DEF RebuildWithFreshL1Context, Control, InFlight
  <2>4. CASE CooldownEnds
    BY <2>4 DEF CooldownEnds, Control, InFlight, history
  <2> QED
    BY <1>2, <2>1, <2>2, <2>3, <2>4 DEF RecoveryNext, Recovers
<1>3. CASE TickNext
  <2>1. CASE DrainCrossChainCalls
    <3>1. ~tick'.inner /\ pc' = "incoming"
      BY <2>1, NoTickFields, TickShape, NoTickType DEF DrainCrossChainCalls
    <3> QED
      BY <2>1, <3>1 DEF DrainCrossChainCalls, Control, InFlight, driver, history
  <2>2. CASE DrainCall
    <3>1. tick'.inner = tick.inner
      BY <2>2, <1>a DEF DrainCall
    <3> QED
      BY <2>2, <3>1 DEF DrainCall, Control, InFlight, history
  <2>3. CASE DrainL2ToL1Calls
    <3>1. tick'.inner = tick.inner
      BY <2>3, <1>a DEF DrainL2ToL1Calls
    <3> QED
      BY <2>3, <3>1 DEF DrainL2ToL1Calls, Control, InFlight, driver, history
  <2>4. CASE DrainL2ToL1Call
    <3>1. tick'.inner = tick.inner
      BY <2>4, <1>a DEF DrainL2ToL1Call
    <3> QED
      BY <2>4, <3>1 DEF DrainL2ToL1Call, Control, InFlight, history
  <2>5. CASE InjectHeldL2Txs
    BY <2>5 DEF InjectHeldL2Txs, Control, InFlight, history
  <2>6. CASE BuildBlock
    <3>1. tick'.todo = tick.todo /\ pc' \in {"flush", "build"} /\ (tick'.inner => pc' = "flush")
      BY <2>6, <1>a DEF BuildBlock, BatchFull
    <3> QED
      BY <2>6, <3>1 DEF BuildBlock, Control, InFlight
  <2>7. CASE BuildFails
    BY <2>7, NoTickFields DEF BuildFails, Control, InFlight, history
  <2>8. CASE CommitForwardTxs
    <3>1. tick'.todo = tick.todo /\ ~tick'.inner
      BY <2>8, <1>a DEF CommitForwardTxs
    <3> QED
      BY <2>8, <3>1 DEF CommitForwardTxs, Control, InFlight, driver, history
  <2>9. CASE FlushOnly
    BY <2>9, NoTickFields DEF FlushOnly, Control, InFlight, driver, history
  <2> QED
    BY <1>3, <2>1, <2>2, <2>3, <2>4, <2>5, <2>6, <2>7, <2>8, <2>9 DEF TickNext
<1>4. CASE FlushNext
  <2>1. CASE FlushSkips \/ FlushFindsStaleContext \/ FlushFindsDivergentAnchor \/ FlushRewinds
    <3>1. PICK bail : Return(bail) /\ pc = "flush"
      BY <2>1 DEF FlushSkips, FlushFindsStaleContext, FlushFindsDivergentAnchor, FlushRewinds, Prechecked
    <3> QED
      BY <3>1, ReturnControl
  <2>2. CASE FlushTrims
    BY <2>2 DEF FlushTrims, Control, InFlight, history
  <2>3. CASE CollectBatch
    BY <2>3 DEF CollectBatch, Prechecked, Control, InFlight, history
  <2>4. CASE SendSucceeds
    BY <2>4 DEF SendSucceeds, Control, InFlight, driver
  <2>5. CASE ForwardQueuedL1Txs
    BY <2>5 DEF ForwardQueuedL1Txs, Control, InFlight, driver
  <2>6. CASE SendTriggers
    BY <2>6 DEF SendTriggers, Control, InFlight, driver, history
  <2>7. CASE SendFails \/ BatchFails \/ ReceiptConfirms \/ ReceiptConfirmsNothing \/ ReceiptTimesOut
    <3>1. PICK bail : Return(bail) /\ pc \in {"send", "triggers", "receipt"}
      BY <2>7 DEF SendFails, BatchFails, ReceiptConfirms, ReceiptConfirmsNothing, ReceiptTimesOut
    <3> QED
      BY <3>1, ReturnControl
  <2> QED
    BY <1>4, <2>1, <2>2, <2>3, <2>4, <2>5, <2>6, <2>7 DEF FlushNext
<1>5. CASE UNCHANGED vars
  BY <1>5 DEF vars, Control, InFlight, driver, history
<1> QED
  BY <1>1, <1>2, <1>3, <1>4, <1>5 DEF Next

\* Initially the driver is idle with empty locals.
LEMMA InitControl == Init => Control
  BY NoTickFields DEF Init, Control, InFlight

-----------------------------------------------------------------------------
(* What the actions of a tick do to the locals of step_builder *)

\* The locals that only the start of a tick sets.
SameMark == tick'.len = tick.len /\ tick'.groups = tick.groups

\* What the start of the drain takes and remembers.
LEMMA StartOfDrain ==
  ASSUME Types, DrainCrossChainCalls
  PROVE  /\ tick'.todo = cross /\ tick'.calls = <<>> /\ tick'.outs = <<>> /\ tick'.txs = <<>>
         /\ tick'.len = Len(pending_l1.entries) /\ tick'.groups = Len(pending_l1.groups)
         /\ ~tick'.inner /\ tick'.built = 0 /\ Len(blocks) + tick'.left <= PENDING_CAP
         /\ cross' = <<>> /\ pc = "idle" /\ pc' = "incoming"
<1>1. DOMAIN NoTick = {"todo", "calls", "outs", "txs", "loads", "len", "groups", "left", "built", "inner"}
  BY TickShape, NoTickType
<1> QED
  BY <1>1, NoTickFields DEF DrainCrossChainCalls

\* One turn of the drain of incoming calls sets a call aside or appends its entries.
LEMMA DrainOfCall ==
  ASSUME Types, DrainCall
  PROVE  \E c \in Incoming :
           /\ ToSet(tick.todo) = ToSet(tick'.todo) \cup {c}
           /\ IsInjective(tick.todo) => IsInjective(tick'.todo) /\ c \notin ToSet(tick'.todo)
           /\ SameMark /\ tick'.outs = tick.outs /\ tick'.left = tick.left
           /\ tick'.built = tick.built /\ tick'.inner = tick.inner
           /\ pc = "incoming" /\ pc' = "incoming"
           /\ \/ /\ pending_l1' = pending_l1 /\ cross' = Append(cross, c)
                 /\ tick'.calls = tick.calls /\ tick'.txs = tick.txs
              \/ /\ cross' = cross /\ Appended(pending_l1, c, L1Count[c], pending_l1')
                 /\ tick'.calls = Append(tick.calls, c)
                 /\ tick'.txs = IF c \in WithTx THEN Append(tick.txs, c) ELSE tick.txs
<1>1. DOMAIN tick = {"todo", "calls", "outs", "txs", "loads", "len", "groups", "left", "built", "inner"}
  BY TickShape DEF Types, LocalTypes
<1>2. PICK i \in DOMAIN tick.todo :
        LET c == tick.todo[i]
            rest == [tick EXCEPT !.todo = RemoveAt(@, i)]
        IN  \/ cross' = SetAside(c) /\ tick' = rest /\ UNCHANGED pending_l1
            \/ /\ UNCHANGED cross
               /\ pending_l1' = append_group(pending_l1, c, L1Count[c], FALSE)
               /\ tick' = [rest EXCEPT
                    !.calls = Append(@, c),
                    !.txs = IF c \in WithTx THEN Append(@, c) ELSE @,
                    !.loads = IF c \in Terminal THEN @ ELSE @ \cup {c}]
  BY DEF DrainCall
<1> DEFINE c == tick.todo[i]
           left == RemoveAt(tick.todo, i)
<1>3. tick.todo \in Seq(Incoming)
  BY DEF DrainCall, Types, TodoTypes
<1>4. /\ ToSet(tick.todo) = ToSet(left) \cup {c}
      /\ IsInjective(tick.todo) => IsInjective(left) /\ c \notin ToSet(left)
  BY <1>3, RemoveAtFacts
<1>5. c \in Incoming /\ c \in Calls
  BY <1>3 DEF Calls
<1>6. Appended(pending_l1, c, L1Count[c], append_group(pending_l1, c, L1Count[c], FALSE))
  BY <1>5, DrainedGroup DEF Types, DriverTypes
<1>7. pc = "incoming" /\ pc' = "incoming"
  BY DEF DrainCall
<1> HIDE DEF c, left
<1>8. CASE cross' = SetAside(c) /\ tick' = [tick EXCEPT !.todo = left] /\ UNCHANGED pending_l1
  <2>1. /\ tick'.todo = left /\ tick'.calls = tick.calls /\ tick'.txs = tick.txs /\ tick'.outs = tick.outs
        /\ tick'.left = tick.left /\ tick'.built = tick.built /\ tick'.inner = tick.inner /\ SameMark
    BY <1>1, <1>8 DEF SameMark
  <2> QED
    BY <1>4, <1>5, <1>7, <1>8, <2>1 DEF SetAside
<1>9. CASE /\ UNCHANGED cross
           /\ pending_l1' = append_group(pending_l1, c, L1Count[c], FALSE)
           /\ tick' = [[tick EXCEPT !.todo = left] EXCEPT
                  !.calls = Append(@, c),
                  !.txs = IF c \in WithTx THEN Append(@, c) ELSE @,
                  !.loads = IF c \in Terminal THEN @ ELSE @ \cup {c}]
  <2>1. /\ tick'.todo = left /\ tick'.calls = Append(tick.calls, c) /\ tick'.outs = tick.outs
        /\ tick'.txs = IF c \in WithTx THEN Append(tick.txs, c) ELSE tick.txs
        /\ tick'.left = tick.left /\ tick'.built = tick.built /\ tick'.inner = tick.inner /\ SameMark
    BY <1>1, <1>9 DEF SameMark
  <2> QED
    BY <1>4, <1>5, <1>6, <1>7, <1>9, <2>1
<1> QED
  BY <1>2, <1>8, <1>9 DEF c, left

\* What the start of the drain of outgoing calls takes.
LEMMA StartOfOutgoing ==
  ASSUME Types, DrainL2ToL1Calls
  PROVE  /\ tick.todo = <<>> /\ tick'.todo = out /\ tick'.outs = out /\ out' = <<>>
         /\ SameMark /\ tick'.calls = tick.calls /\ tick'.txs = tick.txs /\ tick'.left = tick.left
         /\ tick'.built = tick.built /\ tick'.inner = tick.inner
         /\ pc = "incoming" /\ pc' = "outgoing"
<1>1. DOMAIN tick = {"todo", "calls", "outs", "txs", "loads", "len", "groups", "left", "built", "inner"}
  BY TickShape DEF Types, LocalTypes
<1> QED
  BY <1>1 DEF DrainL2ToL1Calls, SameMark

\* One turn of the drain of outgoing calls appends the entries of one call.
LEMMA DrainOfOutgoing ==
  ASSUME Types, DrainL2ToL1Call
  PROVE  \E c \in Outgoing :
           /\ ToSet(tick.todo) = ToSet(tick'.todo) \cup {c}
           /\ IsInjective(tick.todo) => IsInjective(tick'.todo) /\ c \notin ToSet(tick'.todo)
           /\ SameMark /\ tick'.calls = tick.calls /\ tick'.txs = tick.txs /\ tick'.outs = tick.outs
           /\ tick'.left = tick.left /\ tick'.built = tick.built /\ tick'.inner = tick.inner
           /\ pc = "outgoing" /\ pc' = "outgoing"
           /\ Appended(pending_l1, c, L1Count[c], pending_l1')
<1>1. DOMAIN tick = {"todo", "calls", "outs", "txs", "loads", "len", "groups", "left", "built", "inner"}
  BY TickShape DEF Types, LocalTypes
<1> DEFINE c == Head(tick.todo)
           left == Tail(tick.todo)
<1>2. tick.todo \in Seq(Outgoing) /\ tick.todo # <<>>
  BY DEF DrainL2ToL1Call, Types, TodoTypes
<1>3. /\ c \in Outgoing
      /\ ToSet(tick.todo) = ToSet(left) \cup {c}
      /\ IsInjective(tick.todo) => IsInjective(left) /\ c \notin ToSet(left)
  BY <1>2, TailFacts
<1>4. Appended(pending_l1, c, L1Count[c], append_group(pending_l1, c, L1Count[c], TRUE))
  <2>1. c \in Calls
    BY <1>3 DEF Calls
  <2> QED
    BY <2>1, DrainedGroup DEF Types, DriverTypes
<1>5. /\ pending_l1' = append_group(pending_l1, c, L1Count[c], TRUE)
      /\ tick' = [tick EXCEPT !.todo = left, !.loads = @ \cup {c}]
      /\ pc = "outgoing" /\ pc' = "outgoing"
  BY DEF DrainL2ToL1Call
<1> HIDE DEF c, left
<1>6. /\ tick'.todo = left /\ tick'.calls = tick.calls /\ tick'.txs = tick.txs /\ tick'.outs = tick.outs
      /\ tick'.left = tick.left /\ tick'.built = tick.built /\ tick'.inner = tick.inner /\ SameMark
  BY <1>1, <1>5 DEF SameMark
<1> QED
  BY <1>3, <1>4, <1>5, <1>6

\* What building one block of a tick does to the locals and the pending queue.
LEMMA BuildOfBlock ==
  ASSUME Types, BuildBlock
  PROVE  /\ SameMark /\ tick'.todo = tick.todo /\ tick'.calls = tick.calls /\ tick'.outs = tick.outs
         /\ tick'.txs = tick.txs /\ tick.left > 0 /\ tick'.left = tick.left - 1
         /\ tick'.inner = BatchFull(tick.built + 1)
         /\ tick'.built = IF BatchFull(tick.built + 1) THEN 0 ELSE tick.built + 1
         /\ pc = "build" /\ pc' = IF BatchFull(tick.built + 1) THEN "flush" ELSE "build"
         /\ \/ pending_l1' = EmptyQueue /\ rootFaults' # 0
            \/ pending_l1' = trim_entries_from_front(pending_l1, MAX_PENDING_CROSS_CHAIN_ENTRIES)
<1>1. DOMAIN tick = {"todo", "calls", "outs", "txs", "loads", "len", "groups", "left", "built", "inner"}
  BY TickShape DEF Types, LocalTypes
<1> DEFINE full == BatchFull(tick.built + 1)
<1>2. /\ tick' = [tick EXCEPT !.left = @ - 1, !.inner = full, !.built = IF full THEN 0 ELSE @ + 1]
      /\ pc = "build" /\ tick.left > 0
      /\ pc' = IF full THEN "flush" ELSE "build"
  BY DEF BuildBlock, MoreToBuild
<1> HIDE DEF full
<1>3. /\ SameMark /\ tick'.todo = tick.todo /\ tick'.calls = tick.calls /\ tick'.outs = tick.outs
      /\ tick'.txs = tick.txs /\ tick'.left = tick.left - 1 /\ tick'.inner = full
      /\ tick'.built = IF full THEN 0 ELSE tick.built + 1
  BY <1>1, <1>2 DEF SameMark
<1>4. rootFaults \in Nat
  BY DEF Types, HistoryTypes
<1>5. \/ pending_l1' = EmptyQueue /\ rootFaults' = rootFaults + 1
      \/ pending_l1' = trim_entries_from_front(pending_l1, MAX_PENDING_CROSS_CHAIN_ENTRIES)
  BY DEF BuildBlock
<1> QED
  BY <1>2, <1>3, <1>4, <1>5 DEF full

\* Only the flag for a flush inside the loop is reset.
LEMMA InnerReset ==
  ASSUME Types, tick' = [tick EXCEPT !.inner = FALSE]
  PROVE  /\ SameMark /\ tick'.todo = tick.todo /\ tick'.calls = tick.calls /\ tick'.outs = tick.outs
         /\ tick'.txs = tick.txs /\ tick'.left = tick.left /\ tick'.built = tick.built /\ ~tick'.inner
<1>1. DOMAIN tick = {"todo", "calls", "outs", "txs", "loads", "len", "groups", "left", "built", "inner"}
  BY TickShape DEF Types, LocalTypes
<1> QED
  BY <1>1 DEF SameMark

-----------------------------------------------------------------------------
(* Nothing is lost *)

\* The calls this tick has drained.
Drained == ToSet(tick.calls) \cup ToSet(tick.outs)

\* The entries of q after the mark n belong to calls of D.
TailOf(q, n, D) == \A i \in DOMAIN q.entries : i > n => q.entries[i] \in D

\* What a rollback would cut off was drained by this tick, so that it goes back
\* to the queues it came from.
TailIsDrained ==
  /\ Ticking => TailOf(pending_l1, tick.len, Drained) /\ TailOf(flight.q, tick.len, Drained)
  /\ pc = "incoming" => tick.outs = <<>>
  /\ pc = "outgoing" => ToSet(tick.todo) \subseteq ToSet(tick.outs)

\* Nothing lies behind a mark in the empty queue.
LEMMA TailOfEmpty ==
  ASSUME NEW n, NEW D
  PROVE  TailOf(EmptyQueue, n, D) /\ TailOf(NoFlight.q, n, D) /\ CallsIn(NoFlight.q) = {}
<1>1. DOMAIN EmptyQueue.entries = {} /\ NoFlight.q = EmptyQueue
  BY DEF EmptyQueue, NoFlight
<1> QED
  BY <1>1 DEF TailOf, CallsIn

\* A larger set of drained calls still accounts for the tail.
LEMMA TailOfLonger ==
  ASSUME NEW q, NEW n, NEW D, NEW E, TailOf(q, n, D), D \subseteq E
  PROVE  TailOf(q, n, E)
  BY DEF TailOf

\* Appending a drained call keeps the tail made of drained calls.
LEMMA TailOfAppended ==
  ASSUME NEW q \in Queues, NEW r \in Queues, NEW c, NEW m \in Nat, NEW n, NEW D,
         Appended(q, c, m, r), TailOf(q, n, D), c \in D
  PROVE  TailOf(r, n, D)
<1>1. /\ DOMAIN q.entries = 1..Len(q.entries) /\ DOMAIN r.entries = 1..Len(r.entries)
      /\ Len(q.entries) \in Nat
  BY QueueFields, QueuesAreOverCalls
<1>2. /\ Len(r.entries) = Len(q.entries) + m
      /\ \A i \in 1..Len(q.entries) : r.entries[i] = q.entries[i]
      /\ \A i \in Len(q.entries) + 1..Len(q.entries) + m : r.entries[i] = c
  BY DEF Appended
<1> QED
  BY <1>1, <1>2 DEF TailOf

\* trim_entries_from_front only moves entries forward, so the tail stays drained.
LEMMA TailOfTrimmed ==
  ASSUME NEW q \in Queues, NEW n \in Nat, NEW D, TailOf(q, n, D),
         NEW r, r = trim_entries_from_front(q, MAX_PENDING_CROSS_CHAIN_ENTRIES)
  PROVE  TailOf(r, n, D) /\ r \in Queues
<1>1. MAX_PENDING_CROSS_CHAIN_ENTRIES \in Nat
  BY CallQueuesAssumption
<1>2. /\ r \in Queues
      /\ \A i \in DOMAIN r.entries : \E j \in DOMAIN q.entries : j >= i /\ q.entries[j] = r.entries[i]
  BY <1>1, TrimFields, QueuesAreOverCalls
<1>3. DOMAIN q.entries = 1..Len(q.entries) /\ DOMAIN r.entries = 1..Len(r.entries)
  BY <1>2, QueueFields, QueuesAreOverCalls
<1> QED
  BY <1>2, <1>3 DEF TailOf

\* No step puts a call behind the mark that this tick did not drain.
LEMMA NextTail ==
  ASSUME Types, Types', Control, Control', TailIsDrained, [Next]_vars
  PROVE  TailIsDrained'
<1>a. /\ pending_l1 \in Queues /\ pending_l1' \in Queues /\ tick.len \in Nat
  BY TickFields DEF Types, DriverTypes, LocalTypes
<1>b. /\ tick.calls \in Seq(Incoming) /\ tick.outs \in Seq(Outgoing)
  BY TickFields DEF Types, LocalTypes
<1>c. \A c \in Calls : L1Count[c] \in Nat
  BY CallQueuesAssumption
<1>d. Incoming \subseteq Calls /\ Outgoing \subseteq Calls
  BY DEF Calls
<1>1. CASE RpcNext
  BY <1>1 DEF RpcNext, QueueCrossChainCall, QueueL2ToL1Call, QueueL1ForwardTx, TailIsDrained, Ticking,
     Drained, driver
<1>2. CASE RecoveryNext
  <2>1. CASE DerivationRewinds
    BY <2>1, NoTickFields DEF DerivationRewinds, TailIsDrained, Ticking, Control
  <2>2. CASE HoldReleased \/ SyncDone \/ CooldownEnds
    BY <2>2 DEF HoldReleased, SyncDone, CooldownEnds, TailIsDrained, Ticking, Drained
  <2>3. CASE RebuildWithFreshL1Context
    BY <2>3, NoTickFields DEF RebuildWithFreshL1Context, TailIsDrained, Ticking, Control
  <2> QED
    BY <1>2, <2>1, <2>2, <2>3 DEF RecoveryNext, Recovers
<1>3. CASE DrainCrossChainCalls
  <2>1. tick'.len = Len(pending_l1.entries) /\ pc = "idle" /\ pc' = "incoming" /\ tick'.outs = <<>>
    BY <1>3, StartOfDrain
  <2>2. pending_l1' = pending_l1 /\ flight' = flight /\ flight = NoFlight
    BY <1>3, <2>1 DEF DrainCrossChainCalls, driver, Control, InFlight
  <2>3. DOMAIN pending_l1.entries = 1..Len(pending_l1.entries) /\ Len(pending_l1.entries) \in Nat
    BY <1>a, QueueFields, QueuesAreOverCalls
  <2>4. TailOf(pending_l1', tick'.len, Drained')
    BY <2>1, <2>2, <2>3 DEF TailOf
  <2> QED
    BY <2>1, <2>2, <2>4, TailOfEmpty DEF TailIsDrained
<1>4. CASE DrainCall
  <2>1. PICK c \in Incoming :
           /\ SameMark /\ tick'.outs = tick.outs
           /\ pc = "incoming" /\ pc' = "incoming"
           /\ \/ pending_l1' = pending_l1 /\ tick'.calls = tick.calls
              \/ /\ Appended(pending_l1, c, L1Count[c], pending_l1')
                 /\ tick'.calls = Append(tick.calls, c)
    BY <1>4, DrainOfCall
  <2>2. TailOf(pending_l1, tick.len, Drained) /\ flight' = NoFlight
    BY <1>4, <2>1 DEF TailIsDrained, Ticking, DrainCall, Control, InFlight
  <2>3. TailOf(pending_l1', tick'.len, Drained')
    <3>1. CASE pending_l1' = pending_l1 /\ tick'.calls = tick.calls
      BY <2>1, <2>2, <3>1 DEF Drained, SameMark
    <3>2. CASE Appended(pending_l1, c, L1Count[c], pending_l1') /\ tick'.calls = Append(tick.calls, c)
      <4>1. ToSet(tick'.calls) = ToSet(tick.calls) \cup {c}
        BY <1>b, <3>2, AppendFacts
      <4>2. Drained \subseteq Drained' /\ c \in Drained'
        BY <2>1, <4>1 DEF Drained
      <4>3. TailOf(pending_l1, tick.len, Drained')
        BY <2>2, <4>2, TailOfLonger
      <4>4. L1Count[c] \in Nat
        BY <1>c, <1>d
      <4> QED
        BY <1>a, <2>1, <3>2, <4>2, <4>3, <4>4, TailOfAppended DEF SameMark
    <3> QED
      BY <2>1, <3>1, <3>2
  <2>4. tick'.outs = <<>>
    BY <2>1 DEF TailIsDrained
  <2> QED
    BY <2>1, <2>2, <2>3, <2>4, TailOfEmpty DEF TailIsDrained
<1>5. CASE DrainL2ToL1Calls
  <2>1. /\ SameMark /\ tick'.calls = tick.calls /\ tick'.todo = out /\ tick'.outs = out
        /\ pc = "incoming" /\ pc' = "outgoing"
    BY <1>5, StartOfOutgoing
  <2>2. pending_l1' = pending_l1 /\ flight' = NoFlight /\ TailOf(pending_l1, tick.len, Drained)
    BY <1>5, <2>1 DEF TailIsDrained, Ticking, DrainL2ToL1Calls, driver, Control, InFlight
  <2>3. \A i \in DOMAIN pending_l1.entries : i > tick.len => pending_l1.entries[i] \in ToSet(tick.calls)
    <3>1. tick.outs = <<>>
      BY <2>1 DEF TailIsDrained
    <3> QED
      BY <2>2, <3>1, EmptySeqFacts DEF TailOf, Drained
  <2>4. TailOf(pending_l1', tick'.len, Drained')
    BY <2>1, <2>2, <2>3 DEF TailOf, Drained, SameMark
  <2> QED
    BY <2>1, <2>2, <2>4, TailOfEmpty DEF TailIsDrained
<1>6. CASE DrainL2ToL1Call
  <2>1. PICK c \in Outgoing :
           /\ ToSet(tick.todo) = ToSet(tick'.todo) \cup {c}
           /\ SameMark /\ tick'.calls = tick.calls /\ tick'.outs = tick.outs
           /\ pc = "outgoing" /\ pc' = "outgoing"
           /\ Appended(pending_l1, c, L1Count[c], pending_l1')
    BY <1>6, DrainOfOutgoing
  <2>2. TailOf(pending_l1, tick.len, Drained) /\ flight' = NoFlight
    BY <1>6, <2>1 DEF TailIsDrained, Ticking, DrainL2ToL1Call, Control, InFlight
  <2>3. ToSet(tick.todo) \subseteq ToSet(tick.outs)
    BY <2>1 DEF TailIsDrained
  <2>4. Drained' = Drained /\ c \in Drained /\ L1Count[c] \in Nat
    BY <1>c, <1>d, <2>1, <2>3 DEF Drained
  <2>5. TailOf(pending_l1', tick'.len, Drained')
    BY <1>a, <2>1, <2>2, <2>4, TailOfAppended DEF SameMark
  <2> QED
    BY <2>1, <2>2, <2>3, <2>5, TailOfEmpty DEF TailIsDrained
<1>7. CASE InjectHeldL2Txs
  BY <1>7 DEF InjectHeldL2Txs, TailIsDrained, Ticking, Drained
<1>8. CASE BuildBlock
  <2>1. /\ SameMark /\ tick'.calls = tick.calls /\ tick'.outs = tick.outs
        /\ pc = "build" /\ pc' \in {"flush", "build"}
        /\ \/ pending_l1' = EmptyQueue
           \/ pending_l1' = trim_entries_from_front(pending_l1, MAX_PENDING_CROSS_CHAIN_ENTRIES)
    BY <1>8, BuildOfBlock
  <2>2. TailOf(pending_l1, tick.len, Drained) /\ flight' = NoFlight
    BY <1>8, <2>1 DEF TailIsDrained, Ticking, BuildBlock, Control, InFlight
  <2>3. TailOf(pending_l1', tick'.len, Drained')
    BY <1>a, <2>1, <2>2, TailOfTrimmed, TailOfEmpty DEF SameMark, Drained
  <2> QED
    BY <2>1, <2>2, <2>3, TailOfEmpty DEF TailIsDrained
<1>9. CASE BuildFails \/ FlushOnly
  BY <1>9, NoTickFields DEF BuildFails, FlushOnly, TailIsDrained, Ticking
<1>10. CASE CommitForwardTxs
  <2>1. ~tick'.inner /\ pc' = "flush"
    BY <1>10, InnerReset DEF CommitForwardTxs
  <2> QED
    BY <2>1 DEF TailIsDrained, Ticking
<1>11. CASE FlushSkips \/ FlushFindsStaleContext \/ FlushFindsDivergentAnchor \/ FlushRewinds
  <2>1. PICK bail : Return(bail) /\ pc = "flush"
    BY <1>11 DEF FlushSkips, FlushFindsStaleContext, FlushFindsDivergentAnchor, FlushRewinds, Prechecked
  <2>2. CASE pc' = "idle" /\ tick' = NoTick
    BY <2>2, NoTickFields DEF TailIsDrained, Ticking
  <2>3. CASE tick.inner /\ pc' = "build" /\ tick' = [tick EXCEPT !.inner = FALSE] /\ flight' = NoFlight
    <3>1. TailOf(pending_l1, tick.len, Drained) /\ Drained' = Drained /\ SameMark
      BY <2>3, InnerReset DEF TailIsDrained, Ticking, Drained
    <3>2. pending_l1' = pending_l1 \/ pending_l1' = EmptyQueue
      BY <1>11 DEF FlushSkips, FlushFindsStaleContext, FlushFindsDivergentAnchor, FlushRewinds,
         ClearInternalState, driver
    <3>3. TailOf(pending_l1', tick'.len, Drained')
      BY <3>1, <3>2, TailOfEmpty DEF SameMark
    <3> QED
      BY <2>3, <3>3, TailOfEmpty DEF TailIsDrained
  <2> QED
    BY <2>1, <2>2, <2>3, ReturnFields
<1>12. CASE FlushTrims
  BY <1>12 DEF FlushTrims, TailIsDrained, Ticking, Drained
<1>13. CASE CollectBatch
  <2>1. flight'.q = pending_l1 /\ pending_l1' = EmptyQueue /\ tick' = tick /\ pc = "flush" /\ pc' = "send"
    BY <1>13 DEF CollectBatch, Prechecked
  <2> QED
    BY <2>1, TailOfEmpty DEF TailIsDrained, Ticking, Drained
<1>14. CASE SendSucceeds \/ ForwardQueuedL1Txs \/ SendTriggers
  <2>1. /\ pending_l1' = pending_l1 /\ flight' = flight /\ tick' = tick /\ InFlight
        /\ pc' \in {"forward", "triggers", "receipt"}
    BY <1>14 DEF SendSucceeds, ForwardQueuedL1Txs, SendTriggers, driver, InFlight
  <2> QED
    BY <2>1 DEF TailIsDrained, Ticking, Drained, InFlight
<1>15. CASE SendFails \/ BatchFails \/ ReceiptConfirms \/ ReceiptConfirmsNothing \/ ReceiptTimesOut
  <2>1. PICK bail : Return(bail) /\ pc \in {"send", "triggers", "receipt"}
    BY <1>15 DEF SendFails, BatchFails, ReceiptConfirms, ReceiptConfirmsNothing, ReceiptTimesOut
  <2>2. CASE pc' = "idle" /\ tick' = NoTick
    BY <2>2, NoTickFields DEF TailIsDrained, Ticking
  <2>3. CASE tick.inner /\ pc' = "build" /\ tick' = [tick EXCEPT !.inner = FALSE] /\ flight' = NoFlight
    <3>1. /\ TailOf(pending_l1, tick.len, Drained) /\ TailOf(flight.q, tick.len, Drained)
          /\ Drained' = Drained /\ SameMark
      BY <2>3, InnerReset DEF TailIsDrained, Ticking, Drained
    <3>2. pending_l1' \in {pending_l1, EmptyQueue, flight.q}
      BY <1>15 DEF SendFails, BatchFails, ReceiptConfirms, ReceiptConfirmsNothing, ReceiptTimesOut,
         ClearInternalState, Requeue, driver
    <3>3. TailOf(pending_l1', tick'.len, Drained')
      BY <3>1, <3>2, TailOfEmpty DEF SameMark
    <3> QED
      BY <2>3, <3>3, TailOfEmpty DEF TailIsDrained
  <2> QED
    BY <2>1, <2>2, <2>3, ReturnFields
<1>16. CASE UNCHANGED vars
  BY <1>16 DEF vars, driver, TailIsDrained, Ticking, Drained
<1> QED
  BY <1>1, <1>2, <1>3, <1>4, <1>5, <1>6, <1>7, <1>8, <1>9, <1>10, <1>11, <1>12, <1>13, <1>14,
     <1>15, <1>16 DEF Next, TickNext, FlushNext

\* Initially nothing is drained.
LEMMA InitTail == Init => TailIsDrained
  BY NoTickFields DEF Init, TailIsDrained, Ticking

\* Where a call can be that the RPC accepted.
Covered == Waiting \cup CallsIn(pending_l1) \cup CallsIn(flight.q) \cup posted \cup dropped

\* No step takes a call out of all these places, and a step that accepts one
\* queues it.
LEMMA NextCovered ==
  ASSUME Types, Types', Control, Control', TailIsDrained, [Next]_vars
  PROVE  Covered \cup ((accepted' \ accepted) \cap Calls) \subseteq Covered'
<1>a. /\ pending_l1 \in Queues /\ pending_l1' \in Queues
      /\ tick.len \in Nat /\ tick.groups \in Nat
      /\ tick.calls \in Seq(Incoming) /\ tick.outs \in Seq(Outgoing)
  BY TickFields DEF Types, DriverTypes, LocalTypes
<1>b. cross \in Seq(Incoming) /\ out \in Seq(Outgoing)
  BY DEF Types, SharedTypes
<1>c. Calls \cap Direct = {}
  BY CallQueuesAssumption
<1>e. Incoming \subseteq Calls /\ Outgoing \subseteq Calls
  BY DEF Calls
<1>1. CASE RpcNext
  <2>1. ASSUME NEW c \in Incoming, QueueCrossChainCall(c)
        PROVE  Covered \cup (accepted' \ accepted) \subseteq Covered'
    <3>1. ToSet(cross') = ToSet(cross) \cup {c}
      BY <1>b, <2>1, AppendFacts DEF QueueCrossChainCall
    <3> QED
      BY <2>1, <3>1 DEF QueueCrossChainCall, driver, Covered, Waiting
  <2>2. ASSUME NEW c \in Outgoing, QueueL2ToL1Call(c)
        PROVE  Covered \cup (accepted' \ accepted) \subseteq Covered'
    <3>1. ToSet(out') = ToSet(out) \cup {c}
      BY <1>b, <2>2, AppendFacts DEF QueueL2ToL1Call
    <3> QED
      BY <2>2, <3>1 DEF QueueL2ToL1Call, driver, Covered, Waiting
  <2>3. ASSUME NEW t \in Direct, QueueL1ForwardTx(t)
        PROVE  Covered \subseteq Covered' /\ (accepted' \ accepted) \cap Calls = {}
    BY <1>c, <2>3 DEF QueueL1ForwardTx, driver, Covered, Waiting
  <2> QED
    BY <1>1, <2>1, <2>2, <2>3 DEF RpcNext
<1>2. SUFFICES ASSUME ~RpcNext PROVE Covered \subseteq Covered' /\ accepted' = accepted
  BY <1>1
<1>3. CASE RecoveryNext
  BY <1>3 DEF RecoveryNext, Recovers, DerivationRewinds, HoldReleased, SyncDone, RebuildWithFreshL1Context,
     CooldownEnds, ClearInternalState, shared, history, Covered, Waiting
<1>4. CASE DrainCrossChainCalls
  <2>1. tick'.todo = cross /\ pc = "idle"
    BY <1>4, StartOfDrain
  <2>2. tick.todo = <<>>
    BY <2>1, NoTickFields DEF Control
  <2> QED
    BY <1>4, <2>1, <2>2, EmptySeqFacts DEF DrainCrossChainCalls, driver, history, Covered, Waiting
<1>5. CASE DrainCall
  <2>1. PICK c \in Incoming :
           /\ ToSet(tick.todo) = ToSet(tick'.todo) \cup {c}
           /\ \/ pending_l1' = pending_l1 /\ cross' = Append(cross, c)
              \/ cross' = cross /\ Appended(pending_l1, c, L1Count[c], pending_l1')
    BY <1>5, DrainOfCall
  <2>2. \/ pending_l1' = pending_l1 /\ ToSet(cross') = ToSet(cross) \cup {c}
        \/ cross' = cross /\ CallsIn(pending_l1') = CallsIn(pending_l1) \cup {c}
    <3>1. c \in Calls /\ ToSet(Append(cross, c)) = ToSet(cross) \cup {c}
      BY <1>b, <1>e, AppendFacts
    <3>2. Appended(pending_l1, c, L1Count[c], pending_l1')
            => CallsIn(pending_l1') = CallsIn(pending_l1) \cup {c}
      BY <1>a, <3>1, DrainedCalls
    <3> QED
      BY <2>1, <3>1, <3>2
  <2>3. UNCHANGED <<out, flight, history>>
    BY <1>5 DEF DrainCall
  <2> QED
    BY <2>1, <2>2, <2>3 DEF history, Covered, Waiting
<1>6. CASE DrainL2ToL1Calls
  <2>1. tick.todo = <<>> /\ tick'.todo = out
    BY <1>6, StartOfOutgoing
  <2> QED
    BY <1>6, <2>1, EmptySeqFacts DEF DrainL2ToL1Calls, driver, history, Covered, Waiting
<1>7. CASE DrainL2ToL1Call
  <2>1. PICK c \in Outgoing :
           /\ ToSet(tick.todo) = ToSet(tick'.todo) \cup {c}
           /\ Appended(pending_l1, c, L1Count[c], pending_l1')
    BY <1>7, DrainOfOutgoing
  <2>2. CallsIn(pending_l1') = CallsIn(pending_l1) \cup {c}
    BY <1>a, <1>e, <2>1, DrainedCalls
  <2>3. UNCHANGED <<cross, out, flight, history>>
    BY <1>7 DEF DrainL2ToL1Call, shared
  <2> QED
    BY <2>1, <2>2, <2>3 DEF history, Covered, Waiting
<1>8. CASE InjectHeldL2Txs
  BY <1>8 DEF InjectHeldL2Txs, shared, history, Covered, Waiting
<1>9. CASE BuildBlock
  <2>1. /\ dropped' = dropped \cup ((CallsIn(pending_l1) \ CallsIn(pending_l1')) \ posted)
        /\ UNCHANGED <<shared, flight, accepted, posted>>
    BY <1>9 DEF BuildBlock
  <2>2. tick'.todo = tick.todo
    BY <1>9, BuildOfBlock
  <2> QED
    BY <2>1, <2>2 DEF shared, Covered, Waiting
<1>10. CASE BuildFails
  <2>1. tick.todo = <<>> /\ TailOf(pending_l1, tick.len, Drained)
    BY <1>10 DEF BuildFails, Control, TailIsDrained, Ticking
  <2>2. /\ pending_l1' = truncate_to(pending_l1, tick.len, tick.groups)
        /\ cross' = cross \o tick.calls /\ out' = out \o tick.outs
        /\ UNCHANGED <<flight, history>>
    BY <1>10 DEF BuildFails
  <2>3. ToSet(cross') = ToSet(cross) \cup ToSet(tick.calls) /\ ToSet(out') = ToSet(out) \cup ToSet(tick.outs)
    BY <1>a, <1>b, <2>2, ConcatFacts
  <2>4. CallsIn(pending_l1') = {pending_l1.entries[i] : i \in {j \in DOMAIN pending_l1.entries : j <= tick.len}}
    BY <1>a, <2>2, TruncateCalls, QueuesAreOverCalls
  <2>5. CallsIn(pending_l1) \subseteq CallsIn(pending_l1') \cup Drained
    <3>1. \A i \in DOMAIN pending_l1.entries : i <= tick.len \/ i > tick.len
      BY <1>a, QueueFields, QueuesAreOverCalls
    <3> QED
      BY <2>1, <2>4, <3>1 DEF CallsIn, TailOf
  <2> QED
    BY <2>1, <2>2, <2>3, <2>5, EmptySeqFacts DEF history, Covered, Waiting, Drained
<1>11. CASE CommitForwardTxs
  <2>1. tick'.todo = tick.todo
    BY <1>11, InnerReset DEF CommitForwardTxs
  <2> QED
    BY <1>11, <2>1 DEF CommitForwardTxs, driver, history, Covered, Waiting
<1>12. CASE FlushOnly
  BY <1>12 DEF FlushOnly, Control, shared, driver, history, Covered, Waiting
<1>13. CASE FlushTrims
  BY <1>13 DEF FlushTrims, shared, history, Covered, Waiting
<1>14. CASE CollectBatch
  <2>1. flight'.q = pending_l1 /\ flight = NoFlight /\ UNCHANGED <<shared, tick, history>>
    BY <1>14 DEF CollectBatch, Prechecked, Control, InFlight
  <2> QED
    BY <2>1, TailOfEmpty DEF shared, history, Covered, Waiting
<1>15. CASE SendSucceeds
  BY <1>15 DEF SendSucceeds, shared, driver, Covered, Waiting
<1>16. CASE ForwardQueuedL1Txs \/ SendTriggers
  BY <1>16 DEF ForwardQueuedL1Txs, SendTriggers, shared, driver, history, Covered, Waiting
<1>17. ASSUME NEW bail, Return(bail), pc \notin {"incoming", "outgoing"},
              UNCHANGED <<cross, out, accepted, posted>>, dropped \subseteq dropped',
              CallsIn(pending_l1) \cup CallsIn(flight.q)
                \subseteq CallsIn(pending_l1') \cup posted \cup dropped'
       PROVE  Covered \subseteq Covered' /\ accepted' = accepted
  <2>1. tick.todo = <<>>
    BY <1>17 DEF Control
  <2> QED
    BY <1>17, <2>1, EmptySeqFacts DEF Covered, Waiting
<1>18. CASE FlushSkips \/ FlushFindsStaleContext \/ FlushFindsDivergentAnchor \/ FlushRewinds
  <2>1. PICK bail : Return(bail) /\ pc = "flush"
    BY <1>18 DEF FlushSkips, FlushFindsStaleContext, FlushFindsDivergentAnchor, FlushRewinds, Prechecked
  <2>2. flight = NoFlight
    BY <2>1 DEF Control, InFlight
  <2>3. UNCHANGED <<cross, out, accepted, posted>>
    BY <1>18 DEF FlushSkips, FlushFindsStaleContext, FlushFindsDivergentAnchor, FlushRewinds, shared, history
  <2>4. \/ pending_l1' = pending_l1 /\ dropped' = dropped
        \/ dropped' = dropped \cup (CallsIn(pending_l1) \ posted)
    BY <1>18 DEF FlushSkips, FlushFindsStaleContext, FlushFindsDivergentAnchor, FlushRewinds,
       ClearInternalState, driver, history
  <2> QED
    BY <1>17, <2>1, <2>2, <2>3, <2>4, TailOfEmpty
<1>19. CASE SendFails \/ ReceiptTimesOut
  <2>1. PICK bail : Return(bail) /\ pc \in {"send", "receipt"}
    BY <1>19 DEF SendFails, ReceiptTimesOut
  <2>2. pending_l1 = EmptyQueue /\ pending_l1' = flight.q
    BY <1>19, <2>1 DEF SendFails, ReceiptTimesOut, Requeue, Control, InFlight
  <2>3. UNCHANGED <<cross, out, accepted, posted, dropped>>
    BY <1>19 DEF SendFails, ReceiptTimesOut, shared, history
  <2>4. CallsIn(EmptyQueue) = {}
    BY DEF EmptyQueue, CallsIn
  <2> QED
    BY <1>17, <2>1, <2>2, <2>3, <2>4
<1>20. CASE BatchFails \/ ReceiptConfirms \/ ReceiptConfirmsNothing
  <2>1. PICK bail : Return(bail) /\ pc \in {"triggers", "receipt"}
    BY <1>20 DEF BatchFails, ReceiptConfirms, ReceiptConfirmsNothing
  <2>2. pending_l1 = EmptyQueue /\ CallsIn(flight.q) \subseteq posted
    BY <2>1 DEF Control, InFlight
  <2>3. UNCHANGED <<cross, out, accepted, posted>> /\ dropped \subseteq dropped'
    BY <1>20 DEF BatchFails, ReceiptConfirms, ReceiptConfirmsNothing, shared, history, ClearInternalState
  <2>4. CallsIn(EmptyQueue) = {}
    BY DEF EmptyQueue, CallsIn
  <2> QED
    BY <1>17, <2>1, <2>2, <2>3, <2>4
<1>21. CASE UNCHANGED vars
  BY <1>21 DEF vars, shared, driver, history, Covered, Waiting
<1> QED
  BY <1>2, <1>3, <1>4, <1>5, <1>6, <1>7, <1>8, <1>9, <1>10, <1>11, <1>12, <1>13, <1>14,
     <1>15, <1>16, <1>18, <1>19, <1>20, <1>21 DEF Next, TickNext, FlushNext

\* What the theorems without hypotheses rest on.
Core == Types /\ Control /\ TailIsDrained

\* Types, control and the tail of the queue hold in every reachable state.
LEMMA CoreHolds == Spec => []Core
<1>1. Init => Core
  BY InitTypes, InitControl, InitTail DEF Core
<1>2. Core /\ [Next]_vars => Core'
  BY NextTypes, NextControl, NextTail DEF Core
<1> QED
  BY <1>1, <1>2, PTL DEF Spec

\* drain_rpc_queues, rollback_queue_drain and the requeues of flush_to_l1: a
\* call the RPC accepted is never lost silently, whatever fails, and however
\* full the pending queue gets.
THEOREM NothingIsLost == Spec => []NothingLost
<1>1. Init => NothingLost
  BY DEF Init, NothingLost
<1>2. Core /\ Core' /\ NothingLost /\ [Next]_vars => NothingLost'
  BY NextCovered DEF Core, NothingLost, Covered
<1> QED
  BY <1>1, <1>2, CoreHolds, PTL DEF Spec

-----------------------------------------------------------------------------
(* Nothing is released twice *)

\* The L1->L2 calls a drain has still to look at, and those the tick has taken.
Draining == IF pc = "incoming" THEN ToSet(tick.todo) ELSE {}
Taken == IF Ticking THEN ToSet(tick.calls) ELSE {}
InHand == ToSet(cross) \cup ToSet(fwd) \cup Draining \cup Taken

\* A user's transaction is in one place at a time, and in none of them once it
\* was released.
Apart ==
  /\ ToSet(cross) \cap ToSet(fwd) = {} /\ ToSet(cross) \cap Draining = {}
  /\ ToSet(cross) \cap Taken = {} /\ ToSet(fwd) \cap Draining = {}
  /\ ToSet(fwd) \cap Taken = {} /\ Draining \cap Taken = {}
  /\ InHand \subseteq accepted
  /\ IsInjective(cross) /\ IsInjective(fwd)
  /\ pc = "incoming" => IsInjective(tick.todo)
  /\ Ticking => /\ IsInjective(tick.calls) /\ IsInjective(tick.txs)
                /\ ToSet(tick.txs) \subseteq ToSet(tick.calls)
  /\ \A t \in L1Txs : sent[t] <= 1 /\ (sent[t] > 0 => t \in accepted /\ t \notin InHand)

\* A step that moves nothing, and forgets the transactions to forward or the
\* locals of the tick at most.
LEMMA ApartKept ==
  ASSUME Apart, UNCHANGED <<cross, accepted, sent>>, fwd' = fwd \/ fwd' = <<>>,
         pc' # "incoming",
         Ticking' => Ticking /\ tick'.calls = tick.calls /\ tick'.txs = tick.txs
  PROVE  Apart'
<1>1. ToSet(fwd') \subseteq ToSet(fwd) /\ IsInjective(fwd')
  BY EmptySeqFacts DEF Apart
<1>2. Draining' = {} /\ Taken' \subseteq Taken
  BY DEF Draining, Taken
<1>3. InHand' \subseteq InHand
  BY <1>1, <1>2 DEF InHand
<1> QED
  BY <1>1, <1>2, <1>3 DEF Apart

\* A step of the RPC keeps the incoming calls and the held transactions apart.
LEMMA RpcApart ==
  ASSUME Types, Apart, RpcNext
  PROVE  Apart'
<1>a. cross \in Seq(Incoming) /\ fwd \in Seq(L1Txs) /\ Direct \subseteq L1Txs
  BY DEF Types, SharedTypes, L1Txs
<1>b. /\ UNCHANGED <<pc, tick, sent>> /\ (Ticking' <=> Ticking)
      /\ Draining' = Draining /\ Taken' = Taken
  BY DEF RpcNext, QueueCrossChainCall, QueueL2ToL1Call, QueueL1ForwardTx, Ticking, Draining, Taken
<1>1. ASSUME NEW c \in Incoming, QueueCrossChainCall(c) PROVE Apart'
  <2>1. /\ ToSet(cross') = ToSet(cross) \cup {c} /\ fwd' = fwd /\ accepted' = accepted \cup {c}
        /\ c \notin accepted /\ pc # "incoming"
    BY <1>a, <1>1, AppendFacts DEF QueueCrossChainCall
  <2>2. c \notin InHand /\ IsInjective(cross)
    BY <2>1 DEF Apart
  <2>3. IsInjective(cross')
    BY <1>a, <1>1, <2>2, AppendFacts DEF QueueCrossChainCall, InHand
  <2>4. InHand' = InHand \cup {c}
    BY <1>b, <2>1 DEF InHand
  <2>5. \A t \in L1Txs : sent'[t] <= 1 /\ (sent'[t] > 0 => t \in accepted' /\ t \notin InHand')
    BY <1>b, <2>1, <2>4 DEF Apart
  <2> QED
    BY <1>b, <2>1, <2>2, <2>3, <2>4, <2>5 DEF Apart, InHand
<1>2. ASSUME NEW c \in Outgoing, QueueL2ToL1Call(c) PROVE Apart'
  <2>1. cross' = cross /\ fwd' = fwd /\ accepted \subseteq accepted'
    BY <1>2 DEF QueueL2ToL1Call
  <2>2. InHand' = InHand
    BY <1>b, <2>1 DEF InHand
  <2> QED
    BY <1>b, <2>1, <2>2 DEF Apart
<1>3. ASSUME NEW t \in Direct, QueueL1ForwardTx(t) PROVE Apart'
  <2>1. /\ ToSet(fwd') = ToSet(fwd) \cup {t} /\ cross' = cross /\ accepted' = accepted \cup {t}
        /\ t \notin accepted
    BY <1>a, <1>3, AppendFacts DEF QueueL1ForwardTx
  <2>2. t \notin InHand /\ IsInjective(fwd)
    BY <2>1 DEF Apart
  <2>3. IsInjective(fwd')
    BY <1>a, <1>3, <2>2, AppendFacts DEF QueueL1ForwardTx, InHand
  <2>4. InHand' = InHand \cup {t}
    BY <1>b, <2>1 DEF InHand
  <2>5. \A u \in L1Txs : sent'[u] <= 1 /\ (sent'[u] > 0 => u \in accepted' /\ u \notin InHand')
    BY <1>b, <2>1, <2>4 DEF Apart
  <2> QED
    BY <1>b, <2>1, <2>2, <2>3, <2>4, <2>5 DEF Apart, InHand
<1> QED
  BY <1>1, <1>2, <1>3 DEF RpcNext

\* A step of step_builder keeps them apart.
LEMMA TickApart ==
  ASSUME Types, Control, Control', Apart, TickNext
  PROVE  Apart'
<1>a. /\ cross \in Seq(Incoming) /\ fwd \in Seq(L1Txs) /\ tick.calls \in Seq(Incoming)
      /\ tick.txs \in Seq(WithTx) /\ tick.txs \in Seq(L1Txs)
  <2>1. WithTx \subseteq L1Txs
    BY DEF L1Txs
  <2> QED
    BY <2>1, TickFields, SeqOfMore DEF Types, SharedTypes, LocalTypes
<1>b. accepted' = accepted /\ sent' = sent
  BY DEF TickNext, DrainCrossChainCalls, DrainCall, DrainL2ToL1Calls, DrainL2ToL1Call, InjectHeldL2Txs,
     BuildBlock, BuildFails, CommitForwardTxs, FlushOnly, history
<1>1. CASE DrainCrossChainCalls
  <2>1. /\ tick'.todo = cross /\ cross' = <<>> /\ tick'.calls = <<>> /\ tick'.txs = <<>> /\ fwd' = fwd
        /\ pc = "idle" /\ pc' = "incoming"
    BY <1>1, StartOfDrain DEF DrainCrossChainCalls
  <2>2. Draining' = ToSet(cross) /\ Taken' = {} /\ ToSet(cross') = {} /\ IsInjective(cross')
        /\ IsInjective(tick'.calls) /\ IsInjective(tick'.txs) /\ ToSet(tick'.txs) = {}
    BY <2>1, EmptySeqFacts DEF Draining, Taken
  <2>3. InHand' \subseteq InHand
    BY <2>1, <2>2 DEF InHand
  <2> QED
    BY <1>b, <2>1, <2>2, <2>3 DEF Apart
<1>2. CASE DrainCall
  <2>1. PICK c \in Incoming :
           /\ ToSet(tick.todo) = ToSet(tick'.todo) \cup {c}
           /\ IsInjective(tick.todo) => IsInjective(tick'.todo) /\ c \notin ToSet(tick'.todo)
           /\ pc = "incoming" /\ pc' = "incoming"
           /\ \/ /\ cross' = Append(cross, c) /\ tick'.calls = tick.calls /\ tick'.txs = tick.txs
              \/ /\ cross' = cross /\ tick'.calls = Append(tick.calls, c)
                 /\ tick'.txs = IF c \in WithTx THEN Append(tick.txs, c) ELSE tick.txs
    BY <1>2, DrainOfCall
  <2>2. /\ Draining = ToSet(tick.todo) /\ Draining' = ToSet(tick'.todo)
        /\ Taken = ToSet(tick.calls) /\ Taken' = ToSet(tick'.calls)
    BY <2>1 DEF Draining, Taken, Ticking
  <2>3. IsInjective(tick'.todo) /\ c \notin Draining' /\ Draining = Draining' \cup {c}
    BY <2>1, <2>2 DEF Apart
  <2>4. /\ c \notin ToSet(cross) /\ c \notin Taken /\ c \notin ToSet(fwd) /\ fwd' = fwd
        /\ IsInjective(tick.calls) /\ IsInjective(tick.txs) /\ ToSet(tick.txs) \subseteq ToSet(tick.calls)
    BY <1>2, <2>1, <2>2, <2>3 DEF Apart, Ticking, DrainCall
  <2>5. CASE cross' = Append(cross, c) /\ tick'.calls = tick.calls /\ tick'.txs = tick.txs
    <3>1. ToSet(cross') = ToSet(cross) \cup {c} /\ IsInjective(cross')
      BY <1>a, <2>4, <2>5, AppendFacts DEF Apart
    <3>2. InHand' = InHand /\ Taken' = Taken
      BY <2>2, <2>3, <2>4, <2>5, <3>1 DEF InHand
    <3> QED
      BY <1>b, <2>1, <2>3, <2>4, <2>5, <3>1, <3>2 DEF Apart
  <2>6. CASE /\ cross' = cross /\ tick'.calls = Append(tick.calls, c)
             /\ tick'.txs = IF c \in WithTx THEN Append(tick.txs, c) ELSE tick.txs
    <3>1. ToSet(tick'.calls) = ToSet(tick.calls) \cup {c} /\ IsInjective(tick'.calls)
      BY <1>a, <2>2, <2>4, <2>6, AppendFacts
    <3>2. ToSet(tick'.txs) \subseteq ToSet(tick.txs) \cup {c} /\ IsInjective(tick'.txs)
      <4>1. CASE c \in WithTx
        <5>1. c \notin ToSet(tick.txs)
          BY <2>2, <2>4
        <5> QED
          BY <1>a, <2>4, <2>6, <4>1, <5>1, AppendFacts
      <4>2. CASE c \notin WithTx
        BY <2>4, <2>6, <4>2
      <4> QED
        BY <4>1, <4>2
    <3>3. InHand' = InHand /\ Taken' = Taken \cup {c}
      BY <2>2, <2>3, <2>4, <2>6, <3>1 DEF InHand
    <3> QED
      BY <1>b, <2>1, <2>2, <2>3, <2>4, <2>6, <3>1, <3>2, <3>3 DEF Apart
  <2> QED
    BY <2>1, <2>5, <2>6
<1>3. CASE DrainL2ToL1Calls
  <2>1. pc = "incoming" /\ pc' = "outgoing" /\ tick'.calls = tick.calls /\ tick'.txs = tick.txs
    BY <1>3, StartOfOutgoing
  <2> QED
    BY <1>3, <1>b, <2>1, ApartKept DEF DrainL2ToL1Calls, Ticking
<1>4. CASE DrainL2ToL1Call
  <2>1. pc = "outgoing" /\ pc' = "outgoing" /\ tick'.calls = tick.calls /\ tick'.txs = tick.txs
    BY <1>4, DrainOfOutgoing
  <2> QED
    BY <1>4, <1>b, <2>1, ApartKept DEF DrainL2ToL1Call, Ticking, shared
<1>5. CASE InjectHeldL2Txs
  BY <1>5, <1>b, ApartKept DEF InjectHeldL2Txs, Ticking, shared
<1>6. CASE BuildBlock
  <2>1. pc = "build" /\ pc' \in {"flush", "build"} /\ tick'.calls = tick.calls /\ tick'.txs = tick.txs
    BY <1>6, BuildOfBlock
  <2> QED
    BY <1>6, <1>b, <2>1, ApartKept DEF BuildBlock, Ticking, shared
<1>7. CASE BuildFails
  <2>1. /\ pc = "build" /\ pc' = "idle" /\ ~tick'.inner /\ cross' = cross \o tick.calls /\ fwd' = fwd
    BY <1>7, NoTickFields DEF BuildFails
  <2>2. Draining' = {} /\ Taken' = {} /\ Taken = ToSet(tick.calls) /\ ~Ticking'
    BY <2>1 DEF Draining, Taken, Ticking
  <2>3. ToSet(cross') = ToSet(cross) \cup Taken /\ IsInjective(cross')
    <3>1. IsInjective(cross) /\ IsInjective(tick.calls) /\ ToSet(cross) \cap ToSet(tick.calls) = {}
      BY <2>1, <2>2 DEF Apart, Ticking
    <3> QED
      BY <1>a, <2>1, <2>2, <3>1, ConcatFacts
  <2>4. InHand' \subseteq InHand
    BY <2>1, <2>2, <2>3 DEF InHand
  <2> QED
    BY <1>b, <2>1, <2>2, <2>3, <2>4 DEF Apart
<1>8. CASE CommitForwardTxs
  <2>1. /\ pc = "build" /\ pc' = "flush" /\ ~tick'.inner /\ fwd' = fwd \o tick.txs /\ cross' = cross
    BY <1>8, InnerReset DEF CommitForwardTxs
  <2>2. Draining' = {} /\ Taken' = {} /\ Taken = ToSet(tick.calls) /\ ~Ticking'
    BY <2>1 DEF Draining, Taken, Ticking
  <2>3. ToSet(fwd') = ToSet(fwd) \cup ToSet(tick.txs) /\ ToSet(tick.txs) \subseteq Taken /\ IsInjective(fwd')
    <3>1. /\ IsInjective(fwd) /\ IsInjective(tick.txs) /\ ToSet(tick.txs) \subseteq Taken
          /\ ToSet(fwd) \cap ToSet(tick.txs) = {}
      BY <2>1, <2>2 DEF Apart, Ticking
    <3> QED
      BY <1>a, <2>1, <2>2, <3>1, ConcatFacts
  <2>4. InHand' \subseteq InHand
    BY <2>1, <2>2, <2>3 DEF InHand
  <2> QED
    BY <1>b, <2>1, <2>2, <2>3, <2>4 DEF Apart
<1>9. CASE FlushOnly
  BY <1>9, <1>b, NoTickFields, ApartKept DEF FlushOnly, Ticking, shared
<1> QED
  BY <1>1, <1>2, <1>3, <1>4, <1>5, <1>6, <1>7, <1>8, <1>9 DEF TickNext

\* forward_queued_l1_txs takes the transactions out of the queue as it sends
\* them, each of them once.
LEMMA ForwardApart ==
  ASSUME Types, Control, Apart, ForwardQueuedL1Txs
  PROVE  Apart'
<1> DEFINE times(t) == Cardinality({i \in DOMAIN fwd : fwd[i] = t})
<1>1. pc = "forward" /\ pc' # "incoming" /\ ~cooling /\ UNCHANGED <<cross, accepted, tick>>
  BY DEF ForwardQueuedL1Txs, Control, InFlight
<1>2. fwd' = <<>> /\ sent' = [t \in L1Txs |-> sent[t] + times(t)]
  BY <1>1 DEF ForwardQueuedL1Txs, StillQueued
<1>3. ASSUME NEW t \in L1Txs
      PROVE  times(t) = IF t \in ToSet(fwd) THEN 1 ELSE 0
  <2>1. CASE t \in ToSet(fwd)
    <3>1. PICK k \in DOMAIN fwd : fwd[k] = t
      BY <2>1 DEF ToSet
    <3>2. {i \in DOMAIN fwd : fwd[i] = t} = {k}
      BY <3>1 DEF Apart, IsInjective
    <3> QED
      BY <2>1, <3>2, FS_Singleton
  <2>2. CASE t \notin ToSet(fwd)
    <3>1. {i \in DOMAIN fwd : fwd[i] = t} = {}
      BY <2>2 DEF ToSet
    <3> QED
      BY <2>2, <3>1, FS_EmptySet
  <2> QED
    BY <2>1, <2>2
<1>4. \A t \in L1Txs : sent[t] \in Nat
  BY DEF Types, HistoryTypes
<1> HIDE DEF times
<1>5. \A t \in L1Txs : sent'[t] = sent[t] + IF t \in ToSet(fwd) THEN 1 ELSE 0
  BY <1>2, <1>3
<1>6. ToSet(fwd') = {} /\ IsInjective(fwd')
  BY <1>2, EmptySeqFacts
<1>7. Draining' = {} /\ Draining = {} /\ Taken' = Taken /\ (Ticking' => Ticking)
  <2>1. Ticking' => tick.inner
    BY <1>1 DEF ForwardQueuedL1Txs, Ticking
  <2>2. Ticking <=> tick.inner
    BY <1>1 DEF Ticking
  <2>3. tick.inner => Ticking'
    BY <1>1 DEF Ticking
  <2> QED
    BY <1>1, <2>1, <2>2, <2>3 DEF Draining, Taken
<1>8. InHand' = ToSet(cross) \cup Taken /\ InHand = InHand' \cup ToSet(fwd) /\ InHand' \cap ToSet(fwd) = {}
  BY <1>1, <1>6, <1>7 DEF InHand, Apart
<1>9. ASSUME NEW t \in L1Txs
      PROVE  sent'[t] <= 1 /\ (sent'[t] > 0 => t \in accepted /\ t \notin InHand')
  <2>1. sent[t] \in Nat /\ sent[t] <= 1 /\ (sent[t] > 0 => t \in accepted /\ t \notin InHand)
        /\ InHand \subseteq accepted
    BY <1>4 DEF Apart
  <2>2. CASE t \in ToSet(fwd)
    <3>1. t \in InHand /\ t \notin InHand' /\ t \in accepted
      BY <1>8, <2>1, <2>2
    <3>2. sent[t] = 0 /\ sent'[t] = 1
      BY <1>5, <2>1, <2>2, <3>1
    <3> QED
      BY <3>1, <3>2
  <2>3. CASE t \notin ToSet(fwd)
    <3>1. sent'[t] = sent[t]
      BY <1>5, <2>1, <2>3
    <3> QED
      BY <1>8, <2>1, <3>1
  <2> QED
    BY <2>2, <2>3
<1> QED
  BY <1>1, <1>6, <1>7, <1>8, <1>9 DEF Apart

\* Every step keeps them apart.
LEMMA NextApart ==
  ASSUME Core, Core', Apart, [Next]_vars
  PROVE  Apart'
<1> USE DEF Core
<1>1. CASE RecoveryNext
  <2>1. pc' = pc /\ tick' = tick /\ UNCHANGED <<cross, accepted, sent>> /\ fwd' \in {fwd, <<>>}
    BY <1>1 DEF RecoveryNext, Recovers, DerivationRewinds, HoldReleased, SyncDone, RebuildWithFreshL1Context,
       CooldownEnds, ClearInternalState, shared, history
  <2>2. pc = "incoming" => fwd' = fwd
    BY <1>1 DEF RecoveryNext, Recovers, DerivationRewinds, HoldReleased, SyncDone, RebuildWithFreshL1Context,
       CooldownEnds, ClearInternalState, shared, history
  <2>3. Ticking' <=> Ticking
    BY <2>1 DEF Ticking
  <2>4. CASE pc = "incoming"
    <3>1. InHand' = InHand /\ Draining' = Draining /\ Taken' = Taken
      BY <2>1, <2>2, <2>3, <2>4 DEF InHand, Draining, Taken
    <3> QED
      BY <2>1, <2>2, <2>3, <2>4, <3>1 DEF Apart
  <2>5. CASE pc # "incoming"
    BY <2>1, <2>3, <2>5, ApartKept
  <2> QED
    BY <2>4, <2>5
<1>2. CASE FlushNext /\ ~ForwardQueuedL1Txs
  <2>1. UNCHANGED <<cross, accepted, sent>> /\ fwd' \in {fwd, <<>>}
    BY <1>2 DEF FlushNext, FlushSkips, FlushTrims, FlushFindsStaleContext, FlushFindsDivergentAnchor,
       FlushRewinds, CollectBatch, SendFails, SendSucceeds, SendTriggers, BatchFails, ReceiptConfirms,
       ReceiptConfirmsNothing, ReceiptTimesOut, ClearInternalState, shared, history
  <2>2. /\ pc \in {"flush", "send", "triggers", "receipt"}
        /\ \/ tick' = tick /\ pc' \in {"flush", "send", "forward", "receipt"}
           \/ \E bail : Return(bail)
    BY <1>2 DEF FlushNext, FlushSkips, FlushTrims, FlushFindsStaleContext, FlushFindsDivergentAnchor,
       FlushRewinds, CollectBatch, SendFails, SendSucceeds, SendTriggers, BatchFails, ReceiptConfirms,
       ReceiptConfirmsNothing, ReceiptTimesOut, Prechecked
  <2>3. CASE tick' = tick /\ pc' \in {"flush", "send", "forward", "receipt"}
    BY <2>1, <2>3, ApartKept DEF Ticking
  <2>4. CASE \E bail : Return(bail)
    <3>1. PICK bail : Return(bail)
      BY <2>4
    <3>2. CASE tick.inner /\ pc' = "build" /\ tick' = [tick EXCEPT !.inner = FALSE]
      BY <2>1, <3>2, InnerReset, ApartKept DEF Ticking
    <3>3. CASE pc' = "idle" /\ tick' = NoTick
      BY <2>1, <3>3, NoTickFields, ApartKept DEF Ticking
    <3> QED
      BY <3>1, <3>2, <3>3, ReturnFields
  <2> QED
    BY <2>2, <2>3, <2>4
<1>3. CASE UNCHANGED vars
  BY <1>3 DEF vars, shared, history, Apart, InHand, Draining, Taken, Ticking
<1> QED
  BY <1>1, <1>2, <1>3, RpcApart, TickApart, ForwardApart DEF Next

\* What the release of transactions rests on, in every reachable state.
LEMMA ApartHolds == Spec => []Apart
<1>1. Init => Apart
  <2> SUFFICES ASSUME Init PROVE Apart
    OBVIOUS
  <2>1. Draining = {} /\ Taken = {} /\ ToSet(cross) = {} /\ ToSet(fwd) = {} /\ ~Ticking
    BY EmptySeqFacts, NoTickFields DEF Init, Draining, Taken, Ticking
  <2>2. \A t \in L1Txs : sent[t] = 0
    BY DEF Init
  <2> QED
    BY <2>1, <2>2, EmptySeqFacts DEF Init, Apart, InHand
<1>2. Core /\ Core' /\ Apart /\ [Next]_vars => Apart'
  BY NextApart
<1> QED
  BY <1>1, <1>2, CoreHolds, PTL DEF Spec

\* forward_queued_l1_txs: no user transaction is released twice, whatever is
\* rolled back, retried or requeued.
THEOREM ReleasedOnce == Spec => []ForwardedOnce
<1>1. Apart => ForwardedOnce
  BY DEF Apart, ForwardedOnce
<1> QED
  BY <1>1, ApartHolds, PTL
=============================================================================
