---------------------------- MODULE QueueLemmas ----------------------------
(***************************************************************************)
(* What the builder's queues, as sequences, contain after the operations   *)
(* on them, and when their elements stay distinct.                         *)
(***************************************************************************)
EXTENDS Integers, SequencesExt, Positions, FiniteSetTheorems, WellFoundedInduction, TLAPS

\* The elements of a sequence over S are in S.
LEMMA ToSetType ==
  ASSUME NEW S, NEW s \in Seq(S)
  PROVE  ToSet(s) \subseteq S /\ (s # <<>> => s[1] \in ToSet(s))
<1>1. DOMAIN s = 1..Len(s) /\ Len(s) \in Nat /\ (s # <<>> => Len(s) > 0)
  OBVIOUS
<1>2. s # <<>> => 1 \in DOMAIN s
  BY <1>1
<1> QED
  BY <1>1, <1>2 DEF ToSet

\* The empty sequence.
LEMMA EmptySeqFacts == ToSet(<<>>) = {} /\ IsInjective(<<>>)
<1>1. DOMAIN <<>> = {}
  OBVIOUS
<1> QED
  BY <1>1 DEF ToSet, IsInjective

\* push
LEMMA AppendFacts ==
  ASSUME NEW S, NEW s \in Seq(S), NEW e \in S
  PROVE  /\ Append(s, e) \in Seq(S)
         /\ ToSet(Append(s, e)) = ToSet(s) \cup {e}
         /\ IsInjective(s) /\ e \notin ToSet(s) => IsInjective(Append(s, e))
<1> DEFINE r == Append(s, e)
<1>1. /\ r \in Seq(S) /\ Len(r) = Len(s) + 1 /\ Len(s) \in Nat
      /\ \A i \in 1..Len(s) : r[i] = s[i]
      /\ r[Len(s) + 1] = e
  OBVIOUS
<1> HIDE DEF r
<1>2. DOMAIN r = 1..Len(s) + 1 /\ DOMAIN s = 1..Len(s)
  BY <1>1
<1>3. ToSet(r) = ToSet(s) \cup {e}
  BY <1>1, <1>2 DEF ToSet
<1>4. IsInjective(s) /\ e \notin ToSet(s) => IsInjective(r)
  BY <1>1, <1>2 DEF ToSet, IsInjective
<1> QED
  BY <1>1, <1>3, <1>4 DEF r

\* The elements of a concatenation, by index.
LEMMA ConcatElements ==
  ASSUME NEW S, NEW s \in Seq(S), NEW u \in Seq(S)
  PROVE  /\ s \o u \in Seq(S) /\ Len(s \o u) = Len(s) + Len(u)
         /\ \A i \in 1..Len(s) : (s \o u)[i] = s[i]
         /\ \A i \in Len(s) + 1..Len(s) + Len(u) : (s \o u)[i] = u[i - Len(s)]
  OBVIOUS

\* extend
LEMMA ConcatFacts ==
  ASSUME NEW S, NEW s \in Seq(S), NEW u \in Seq(S)
  PROVE  /\ s \o u \in Seq(S)
         /\ ToSet(s \o u) = ToSet(s) \cup ToSet(u)
         /\ IsInjective(s) /\ IsInjective(u) /\ ToSet(s) \cap ToSet(u) = {} => IsInjective(s \o u)
<1> DEFINE r == s \o u
<1>1. /\ r \in Seq(S) /\ Len(r) = Len(s) + Len(u) /\ Len(s) \in Nat /\ Len(u) \in Nat
      /\ \A i \in 1..Len(s) : r[i] = s[i]
      /\ \A i \in 1..Len(u) : r[Len(s) + i] = u[i]
      /\ \A i \in Len(s) + 1..Len(s) + Len(u) : r[i] = u[i - Len(s)]
  OBVIOUS
<1> HIDE DEF r
<1>2. DOMAIN r = 1..Len(s) + Len(u) /\ DOMAIN s = 1..Len(s) /\ DOMAIN u = 1..Len(u)
  BY <1>1
<1>3. ToSet(r) = ToSet(s) \cup ToSet(u)
  <2>1. ToSet(r) \subseteq ToSet(s) \cup ToSet(u)
    <3>1. SUFFICES ASSUME NEW i \in DOMAIN r PROVE r[i] \in ToSet(s) \cup ToSet(u)
      BY DEF ToSet
    <3>2. CASE i <= Len(s)
      BY <1>1, <1>2, <3>1, <3>2 DEF ToSet
    <3>3. CASE i > Len(s)
      <4>1. i - Len(s) \in DOMAIN u /\ r[i] = u[i - Len(s)]
        BY <1>1, <1>2, <3>1, <3>3
      <4> QED
        BY <4>1 DEF ToSet
    <3> QED
      BY <1>1, <1>2, <3>2, <3>3
  <2>2. ToSet(s) \subseteq ToSet(r)
    BY <1>1, <1>2 DEF ToSet
  <2>3. ToSet(u) \subseteq ToSet(r)
    <3>1. \A i \in DOMAIN u : Len(s) + i \in DOMAIN r /\ r[Len(s) + i] = u[i]
      BY <1>1, <1>2
    <3> QED
      BY <3>1 DEF ToSet
  <2> QED
    BY <2>1, <2>2, <2>3
<1>4. ASSUME IsInjective(s), IsInjective(u), ToSet(s) \cap ToSet(u) = {}
      PROVE  IsInjective(r)
  <2>1. SUFFICES ASSUME NEW i \in DOMAIN r, NEW j \in DOMAIN r, r[i] = r[j] PROVE i = j
    BY DEF IsInjective
  <2>2. \A k \in DOMAIN r : k <= Len(s) => k \in DOMAIN s /\ r[k] = s[k] /\ r[k] \in ToSet(s)
    BY <1>1, <1>2 DEF ToSet
  <2>3. \A k \in DOMAIN r : k > Len(s) => /\ k - Len(s) \in DOMAIN u /\ r[k] = u[k - Len(s)]
                                          /\ r[k] \in ToSet(u)
    BY <1>1, <1>2 DEF ToSet
  <2>4. i \in Nat /\ j \in Nat
    BY <1>2
  <2>5. CASE i <= Len(s) /\ j <= Len(s)
    BY <1>4, <2>1, <2>2, <2>5 DEF IsInjective
  <2>6. CASE i > Len(s) /\ j > Len(s)
    <3>1. i - Len(s) = j - Len(s)
      BY <1>4, <2>1, <2>3, <2>6 DEF IsInjective
    <3> QED
      BY <1>1, <2>4, <3>1
  <2>7. ~(i <= Len(s) /\ j > Len(s)) /\ ~(j <= Len(s) /\ i > Len(s))
    BY <1>4, <2>1, <2>2, <2>3
  <2> QED
    BY <1>1, <2>4, <2>5, <2>6, <2>7
<1> QED
  BY <1>1, <1>3, <1>4 DEF r

\* The rest of a queue after the call at i was taken out of it.
LEMMA RemoveAtFacts ==
  ASSUME NEW S, NEW s \in Seq(S), NEW i \in DOMAIN s
  PROVE  /\ RemoveAt(s, i) \in Seq(S)
         /\ ToSet(s) = ToSet(RemoveAt(s, i)) \cup {s[i]}
         /\ IsInjective(s) => IsInjective(RemoveAt(s, i)) /\ s[i] \notin ToSet(RemoveAt(s, i))
<1> DEFINE a == SubSeq(s, 1, i - 1)
           b == SubSeq(s, i + 1, Len(s))
           r == RemoveAt(s, i)
<1>1. i \in 1..Len(s) /\ Len(s) \in Nat /\ DOMAIN s = 1..Len(s) /\ i \in Nat
  OBVIOUS
<1>2. a \in Seq(S) /\ Len(a) = i - 1 /\ \A k \in 1..i - 1 : a[k] = s[k]
  BY <1>1
<1>3. b \in Seq(S) /\ Len(b) = Len(s) - i /\ \A k \in 1..Len(s) - i : b[k] = s[i + k]
  BY <1>1
<1>4. r = a \o b
  BY DEF RemoveAt
<1> HIDE DEF a, b, r
<1>5. /\ r \in Seq(S) /\ Len(r) = Len(s) - 1
      /\ \A k \in 1..i - 1 : r[k] = a[k]
      /\ \A k \in i..Len(s) - 1 : r[k] = b[k - (i - 1)]
  <2>1. /\ a \o b \in Seq(S) /\ Len(a \o b) = Len(a) + Len(b)
        /\ \A k \in 1..Len(a) : (a \o b)[k] = a[k]
        /\ \A k \in Len(a) + 1..Len(a) + Len(b) : (a \o b)[k] = b[k - Len(a)]
    BY <1>2, <1>3, ConcatElements
  <2>2. Len(a) + Len(b) = Len(s) - 1 /\ Len(a) + 1 = i
    BY <1>1, <1>2, <1>3
  <2> QED
    BY <1>2, <1>4, <2>1, <2>2
<1>6. DOMAIN r = 1..Len(s) - 1
  BY <1>1, <1>5
<1>7. \A k \in 1..i - 1 : r[k] = s[k]
  BY <1>2, <1>5
<1>8. \A k \in i..Len(s) - 1 : r[k] = s[k + 1]
  <2>1. ASSUME NEW k \in i..Len(s) - 1 PROVE r[k] = s[k + 1]
    <3>1. k - (i - 1) \in 1..Len(s) - i /\ i + (k - (i - 1)) = k + 1
      BY <1>1
    <3> QED
      BY <1>3, <1>5, <3>1
  <2> QED
    BY <2>1
<1> DEFINE old(k) == IF k < i THEN k ELSE k + 1
<1>9. \A k \in DOMAIN r : old(k) \in DOMAIN s /\ old(k) # i /\ r[k] = s[old(k)]
  BY <1>1, <1>6, <1>7, <1>8
<1>10. \A k \in DOMAIN s : k # i => \E j \in DOMAIN r : r[j] = s[k]
  <2>1. ASSUME NEW k \in DOMAIN s, k # i PROVE \E j \in DOMAIN r : r[j] = s[k]
    <3>1. CASE k < i
      <4>1. k \in DOMAIN r /\ r[k] = s[k]
        BY <1>1, <1>6, <1>7, <3>1
      <4> QED
        BY <4>1
    <3>2. CASE k > i
      <4>1. k - 1 \in DOMAIN r /\ k - 1 \in i..Len(s) - 1 /\ (k - 1) + 1 = k
        BY <1>1, <1>6, <3>2
      <4>2. r[k - 1] = s[k]
        BY <1>8, <4>1
      <4> QED
        BY <4>1, <4>2
    <3> QED
      BY <1>1, <2>1, <3>1, <3>2
  <2> QED
    BY <2>1
<1>11. ToSet(s) = ToSet(r) \cup {s[i]}
  BY <1>9, <1>10 DEF ToSet
<1>12. ASSUME IsInjective(s) PROVE IsInjective(r) /\ s[i] \notin ToSet(r)
  <2>1. s[i] \notin ToSet(r)
    BY <1>9, <1>12 DEF ToSet, IsInjective
  <2>2. ASSUME NEW j \in DOMAIN r, NEW k \in DOMAIN r, r[j] = r[k] PROVE j = k
    <3>1. old(j) = old(k)
      BY <1>9, <1>12, <2>2 DEF IsInjective
    <3> QED
      BY <1>1, <1>6, <3>1
  <2> QED
    BY <2>1, <2>2 DEF IsInjective
<1> QED
  BY <1>5, <1>11, <1>12 DEF r

\* The rest of a queue after its first element was taken.
LEMMA TailFacts ==
  ASSUME NEW S, NEW s \in Seq(S), s # <<>>
  PROVE  /\ Head(s) \in S /\ Tail(s) \in Seq(S)
         /\ ToSet(s) = ToSet(Tail(s)) \cup {Head(s)}
         /\ IsInjective(s) => IsInjective(Tail(s)) /\ Head(s) \notin ToSet(Tail(s))
<1> DEFINE r == Tail(s)
<1>1. /\ Len(s) \in Nat /\ Len(s) > 0 /\ r \in Seq(S) /\ Len(r) = Len(s) - 1 /\ Head(s) = s[1]
      /\ \A k \in 1..Len(s) - 1 : r[k] = s[k + 1]
  OBVIOUS
<1> HIDE DEF r
<1>2. DOMAIN s = 1..Len(s) /\ DOMAIN r = 1..Len(s) - 1
  BY <1>1
<1>3. \A k \in DOMAIN r : k + 1 \in DOMAIN s /\ k + 1 # 1 /\ r[k] = s[k + 1]
  BY <1>1, <1>2
<1>4. \A k \in DOMAIN s : k # 1 => k - 1 \in DOMAIN r /\ r[k - 1] = s[k]
  BY <1>1, <1>2
<1>5. ToSet(s) = ToSet(r) \cup {s[1]}
  <2>1. 1 \in DOMAIN s
    BY <1>1, <1>2
  <2> QED
    BY <1>3, <1>4, <2>1 DEF ToSet
<1>6. ASSUME IsInjective(s) PROVE IsInjective(r) /\ s[1] \notin ToSet(r)
  <2>1. 1 \in DOMAIN s
    BY <1>1, <1>2
  <2>2. s[1] \notin ToSet(r)
    BY <1>3, <1>6, <2>1 DEF ToSet, IsInjective
  <2>3. ASSUME NEW j \in DOMAIN r, NEW k \in DOMAIN r, r[j] = r[k] PROVE j = k
    <3>1. j + 1 = k + 1
      BY <1>3, <1>6, <2>3 DEF IsInjective
    <3> QED
      BY <1>2, <3>1
  <2> QED
    BY <2>2, <2>3 DEF IsInjective
<1>7. s[1] \in S
  BY <1>1
<1> QED
  BY <1>1, <1>5, <1>6, <1>7 DEF r

-----------------------------------------------------------------------------
\* Every non-empty set of naturals has a least element.
LEMMA LeastNatural ==
  ASSUME NEW T \in SUBSET Nat, T # {}
  PROVE  \E x \in T : \A y \in T : x <= y
<1> DEFINE R == OpToRel(<, Nat)
<1>1. IsWellFoundedOn(R, Nat)
  BY NatLessThanWellFounded
<1>2. \A x, y \in Nat : y < x => <<y, x>> \in R
  BY DEF OpToRel
<1> HIDE DEF R
<1>3. PICK x \in T : \A y \in T : ~(<<y, x>> \in R)
  BY <1>1, WFMin
<1>4. ASSUME NEW y \in T PROVE x <= y
  <2>1. x \in Nat /\ y \in Nat
    OBVIOUS
  <2>2. ~(<<y, x>> \in R)
    BY <1>3
  <2>3. ~(y < x)
    BY <1>2, <2>1, <2>2
  <2> QED
    BY <2>1, <2>3
<1> QED
  BY <1>4

\* The numbers in a finite sequence are bounded.
LEMMA SeqIsBounded ==
  ASSUME NEW f, NEW n \in Nat, \A i \in 1..n : f[i] \in Nat
  PROVE  \E b \in Nat : \A i \in 1..n : f[i] <= b
<1> DEFINE Bounded(m) == \E b \in Nat : \A i \in 1..m : f[i] <= b
           T == {m \in 0..n : ~Bounded(m)}
<1>1. SUFFICES ASSUME T # {} PROVE FALSE
  <2>1. n \in 0..n
    OBVIOUS
  <2> QED
    BY <2>1
<1>2. PICK m \in T : \A k \in T : m <= k
  <2>1. T \in SUBSET Nat
    OBVIOUS
  <2> HIDE DEF T
  <2> QED
    BY <1>1, <2>1, LeastNatural
<1>3. m \in 0..n /\ ~Bounded(m)
  BY <1>2
<1>4. m # 0
  <2>1. Bounded(0)
    <3>1. \A i \in 1..0 : f[i] <= 0
      OBVIOUS
    <3> QED
      BY <3>1
  <2> QED
    BY <1>3, <2>1
<1>5. m - 1 \in 0..n /\ ~(m <= m - 1)
  BY <1>3, <1>4
<1>6. Bounded(m - 1)
  <2> HIDE DEF Bounded
  <2> QED
    BY <1>2, <1>5
<1>7. PICK b \in Nat : \A i \in 1..m - 1 : f[i] <= b
  BY <1>6
<1>8. f[m] \in Nat
  BY <1>3, <1>4
<1>9. \A i \in 1..m : f[i] \in Nat
  BY <1>3
<1>10. \A i \in 1..m : f[i] <= b + f[m]
  BY <1>3, <1>4, <1>7, <1>8, <1>9
<1>11. Bounded(m)
  <2>1. b + f[m] \in Nat
    BY <1>7, <1>8
  <2> QED
    BY <1>10, <2>1
<1> QED
  BY <1>3, <1>11

\* A bounded non-empty set of naturals has a largest element.
LEMMA LargestNatural ==
  ASSUME NEW T \in SUBSET Nat, T # {}, NEW b \in Nat, \A x \in T : x <= b
  PROVE  \E x \in T : \A y \in T : y <= x
<1> DEFINE U == {u \in Nat : \A x \in T : x <= u}
<1>1. U \in SUBSET Nat /\ U # {}
  OBVIOUS
<1>2. PICK u \in U : \A v \in U : u <= v
  <2> HIDE DEF U
  <2> QED
    BY <1>1, LeastNatural
<1>3. u \in T
  <2>1. SUFFICES ASSUME u \notin T PROVE FALSE
    OBVIOUS
  <2>2. \A x \in T : x < u
    BY <2>1
  <2>3. u > 0
    <3>1. PICK x \in T : TRUE
      OBVIOUS
    <3>2. x \in Nat /\ u \in Nat /\ x < u
      BY <2>2
    <3> QED
      BY <3>2
  <2>4. u - 1 \in U
    BY <2>2, <2>3
  <2> QED
    BY <1>2, <2>4
<1> QED
  BY <1>2, <1>3

-----------------------------------------------------------------------------
(* Recursive functions over a range of numbers *)

\* g folds the functions F[i] over a range of numbers, from the value a on.
IsFold(g, A, a, lo, hi, F) ==
  /\ g \in [lo .. hi -> A]
  /\ \A i \in lo .. hi : g[i] = IF i = lo THEN a ELSE F[i][g[i - 1]]

\* Such a fold exists.
LEMMA FoldExists ==
  ASSUME NEW A, NEW a \in A, NEW lo \in Nat, NEW hi \in Nat, lo <= hi,
         NEW F \in [lo .. hi -> [A -> A]]
  PROVE  \E g : IsFold(g, A, a, lo, hi, F)
<1> DEFINE Fold(g, m) ==
             /\ g \in [lo .. m -> A]
             /\ \A i \in lo .. m : g[i] = IF i = lo THEN a ELSE F[i][g[i - 1]]
           T == {m \in lo .. hi : ~ \E g : Fold(g, m)}
<1>1. SUFFICES ASSUME T # {} PROVE FALSE
  <2>1. hi \in lo .. hi
    OBVIOUS
  <2>2. T = {} => \E g : Fold(g, hi)
    BY <2>1
  <2> QED
    BY <2>2 DEF IsFold
<1>2. T \in SUBSET Nat
  OBVIOUS
<1>3. PICK m \in T : \A y \in T : m <= y
  <2> HIDE DEF T
  <2> QED
    BY <1>1, <1>2, LeastNatural
<1>4. m \in Nat /\ m \in lo .. hi /\ ~ \E g : Fold(g, m)
  BY <1>3
<1>5. CASE m = lo
  <2> DEFINE g == [i \in lo .. m |-> a]
  <2>1. Fold(g, m)
    BY <1>4, <1>5
  <2> QED
    BY <1>4, <2>1
<1>6. CASE m > lo
  <2>1. m - 1 \in lo .. hi /\ m - 1 \notin T
    <3>1. m - 1 \in lo .. hi /\ ~(m <= m - 1)
      BY <1>4, <1>6
    <3> QED
      BY <1>3, <3>1
  <2>2. PICK f : Fold(f, m - 1)
    BY <2>1
  <2> DEFINE g == [i \in lo .. m |-> IF i = m THEN F[m][f[m - 1]] ELSE f[i]]
  <2>3. f[m - 1] \in A /\ F[m] \in [A -> A]
    BY <1>4, <1>6, <2>2
  <2>4. \A i \in lo .. m : i = m \/ i \in lo .. (m - 1)
    BY <1>4
  <2>5. g \in [lo .. m -> A]
    BY <2>2, <2>3, <2>4
  <2>6. ASSUME NEW i \in lo .. m
        PROVE  g[i] = IF i = lo THEN a ELSE F[i][g[i - 1]]
    <3>1. CASE i = m
      BY <1>4, <1>6, <3>1
    <3>2. CASE i # m
      <4>1. i \in lo .. (m - 1) /\ g[i] = f[i] /\ (i # lo => g[i - 1] = f[i - 1])
        BY <1>4, <3>2
      <4> QED
        BY <2>2, <4>1
    <3> QED
      BY <3>1, <3>2
  <2>7. Fold(g, m)
    BY <2>5, <2>6
  <2> QED
    BY <1>4, <2>7
<1> QED
  BY <1>4, <1>5, <1>6

\* Whatever is folded stays in the set it starts in.
LEMMA FoldStays ==
  ASSUME NEW A, NEW g, NEW lo \in Nat, NEW hi \in Nat, lo <= hi, g[lo] \in A,
         \A i \in lo + 1 .. hi : g[i - 1] \in A => g[i] \in A
  PROVE  \A i \in lo .. hi : g[i] \in A
<1> DEFINE T == {m \in lo .. hi : g[m] \notin A}
<1>1. SUFFICES ASSUME T # {} PROVE FALSE
  OBVIOUS
<1>2. T \in SUBSET Nat
  OBVIOUS
<1>3. PICK m \in T : \A y \in T : m <= y
  <2> HIDE DEF T
  <2> QED
    BY <1>1, <1>2, LeastNatural
<1>4. m \in lo + 1 .. hi /\ m - 1 \in lo .. hi /\ ~(m <= m - 1)
  BY <1>3
<1>5. m - 1 \notin T
  BY <1>3, <1>4
<1> QED
  BY <1>3, <1>4, <1>5

-----------------------------------------------------------------------------
(* The k-th smallest member of a set *)

Below(S, n) == {m \in S : m < n}

\* The members below n form a finite set that grows with n.
LEMMA BelowFinite ==
  ASSUME NEW b \in Nat, NEW S \in SUBSET (0 .. b)
  PROVE  /\ IsFiniteSet(S) /\ Cardinality(S) \in Nat
         /\ \A n \in Nat : IsFiniteSet(Below(S, n)) /\ Cardinality(Below(S, n)) \in Nat
<1>1. IsFiniteSet(0 .. b)
  BY FS_Interval
<1>2. IsFiniteSet(S)
  BY <1>1, FS_Subset
<1>3. \A n \in Nat : Below(S, n) \subseteq S
  BY DEF Below
<1>4. \A n \in Nat : IsFiniteSet(Below(S, n))
  BY <1>2, <1>3, FS_Subset
<1> QED
  BY <1>2, <1>4, FS_CardinalityType

\* One more number: the cardinality grows by one if it is a member.
LEMMA BelowNext ==
  ASSUME NEW b \in Nat, NEW S \in SUBSET (0 .. b), NEW n \in Nat
  PROVE  /\ n \in S => Cardinality(Below(S, n + 1)) = Cardinality(Below(S, n)) + 1
         /\ n \notin S => Cardinality(Below(S, n + 1)) = Cardinality(Below(S, n))
<1>1. \A m \in S : m \in Nat
  OBVIOUS
<1>a. \A m \in S : m < n + 1 <=> m < n \/ m = n
  BY <1>1
<1>2. n \in S => Below(S, n + 1) = Below(S, n) \cup {n}
  BY <1>a, Zenon DEF Below
<1>3. n \notin S => Below(S, n + 1) = Below(S, n)
  BY <1>a, Zenon DEF Below
<1>4. n \notin Below(S, n)
  BY DEF Below
<1>5. IsFiniteSet(Below(S, n))
  BY BelowFinite
<1>6. Cardinality(Below(S, n) \cup {n}) = Cardinality(Below(S, n)) + 1
  BY <1>4, <1>5, FS_AddElement
<1> QED
  BY <1>2, <1>3, <1>6

\* Nth is defined for every k up to the size of the set.
LEMMA NthInSet ==
  ASSUME NEW b \in Nat, NEW S \in SUBSET (0 .. b), NEW k \in 1 .. Cardinality(S)
  PROVE  /\ Nth(S, k) \in S /\ Nth(S, k) \in Nat
         /\ Cardinality(Below(S, Nth(S, k))) = k - 1
<1> DEFINE T == {n \in Nat : Cardinality(Below(S, n)) >= k}
<1>1. \A n \in Nat : Cardinality(Below(S, n)) \in Nat
  BY BelowFinite
<1>2. Below(S, b + 1) = S
  <2>1. \A m \in S : m < b + 1
    OBVIOUS
  <2> QED
    BY <2>1, Zenon DEF Below
<1>3. Cardinality(S) \in Nat /\ Cardinality(S) >= k /\ k \in Nat /\ k >= 1
  <2>1. Cardinality(S) \in Nat
    BY BelowFinite
  <2> QED
    BY <2>1
<1>4. T \in SUBSET Nat /\ T # {}
  BY <1>2, <1>3
<1>5. PICK t \in T : \A n \in T : t <= n
  <2> HIDE DEF T
  <2> QED
    BY <1>4, LeastNatural
<1>6. t # 0
  <2>1. Below(S, 0) = {}
    <3>1. \A m \in S : ~(m < 0)
      OBVIOUS
    <3> QED
      BY <3>1, Zenon DEF Below
  <2>2. Cardinality(Below(S, 0)) = 0
    BY <2>1, FS_EmptySet
  <2> QED
    BY <1>3, <1>5, <2>2
<1>7. t - 1 \in Nat /\ t - 1 \notin T
  BY <1>5, <1>6
<1>8. Cardinality(Below(S, t - 1)) < k
  BY <1>1, <1>3, <1>7
<1>9. Cardinality(Below(S, t)) >= k
  BY <1>5
<1>10. (t - 1) + 1 = t
  BY <1>5
<1>11. t - 1 \in S /\ Cardinality(Below(S, t)) = Cardinality(Below(S, t - 1)) + 1
  <2>1. /\ t - 1 \in S => Cardinality(Below(S, t)) = Cardinality(Below(S, t - 1)) + 1
        /\ t - 1 \notin S => Cardinality(Below(S, t)) = Cardinality(Below(S, t - 1))
    <3>1. /\ t - 1 \in S => Cardinality(Below(S, (t - 1) + 1)) = Cardinality(Below(S, t - 1)) + 1
          /\ t - 1 \notin S => Cardinality(Below(S, (t - 1) + 1)) = Cardinality(Below(S, t - 1))
      BY <1>7, BelowNext
    <3> QED
      BY <1>10, <3>1
  <2> QED
    BY <1>1, <1>3, <1>7, <1>8, <1>9, <2>1
<1>12. Cardinality(Below(S, t - 1)) = k - 1
  BY <1>1, <1>3, <1>7, <1>8, <1>9, <1>11
<1>13. \E n \in S : Cardinality({m \in S : m < n}) = k - 1
  BY <1>11, <1>12 DEF Below
<1>14. Nth(S, k) \in S /\ Cardinality({m \in S : m < Nth(S, k)}) = k - 1
  BY <1>13 DEF Nth
<1>15. Below(S, Nth(S, k)) = {m \in S : m < Nth(S, k)}
  BY DEF Below
<1>16. Nth(S, k) \in Nat
  <2>1. \A n \in S : n \in Nat
    OBVIOUS
  <2> QED
    BY <1>14, <2>1, Zenon
<1> QED
  BY <1>14, <1>15, <1>16, Zenon

\* Nth is increasing.
LEMMA NthIncreasing ==
  ASSUME NEW b \in Nat, NEW S \in SUBSET (0 .. b),
         NEW j \in 1 .. Cardinality(S), NEW k \in 1 .. Cardinality(S), j < k
  PROVE  Nth(S, j) < Nth(S, k)
<1> DEFINE x == Nth(S, j)
           y == Nth(S, k)
<1>1. x \in Nat /\ y \in Nat /\ Cardinality(Below(S, x)) = j - 1 /\ Cardinality(Below(S, y)) = k - 1
  BY NthInSet
<1> HIDE DEF x, y
<1>2. SUFFICES ASSUME ~(x < y) PROVE FALSE
  BY DEF x, y
<1>3. Below(S, y) \subseteq Below(S, x)
  <2>1. \A m \in S : m \in Nat
    OBVIOUS
  <2>2. \A m \in S : m < y => m < x
    BY <1>1, <1>2, <2>1
  <2> QED
    BY <2>2, Zenon DEF Below
<1>4. IsFiniteSet(Below(S, x))
  BY <1>1, BelowFinite
<1>5. Cardinality(Below(S, y)) <= Cardinality(Below(S, x))
  BY <1>3, <1>4, FS_Subset
<1>6. j \in Nat /\ k \in Nat
  BY BelowFinite
<1> QED
  BY <1>1, <1>5, <1>6

-----------------------------------------------------------------------------
(* Vec::retain *)

\* What is retained is a sequence of members of the old one, no longer than it.
LEMMA RetainFacts ==
  ASSUME NEW E, NEW s \in Seq(E), NEW keep \in SUBSET (1 .. Len(s))
  PROVE  /\ Retain(s, keep) \in Seq(E)
         /\ Len(Retain(s, keep)) = Cardinality(keep) /\ Len(Retain(s, keep)) <= Len(s)
         /\ Cardinality(keep) \in Nat
         /\ \A k \in 1 .. Cardinality(keep) : Nth(keep, k) \in keep /\ Retain(s, keep)[k] = s[Nth(keep, k)]
<1>1. Len(s) \in Nat /\ keep \in SUBSET (0 .. Len(s)) /\ \A i \in 1 .. Len(s) : s[i] \in E
  OBVIOUS
<1>2. Cardinality(keep) \in Nat
  BY <1>1, BelowFinite
<1>3. \A k \in 1 .. Cardinality(keep) : Nth(keep, k) \in keep
  BY <1>1, NthInSet
<1>4. \A k \in 1 .. Cardinality(keep) : s[Nth(keep, k)] \in E
  BY <1>1, <1>3
<1>5. Cardinality(keep) <= Len(s)
  <2> DEFINE l == Len(s)
  <2>0. l \in Int /\ l >= 0 /\ 1 \in Int
    BY <1>1
  <2> HIDE DEF l
  <2>1. IsFiniteSet(1 .. l) /\ Cardinality(1 .. l) = IF 1 > l THEN 0 ELSE l - 1 + 1
    BY <2>0, FS_Interval
  <2>3. Cardinality(1 .. l) = l
    BY <2>0, <2>1
  <2>4. Cardinality(keep) <= Cardinality(1 .. l)
    BY <2>1, FS_Subset DEF l
  <2> QED
    BY <2>3, <2>4 DEF l
<1>6. Retain(s, keep) \in Seq(E) /\ Len(Retain(s, keep)) = Cardinality(keep)
  BY <1>2, <1>4 DEF Retain
<1> QED
  BY <1>2, <1>3, <1>5, <1>6 DEF Retain

\* A member is the one its rank says.
LEMMA NthOfRank ==
  ASSUME NEW b \in Nat, NEW S \in SUBSET (0 .. b), NEW n \in S
  PROVE  /\ Cardinality(Below(S, n)) + 1 \in 1 .. Cardinality(S)
         /\ Nth(S, Cardinality(Below(S, n)) + 1) = n
<1> DEFINE k == Cardinality(Below(S, n)) + 1
           x == Nth(S, k)
<1>1. n \in Nat /\ IsFiniteSet(S) /\ Cardinality(S) \in Nat
  <2>1. n \in Nat
    OBVIOUS
  <2>2. IsFiniteSet(S) /\ Cardinality(S) \in Nat
    BY BelowFinite
  <2> QED
    BY <2>1, <2>2
<1>2. \A m \in Nat : IsFiniteSet(Below(S, m)) /\ Cardinality(Below(S, m)) \in Nat
  BY BelowFinite
<1>3. n + 1 \in Nat /\ Cardinality(Below(S, n + 1)) = k
  <2>1. n + 1 \in Nat
    BY <1>1
  <2>2. Cardinality(Below(S, n + 1)) = k
    BY <1>1, BelowNext
  <2> QED
    BY <2>1, <2>2
<1>4. Below(S, n + 1) \subseteq S
  BY DEF Below
<1>5. k \in 1 .. Cardinality(S)
  <2>1. Cardinality(Below(S, n + 1)) <= Cardinality(S)
    BY <1>1, <1>4, FS_Subset
  <2> QED
    BY <1>1, <1>2, <1>3, <2>1
<1>6. x \in S /\ x \in Nat /\ Cardinality(Below(S, x)) = k - 1
  <2> HIDE DEF k
  <2> QED
    BY <1>5, NthInSet
<1>7. Cardinality(Below(S, x + 1)) = k /\ x + 1 \in Nat
  <2>1. Cardinality(Below(S, x + 1)) = Cardinality(Below(S, x)) + 1
    <3> HIDE DEF x
    <3> QED
      BY <1>6, BelowNext
  <2> QED
    BY <1>2, <1>5, <1>6, <2>1
<1> HIDE DEF x
<1>8. ASSUME NEW p \in Nat, NEW q \in Nat, p < q
      PROVE  Cardinality(Below(S, p + 1)) <= Cardinality(Below(S, q))
  <2>1. \A m \in S : m \in Nat
    OBVIOUS
  <2>2. \A m \in S : m < p + 1 => m < q
    BY <1>8, <2>1
  <2>3. Below(S, p + 1) \subseteq Below(S, q)
    BY <2>2, Zenon DEF Below
  <2> QED
    BY <1>2, <2>3, FS_Subset
<1>9. ~(x < n)
  BY <1>1, <1>2, <1>6, <1>7, <1>8
<1>10. ~(n < x)
  BY <1>1, <1>2, <1>3, <1>6, <1>8
<1>11. x = n
  BY <1>1, <1>6, <1>9, <1>10
<1> QED
  BY <1>5, <1>11 DEF x

\* The size of an interval from 1 or from behind a prefix.
LEMMA IntervalSize ==
  ASSUME NEW m \in Nat, NEW l \in Nat
  PROVE  /\ IsFiniteSet(m + 1 .. l) /\ Cardinality(m + 1 .. l) = (IF m < l THEN l - m ELSE 0)
         /\ IsFiniteSet(1 .. l) /\ Cardinality(1 .. l) = l
<1>1. m + 1 \in Int /\ l \in Int /\ 1 \in Int
  OBVIOUS
<1>2. IsFiniteSet(m + 1 .. l) /\ Cardinality(m + 1 .. l) = IF m + 1 > l THEN 0 ELSE l - (m + 1) + 1
  BY <1>1, FS_Interval
<1>3. IsFiniteSet(1 .. l) /\ Cardinality(1 .. l) = IF 1 > l THEN 0 ELSE l - 1 + 1
  BY <1>1, FS_Interval
<1> QED
  BY <1>2, <1>3

\* Retaining everything behind a prefix.
LEMMA RetainRest ==
  ASSUME NEW E, NEW s \in Seq(E), NEW m \in 0 .. Len(s)
  PROVE  /\ Len(Retain(s, m + 1 .. Len(s))) = Len(s) - m
         /\ Retain(s, m + 1 .. Len(s)) \in Seq(E)
         /\ \A i \in 1 .. Len(s) - m : Retain(s, m + 1 .. Len(s))[i] = s[m + i]
<1> DEFINE l == Len(s)
           keep == m + 1 .. l
<1>1. l \in Nat /\ m \in Nat /\ m <= l
  OBVIOUS
<1>2. keep \in SUBSET (1 .. l) /\ keep \in SUBSET (0 .. l)
  BY <1>1
<1>3. Cardinality(keep) = l - m
  <2>1. Cardinality(keep) = IF m < l THEN l - m ELSE 0
    <3> HIDE DEF l
    <3> QED
      BY <1>1, IntervalSize
  <2> QED
    BY <1>1, <2>1
<1>4. /\ Retain(s, keep) \in Seq(E) /\ Len(Retain(s, keep)) = Cardinality(keep)
      /\ \A k \in 1 .. Cardinality(keep) : Retain(s, keep)[k] = s[Nth(keep, k)]
  <2> HIDE DEF keep
  <2> QED
    BY <1>2, RetainFacts DEF l
<1>5. ASSUME NEW i \in 1 .. l - m
      PROVE  Nth(keep, i) = m + i
  <2> DEFINE n == m + i
             low == m + 1 .. (n - 1)
  <2>1. n \in keep /\ n \in Nat /\ i \in Nat /\ n - 1 \in Nat
    BY <1>1
  <2>2. Below(keep, n) = low
    <3>1. \A x \in keep : x < n <=> x \in low
      BY <1>1
    <3>2. low \subseteq keep
      BY <1>1
    <3> QED
      BY <3>1, <3>2, Zenon DEF Below
  <2>3. Cardinality(low) = i - 1
    <3>1. Cardinality(low) = IF m < n - 1 THEN (n - 1) - m ELSE 0
      BY <1>1, <2>1, IntervalSize
    <3> QED
      BY <1>1, <3>1
  <2>4. Cardinality(Below(keep, n)) + 1 = i
    BY <2>1, <2>2, <2>3
  <2>5. Nth(keep, Cardinality(Below(keep, n)) + 1) = n
    <3> HIDE DEF keep, n
    <3> QED
      BY <1>1, <1>2, <2>1, NthOfRank
  <2> QED
    BY <2>4, <2>5
<1> QED
  BY <1>3, <1>4, <1>5

\* Moving a set of numbers keeps its size.
LEMMA ShiftedSize ==
  ASSUME NEW b \in Nat, NEW T \in SUBSET (0 .. b), NEW m \in Nat
  PROVE  LET U == {m + j : j \in T} IN IsFiniteSet(U) /\ Cardinality(U) = Cardinality(T)
<1> DEFINE U == {m + j : j \in T}
           f == [j \in T |-> m + j]
<1>1. \A j \in T : j \in Nat
  OBVIOUS
<1>2. f \in [T -> U] /\ (\A t \in U : \E j \in T : f[j] = t) /\ IsInjective(f)
  BY <1>1 DEF IsInjective
<1>3. f \in Bijection(T, U)
  <2> HIDE DEF f, U
  <2> QED
    BY <1>2 DEF Bijection, Injection, Surjection
<1>4. IsFiniteSet(T)
  BY BelowFinite
<1>5. ExistsBijection(T, U)
  BY <1>3 DEF ExistsBijection
<1>6. IsFiniteSet(U) /\ Cardinality(U) = Cardinality(T)
  <2> HIDE DEF U
  <2> QED
    BY <1>4, <1>5, FS_Bijection
<1> QED
  BY <1>6

\* A set of positions of a concatenation: those of the first part come first.
LEMMA NthOfTwo ==
  ASSUME NEW m \in Nat, NEW l \in Nat, NEW a \in SUBSET (1 .. m), NEW b \in SUBSET (1 .. l)
  PROVE  LET keep == a \cup {m + j : j \in b}
         IN  /\ Cardinality(keep) = Cardinality(a) + Cardinality(b)
             /\ \A i \in 1 .. Cardinality(a) : Nth(keep, i) = Nth(a, i)
             /\ \A i \in 1 .. Cardinality(b) : Nth(keep, Cardinality(a) + i) = m + Nth(b, i)
<1> DEFINE Shift(x) == {m + j : j \in x}
           keep == a \cup Shift(b)
           ca == Cardinality(a)
           cb == Cardinality(b)
<1>1. a \in SUBSET (0 .. m) /\ b \in SUBSET (0 .. l) /\ m + l \in Nat
  OBVIOUS
<1>2. keep \in SUBSET (0 .. m + l)
  <2>1. \A j \in b : m + j \in 0 .. m + l
    OBVIOUS
  <2>2. \A j \in a : j \in 0 .. m + l
    OBVIOUS
  <2> QED
    BY <2>1, <2>2
<1>3. ca \in Nat /\ cb \in Nat /\ IsFiniteSet(a) /\ IsFiniteSet(b)
  BY <1>1, BelowFinite
<1>4. ASSUME NEW x \in SUBSET b
      PROVE  IsFiniteSet(a \cup Shift(x)) /\ Cardinality(a \cup Shift(x)) = ca + Cardinality(x)
  <2>1. x \in SUBSET (0 .. l)
    BY <1>1
  <2>2. IsFiniteSet(Shift(x)) /\ Cardinality(Shift(x)) = Cardinality(x)
    <3> DEFINE U == {m + j : j \in x}
    <3>1. IsFiniteSet(U) /\ Cardinality(U) = Cardinality(x)
      BY <2>1, ShiftedSize
    <3> QED
      BY <3>1
  <2>3. a \cap Shift(x) = {}
    <3>1. \A j \in x : ~(m + j \in 1 .. m)
      OBVIOUS
    <3>2. \A j \in a : j \in 1 .. m
      OBVIOUS
    <3> QED
      BY <3>1, <3>2
  <2>4. Cardinality(a \cap Shift(x)) = 0
    BY <2>3, FS_EmptySet
  <2> DEFINE v == Shift(x)
  <2> HIDE DEF v
  <2>5. IsFiniteSet(a \cup v) /\ Cardinality(a \cup v) = Cardinality(a) + Cardinality(v) - Cardinality(a \cap v)
    BY <1>3, <2>2, FS_Union DEF v
  <2>6. Cardinality(x) \in Nat
    BY <2>1, BelowFinite
  <2> QED
    BY <1>3, <2>2, <2>4, <2>5, <2>6 DEF v
<1>5. Cardinality(keep) = ca + cb
  BY <1>4
<1>6. ASSUME NEW i \in 1 .. ca
      PROVE  Nth(keep, i) = Nth(a, i)
  <2> DEFINE n == Nth(a, i)
  <2>1. n \in a /\ n \in Nat /\ Cardinality(Below(a, n)) = i - 1
    BY <1>1, NthInSet
  <2> HIDE DEF n
  <2>2. Below(keep, n) = Below(a, n)
    <3>1. n \in 1 .. m
      BY <2>1
    <3>2. \A j \in b : ~(m + j < n)
      BY <3>1
    <3> QED
      BY <3>2 DEF Below
  <2>3. Nth(keep, Cardinality(Below(keep, n)) + 1) = n
    <3>1. n \in keep
      BY <2>1
    <3> HIDE DEF keep
    <3> QED
      BY <1>1, <1>2, <3>1, NthOfRank
  <2>4. Cardinality(Below(keep, n)) + 1 = i
    BY <1>3, <2>1, <2>2
  <2> QED
    BY <2>3, <2>4 DEF n
<1>7. ASSUME NEW i \in 1 .. cb
      PROVE  Nth(keep, ca + i) = m + Nth(b, i)
  <2> DEFINE n == Nth(b, i)
  <2>1. n \in b /\ n \in Nat /\ Cardinality(Below(b, n)) = i - 1
    BY <1>1, NthInSet
  <2> HIDE DEF n
  <2>2. Below(keep, m + n) = a \cup Shift(Below(b, n))
    <3>1. n \in 1 .. l
      BY <2>1
    <3>2. \A j \in a : j < m + n
      BY <3>1
    <3>3. \A j \in b : m + j < m + n <=> j < n
      BY <3>1
    <3> QED
      BY <3>2, <3>3 DEF Below
  <2>3. Below(b, n) \in SUBSET b
    BY DEF Below
  <2>4. Cardinality(Below(keep, m + n)) = ca + (i - 1)
    <3> HIDE DEF keep, Shift, ca
    <3> QED
      BY <1>4, <2>1, <2>2, <2>3
  <2>5. Nth(keep, Cardinality(Below(keep, m + n)) + 1) = m + n
    <3>1. m + n \in keep
      BY <2>1
    <3> HIDE DEF keep
    <3> QED
      BY <1>1, <1>2, <3>1, NthOfRank
  <2>6. Cardinality(Below(keep, m + n)) + 1 = ca + i
    BY <1>3, <2>4
  <2> QED
    BY <2>5, <2>6 DEF n
<1> QED
  BY <1>5, <1>6, <1>7

\* Positions behind a prefix of length m.
Moved(T, m) == {m + j : j \in T}

\* What is retained of a concatenation is what is retained of its parts.
LEMMA RetainConcat ==
  ASSUME NEW E, NEW s \in Seq(E), NEW u \in Seq(E),
         NEW a \in SUBSET (1 .. Len(s)), NEW b \in SUBSET (1 .. Len(u)),
         NEW keep, keep = a \cup Moved(b, Len(s))
  PROVE  Retain(s \o u, keep) = Retain(s, a) \o Retain(u, b)
<1> DEFINE m == Len(s)
           l == Len(u)
           w == s \o u
           p == Retain(s, a)
           q == Retain(u, b)
           ca == Cardinality(a)
           cb == Cardinality(b)
<1>1. m \in Nat /\ l \in Nat
  OBVIOUS
<1>2. /\ w \in Seq(E) /\ Len(w) = m + l
      /\ \A i \in 1 .. m : w[i] = s[i]
      /\ \A i \in m + 1 .. m + l : w[i] = u[i - m]
  BY ConcatElements
<1>3. /\ p \in Seq(E) /\ Len(p) = ca /\ ca \in Nat
      /\ \A k \in 1 .. ca : Nth(a, k) \in a /\ p[k] = s[Nth(a, k)]
  BY RetainFacts
<1>4. /\ q \in Seq(E) /\ Len(q) = cb /\ cb \in Nat
      /\ \A k \in 1 .. cb : Nth(b, k) \in b /\ q[k] = u[Nth(b, k)]
  BY RetainFacts
<1>5. /\ Cardinality(keep) = ca + cb
      /\ \A i \in 1 .. ca : Nth(keep, i) = Nth(a, i)
      /\ \A i \in 1 .. cb : Nth(keep, ca + i) = m + Nth(b, i)
  <2> DEFINE both == a \cup {m + j : j \in b}
  <2>1. /\ Cardinality(both) = ca + cb
        /\ \A i \in 1 .. ca : Nth(both, i) = Nth(a, i)
        /\ \A i \in 1 .. cb : Nth(both, ca + i) = m + Nth(b, i)
    <3>1. a \in SUBSET (1 .. m) /\ b \in SUBSET (1 .. l)
      OBVIOUS
    <3> HIDE DEF m, l
    <3> QED
      BY <1>1, <3>1, NthOfTwo
  <2>2. keep = both
    BY DEF Moved
  <2> HIDE DEF both
  <2> QED
    BY <2>1, <2>2
<1>6. /\ p \o q \in Seq(E) /\ Len(p \o q) = ca + cb
      /\ \A i \in 1 .. ca : (p \o q)[i] = p[i]
      /\ \A i \in ca + 1 .. ca + cb : (p \o q)[i] = q[i - ca]
  <2> HIDE DEF p, q, ca, cb
  <2>1. p \in Seq(E) /\ q \in Seq(E) /\ Len(p) = ca /\ Len(q) = cb
    BY <1>3, <1>4
  <2> QED
    BY <2>1, ConcatElements
<1> HIDE DEF m, l, w, p, q, ca, cb
<1>7. ASSUME NEW i \in 1 .. ca + cb
      PROVE  w[Nth(keep, i)] = (p \o q)[i]
  <2>1. CASE i \in 1 .. ca
    <3>1. Nth(a, i) \in 1 .. m
      BY <1>3, <2>1 DEF m
    <3> QED
      BY <1>2, <1>3, <1>5, <1>6, <2>1, <3>1
  <2>2. CASE i \in ca + 1 .. ca + cb
    <3> DEFINE j == i - ca
    <3>1. j \in 1 .. cb /\ i = ca + j
      BY <1>3, <1>4, <2>2
    <3>2. Nth(b, j) \in 1 .. l
      BY <1>4, <3>1 DEF l
    <3>3. Nth(keep, i) = m + Nth(b, j)
      BY <1>5, <3>1
    <3>4. m + Nth(b, j) \in m + 1 .. m + l /\ (m + Nth(b, j)) - m = Nth(b, j)
      BY <1>1, <3>2
    <3>5. w[Nth(keep, i)] = u[Nth(b, j)]
      BY <1>2, <3>3, <3>4
    <3> QED
      BY <1>4, <1>6, <2>2, <3>1, <3>5
  <2> QED
    BY <1>3, <1>4, <2>1, <2>2
<1>8. Retain(w, keep) = [i \in 1 .. ca + cb |-> w[Nth(keep, i)]]
  BY <1>5 DEF Retain
<1>9. p \o q = [i \in 1 .. ca + cb |-> (p \o q)[i]]
  <2> DEFINE r == p \o q
  <2> HIDE DEF r
  <2>1. r \in Seq(E) /\ Len(r) = ca + cb
    BY <1>6 DEF r
  <2>2. r = [i \in 1 .. Len(r) |-> r[i]]
    BY <2>1
  <2> QED
    BY <2>1, <2>2 DEF r
<1>10. [i \in 1 .. ca + cb |-> w[Nth(keep, i)]] = [i \in 1 .. ca + cb |-> (p \o q)[i]]
  BY <1>7
<1> QED
  BY <1>8, <1>9, <1>10 DEF w, p, q

\* Joining sequences gives a sequence over the same set.
LEMMA FlattenType ==
  ASSUME NEW S, NEW seqs \in Seq(Seq(S))
  PROVE  FlattenSeq(seqs) \in Seq(S)
<1> DEFINE n == Len(seqs)
           A == Seq(S)
           F == [i \in 1 .. n |-> [acc \in A |-> acc \o seqs[i]]]
           Body(f) == [i \in 1 .. n |-> IF i = 1 THEN seqs[i] ELSE f[i - 1] \o seqs[i]]
           f == CHOOSE f : f = Body(f)
<1>1. n \in Nat /\ \A i \in 1 .. n : seqs[i] \in A
  OBVIOUS
<1>2. CASE n = 0
  BY <1>2 DEF FlattenSeq
<1>3. CASE n # 0
  <2>1. n >= 1 /\ 1 \in Nat /\ seqs[1] \in A
    BY <1>1, <1>3
  <2>2. F \in [1 .. n -> [A -> A]]
    <3>1. \A i \in 1 .. n : \A acc \in A : acc \o seqs[i] \in A
      BY <1>1
    <3> QED
      BY <3>1
  <2>3. PICK g : IsFold(g, A, seqs[1], 1, n, F)
    <3> HIDE DEF F, A, n
    <3> QED
      BY <1>1, <2>1, <2>2, FoldExists
  <2>4. g \in [1 .. n -> A] /\ \A i \in 1 .. n : g[i] = IF i = 1 THEN seqs[1] ELSE F[i][g[i - 1]]
    <3> HIDE DEF F, A, n
    <3> QED
      BY <2>3 DEF IsFold
  <2>5. g = Body(g)
    <3>1. \A i \in 1 .. n : i # 1 => i - 1 \in 1 .. n
      OBVIOUS
    <3>2. \A i \in 1 .. n : i # 1 => g[i - 1] \in A
      BY <2>4, <3>1
    <3>3. \A i \in 1 .. n : \A acc \in A : F[i][acc] = acc \o seqs[i]
      OBVIOUS
    <3> HIDE DEF F, A, n
    <3>4. \A i \in 1 .. n : g[i] = IF i = 1 THEN seqs[i] ELSE g[i - 1] \o seqs[i]
      BY <2>4, <3>2, <3>3
    <3> QED
      BY <2>4, <3>4
  <2>6. f = Body(f)
    <3> HIDE DEF Body
    <3> QED
      BY <2>5
  <2>7. FlattenSeq(seqs) = f[n]
    BY <1>3 DEF FlattenSeq
  <2> HIDE DEF f
  <2>8. \A i \in 1 .. n : f[i] \in A
    <3>1. f[1] \in A
      BY <2>1, <2>6
    <3>2. ASSUME NEW i \in 1 + 1 .. n, f[i - 1] \in A PROVE f[i] \in A
      <4>1. i \in 1 .. n /\ i # 1
        BY <3>2
      <4>2. f[i] = f[i - 1] \o seqs[i]
        BY <2>6, <4>1
      <4> QED
        BY <1>1, <3>2, <4>1, <4>2
    <3> HIDE DEF A, n
    <3> QED
      BY <1>1, <2>1, <3>1, <3>2, FoldStays
  <2> QED
    BY <1>1, <2>1, <2>7, <2>8
<1> QED
  BY <1>2, <1>3
=============================================================================
