--------------------------- MODULE DerivationProofs ---------------------------
(***************************************************************************)
(* What the derivation pipeline computes, for every L1 chain and every     *)
(* bound: the retained and deduplicated sequences, the fold over the       *)
(* scanned L1 blocks, and the types of their results.                      *)
(***************************************************************************)
EXTENDS DerivationPipeline, QueueLemmas, FiniteSetTheorems, TLAPS

-----------------------------------------------------------------------------
(* The largest of a set, sort and dedup *)

\* The largest of a set of positions is one of them.
LEMMA LastOfFacts ==
  ASSUME NEW b \in Nat, NEW S \in SUBSET (0 .. b), S # {}
  PROVE  LastOf(S) \in S /\ \A m \in S : m <= LastOf(S)
<1>1. S \in SUBSET Nat /\ \A x \in S : x <= b
  OBVIOUS
<1>2. \E x \in S : \A y \in S : y <= x
  BY <1>1, LargestNatural
<1> QED
  BY <1>2 DEF LastOf

\* The only member of a set is the one that is chosen.
LEMMA ChosenFromOne ==
  ASSUME NEW e
  PROVE  (CHOOSE x \in {e} : TRUE) = e
  OBVIOUS

\* The numbers of a sequence of blocks.
Numbers(s) == {s[x].n : x \in 1 .. Len(s)}

\* Deduplication keeps for each number, in order, one member of the sequence.
LEMMA DeduplicatedFacts ==
  ASSUME NEW E, NEW s \in Seq(E), NEW b \in Nat, \A e \in E : e.n \in 0 .. b
  PROVE  /\ Cardinality(Numbers(s)) \in Nat /\ Numbers(s) \in SUBSET (0 .. b)
         /\ Deduplicated(s) \in Seq(E) /\ Len(Deduplicated(s)) = Cardinality(Numbers(s))
         /\ \A y \in 1 .. Len(Deduplicated(s)) : Deduplicated(s)[y].n = Nth(Numbers(s), y)
<1> DEFINE N == Numbers(s)
           First(n) == CHOOSE x \in 1 .. Len(s) :
                         s[x].n = n /\ \A w \in 1 .. (x - 1) : s[w].n # n
           r == [y \in 1 .. Cardinality(N) |-> s[First(Nth(N, y))]]
<1>1. Len(s) \in Nat /\ \A x \in 1 .. Len(s) : s[x] \in E
  OBVIOUS
<1>2. N \in SUBSET (0 .. b)
  BY <1>1 DEF Numbers
<1>3. Cardinality(N) \in Nat
  BY <1>2, BelowFinite
<1>4. ASSUME NEW n \in N
      PROVE  First(n) \in 1 .. Len(s) /\ s[First(n)].n = n
  <2> DEFINE T == {x \in 1 .. Len(s) : s[x].n = n}
  <2>1. T \in SUBSET Nat /\ T # {}
    BY <1>1, <1>4 DEF Numbers
  <2>2. PICK x \in T : \A w \in T : x <= w
    <3> HIDE DEF T
    <3> QED
      BY <2>1, LeastNatural
  <2>3. x \in 1 .. Len(s) /\ s[x].n = n
    BY <2>2
  <2>4. \A w \in 1 .. (x - 1) : s[w].n # n
    <3>1. SUFFICES ASSUME NEW w \in 1 .. (x - 1), s[w].n = n PROVE FALSE
      OBVIOUS
    <3>2. w \in 1 .. Len(s) /\ ~(x <= w)
      BY <1>1, <2>3
    <3> QED
      BY <2>2, <3>1, <3>2
  <2>5. \E z \in 1 .. Len(s) : s[z].n = n /\ \A w \in 1 .. (z - 1) : s[w].n # n
    BY <2>3, <2>4
  <2> QED
    BY <2>5
<1> HIDE DEF First
<1>5. \A y \in 1 .. Cardinality(N) : Nth(N, y) \in N
  BY <1>2, NthInSet
<1>6. \A y \in 1 .. Cardinality(N) : s[First(Nth(N, y))] \in E /\ s[First(Nth(N, y))].n = Nth(N, y)
  BY <1>1, <1>4, <1>5
<1>7. r \in Seq(E) /\ Len(r) = Cardinality(N) /\ \A y \in 1 .. Cardinality(N) : r[y].n = Nth(N, y)
  BY <1>3, <1>6
<1>8. FirstOfEach(s) = r
  BY DEF FirstOfEach, First, Numbers
<1>9. Deduplicated(s) = r
  <2>1. {FirstOfEach(t) : t \in {s}} = {FirstOfEach(s)}
    OBVIOUS
  <2> QED
    BY <1>8, <2>1, ChosenFromOne DEF Deduplicated
<1> HIDE DEF N, r
<1>10. /\ Cardinality(N) \in Nat /\ N \in SUBSET (0 .. b)
       /\ Deduplicated(s) \in Seq(E) /\ Len(Deduplicated(s)) = Cardinality(N)
       /\ \A y \in 1 .. Len(Deduplicated(s)) : Deduplicated(s)[y].n = Nth(N, y)
  BY <1>2, <1>3, <1>7, <1>9
<1> QED
  BY <1>10 DEF N

-----------------------------------------------------------------------------
(* The folds over the scanned L1 blocks *)

\* The local variables of derive_next_batch before the first log.
Start(dv, l1, to) ==
  [blocks |-> <<>>, derived |-> dv.derived, info |-> dv.info,
   cursor |-> <<>>, failed |-> FALSE,
   left |-> ConsumedEvents(l1, dv.processed + 1, to)]

\* What the local variables satisfy at the start, and one log keeps, they
\* satisfy after the scan.
LEMMA ScanStays ==
  ASSUME NEW A, NEW dv, NEW l1, NEW to \in Nat,
         dv.processed \in Nat, dv.processed <= to,
         Start(dv, l1, to) \in A,
         \A i \in dv.processed + 1 .. to : \A acc \in A : ScanL1Block(dv, acc, l1, i) \in A
  PROVE  Scan(dv, l1, to) \in A
<1> DEFINE lo == dv.processed
           local == Start(dv, l1, to)
           F == [i \in lo .. to |-> [acc \in A |-> IF i = lo THEN acc ELSE ScanL1Block(dv, acc, l1, i)]]
           Body(f) == [i \in lo .. to |->
                         IF i = lo THEN local
                         ELSE CHOOSE next \in {ScanL1Block(dv, acc, l1, i) : acc \in {f[i - 1]}} : TRUE]
           f == CHOOSE f : f = Body(f)
<1>1. \A i \in lo .. to : i = lo \/ i \in lo + 1 .. to
  OBVIOUS
<1>2. F \in [lo .. to -> [A -> A]]
  BY <1>1
<1>3. PICK g : IsFold(g, A, local, lo, to, F)
  <2>1. local \in A /\ lo \in Nat /\ lo <= to
    OBVIOUS
  <2> HIDE DEF F, local, lo
  <2> QED
    BY <1>2, <2>1, FoldExists
<1>4. \A acc, i : (CHOOSE next \in {ScanL1Block(dv, a, l1, i) : a \in {acc}} : TRUE) = ScanL1Block(dv, acc, l1, i)
  <2>1. TAKE acc, i
  <2>2. {ScanL1Block(dv, a, l1, i) : a \in {acc}} = {ScanL1Block(dv, acc, l1, i)}
    OBVIOUS
  <2> QED
    BY <2>2, ChosenFromOne
<1>5. /\ g \in [lo .. to -> A]
      /\ \A i \in lo .. to : g[i] = IF i = lo THEN local ELSE F[i][g[i - 1]]
  <2> HIDE DEF F, local, lo
  <2> QED
    BY <1>3 DEF IsFold
<1>6. g = Body(g)
  <2>1. ASSUME NEW i \in lo .. to
        PROVE  g[i] = IF i = lo THEN local ELSE ScanL1Block(dv, g[i - 1], l1, i)
    <3>1. i # lo => i - 1 \in lo .. to
      OBVIOUS
    <3>2. i # lo => g[i - 1] \in A
      BY <1>5, <3>1
    <3> QED
      BY <1>5, <3>2
  <2>2. \A i \in lo .. to : g[i] = Body(g)[i]
    <3> HIDE DEF F, local, lo
    <3> QED
      BY <1>4, <2>1
  <2> HIDE DEF local, lo, F
  <2> QED
    BY <1>5, <2>2
<1>7. f = Body(f)
  <2> HIDE DEF Body
  <2> QED
    BY <1>6
<1>8. Scan(dv, l1, to) = f[to]
  BY DEF Scan, Start
<1>9. f[lo] \in A /\ \A i \in lo + 1 .. to : f[i] = ScanL1Block(dv, f[i - 1], l1, i)
  <2> HIDE DEF f, local
  <2>1. lo \in lo .. to /\ \A i \in lo + 1 .. to : i \in lo .. to /\ i # lo
    OBVIOUS
  <2>2. f[lo] = local
    BY <1>7, <2>1
  <2>3. \A i \in lo + 1 .. to : f[i] = ScanL1Block(dv, f[i - 1], l1, i)
    BY <1>4, <1>7, <2>1
  <2> QED
    BY <2>2, <2>3 DEF local
<1> HIDE DEF f
<1>10. \A i \in lo .. to : f[i] \in A
  <2>1. \A i \in lo + 1 .. to : f[i - 1] \in A => f[i] \in A
    BY <1>9
  <2>2. lo \in Nat /\ lo <= to
    OBVIOUS
  <2> HIDE DEF lo
  <2> QED
    BY <1>9, <2>1, <2>2, FoldStays
<1> QED
  BY <1>8, <1>10

\* The ExecutionConsumed events of a range are counted by a natural number.
LEMMA ConsumedType ==
  ASSUME NEW l1, NEW from \in Nat \ {0}, NEW to \in Nat, from - 1 <= to,
         \A i \in from .. to : l1[i].batch.used \in Nat
  PROVE  ConsumedEvents(l1, from, to) \in Nat
<1> DEFINE lo == from - 1
           F == [i \in lo .. to |-> [n \in Nat |-> IF i = lo THEN n ELSE n + l1[i].batch.used]]
           Body(f) == [i \in lo .. to |-> IF i = lo THEN 0 ELSE f[i - 1] + l1[i].batch.used]
           f == CHOOSE f : f = Body(f)
<1>1. lo \in Nat /\ lo <= to /\ \A i \in lo .. to : i = lo \/ i \in from .. to
  OBVIOUS
<1>2. F \in [lo .. to -> [Nat -> Nat]]
  BY <1>1
<1>3. PICK g : IsFold(g, Nat, 0, lo, to, F)
  <2> HIDE DEF F, lo
  <2> QED
    BY <1>1, <1>2, FoldExists
<1>4. /\ g \in [lo .. to -> Nat]
      /\ \A i \in lo .. to : g[i] = IF i = lo THEN 0 ELSE F[i][g[i - 1]]
  <2> HIDE DEF F, lo
  <2> QED
    BY <1>3 DEF IsFold
<1>5. g = Body(g)
  <2>1. ASSUME NEW i \in lo .. to
        PROVE  g[i] = IF i = lo THEN 0 ELSE g[i - 1] + l1[i].batch.used
    <3>1. i # lo => i - 1 \in lo .. to
      OBVIOUS
    <3>2. i # lo => g[i - 1] \in Nat
      BY <1>4, <3>1
    <3> QED
      BY <1>4, <3>2
  <2> HIDE DEF lo, F
  <2> QED
    BY <1>4, <2>1
<1>6. f = Body(f)
  <2> HIDE DEF Body
  <2> QED
    BY <1>5
<1>7. ConsumedEvents(l1, from, to) = f[to]
  BY DEF ConsumedEvents
<1> HIDE DEF f
<1>8. f[lo] = 0 /\ \A i \in lo + 1 .. to : f[i] = f[i - 1] + l1[i].batch.used
  <2>1. lo \in lo .. to /\ \A i \in lo + 1 .. to : i \in lo .. to /\ i # lo
    OBVIOUS
  <2> HIDE DEF lo
  <2> QED
    BY <1>6, <2>1
<1>9. \A i \in lo + 1 .. to : f[i - 1] \in Nat => f[i] \in Nat
  BY <1>1, <1>8
<1>10. \A i \in lo .. to : f[i] \in Nat
  <2>1. f[lo] \in Nat
    BY <1>8
  <2> HIDE DEF lo, Body
  <2> QED
    BY <1>1, <2>1, <1>9, FoldStays
<1> QED
  BY <1>1, <1>7, <1>10

-----------------------------------------------------------------------------
(* The types of the pipeline: m bounds the block numbers of L1 and of L2, h  *)
(* the hashes and e the entries of a block                                   *)

Infos(m, h) == [l1 : 0 .. m, hash : 0 .. h]
Metas(m, h) == [n : 0 .. m, l1 : 0 .. m, hash : 0 .. h]
L2Blocks(m, h, e) == [ctx : 0 .. m, hash : 0 .. h, k : 0 .. e]
Roots(m, h, e) == {r \in Seq(L2Blocks(m, h, e)) : Len(r) <= m}
BatchBlocks(m, e) == [n : 0 .. m, k : 0 .. e]
Batches(m, h, e) ==
  [blocks : Seq(BatchBlocks(m, e)), ents : Nat, used : Nat, root : Roots(m, h, e)]
L1Blocks(m, h, e) == [hash : 0 .. h, batch : Batches(m, h, e)]
L1Chains(m, h, e) == {s \in Seq(L1Blocks(m, h, e)) : Len(s) <= m}
Pipelines(m, h) ==
  [processed : 0 .. m, derived : 0 .. m, info : Infos(m, h), cursor : Seq(Metas(m, h))]
DerivedBlocks(m, h, e) ==
  [n : 0 .. m, info : Infos(m, h), k : 0 .. e, root : Roots(m, h, e), filt : BOOLEAN]

\* The local variables of derive_next_batch.  The events left are counted down
\* to 0 where they are shared.
Scanning(m, h, e) ==
  {acc \in [blocks : Seq(DerivedBlocks(m, h, e)), derived : 0 .. m, info : Infos(m, h),
            cursor : Seq(Metas(m, h)), failed : BOOLEAN, left : Int] :
     DistinctActions \/ acc.left >= 0}

\* An L1 block has a hash and a context.
LEMMA L1Facts ==
  ASSUME NEW m \in Nat, NEW h \in Nat, NEW e \in Nat,
         NEW l1 \in L1Chains(m, h, e)
  PROVE  /\ Len(l1) \in 0 .. m
         /\ \A i \in 1 .. Len(l1) : l1[i].batch \in Batches(m, h, e) /\ l1[i].hash \in 0 .. h
         /\ \A i \in 0 .. Len(l1) : HashAt(l1, i) \in 0 .. h /\ InfoAt(l1, i) \in Infos(m, h)
<1>1. Len(l1) \in 0 .. m
  BY DEF L1Chains
<1>2. \A i \in 1 .. Len(l1) : l1[i].batch \in Batches(m, h, e) /\ l1[i].hash \in 0 .. h
  <2>1. \A i \in 1 .. Len(l1) : l1[i] \in L1Blocks(m, h, e)
    BY DEF L1Chains
  <2> QED
    BY <2>1 DEF L1Blocks
<1>3. \A i \in 0 .. Len(l1) : HashAt(l1, i) \in 0 .. h
  BY <1>1, <1>2 DEF HashAt
<1> QED
  BY <1>1, <1>2, <1>3 DEF InfoAt, Infos

\* The positions of the blocks of a batch that are not stale.
FreshAt(dv, acc, batch) ==
  {j \in 1 .. Len(batch.blocks) :
     ~ /\ batch.blocks[j].n <= dv.derived
       /\ batch.blocks[j].n <= acc.derived}
Fresh(dv, acc, batch) ==
  Retain([j \in 1 .. Len(batch.blocks) |-> j], FreshAt(dv, acc, batch))

\* The fresh blocks are blocks of the batch.
LEMMA FreshFacts ==
  ASSUME NEW dv, NEW acc, NEW E, NEW batch, batch.blocks \in Seq(E)
  PROVE  LET fresh == Fresh(dv, acc, batch)
             S == FreshAt(dv, acc, batch)
         IN  /\ fresh \in Seq(1 .. Len(batch.blocks)) /\ S \in SUBSET (0 .. Len(batch.blocks))
             /\ Len(fresh) = Cardinality(S)
             /\ \A x \in 1 .. Len(fresh) :
                  fresh[x] \in S /\ fresh[x] \in 1 .. Len(batch.blocks) /\ fresh[x] = Nth(S, x)
<1> DEFINE b == Len(batch.blocks)
           ids == [j \in 1 .. b |-> j]
           S == FreshAt(dv, acc, batch)
<1>1. b \in Nat /\ ids \in Seq(1 .. b) /\ Len(ids) = b
  OBVIOUS
<1>2. S \in SUBSET (1 .. b) /\ S \in SUBSET (0 .. b)
  BY <1>1 DEF FreshAt
<1> HIDE DEF S
<1>3. /\ Retain(ids, S) \in Seq(1 .. b) /\ Len(Retain(ids, S)) = Cardinality(S)
      /\ \A k \in 1 .. Cardinality(S) : Nth(S, k) \in S /\ Retain(ids, S)[k] = ids[Nth(S, k)]
  <2> HIDE DEF ids
  <2> QED
    BY <1>1, <1>2, RetainFacts
<1>4. \A k \in 1 .. Cardinality(S) : Retain(ids, S)[k] = Nth(S, k) /\ Nth(S, k) \in 1 .. b
  BY <1>2, <1>3
<1> QED
  BY <1>2, <1>3, <1>4 DEF Fresh, S

\* How many entries of a batch L1 consumed is a natural number.
LEMMA TakenType ==
  ASSUME NEW m, NEW h, NEW e, NEW acc, acc.left \in Int, DistinctActions \/ acc.left >= 0,
         NEW batch \in Batches(m, h, e)
  PROVE  /\ Events(acc, batch) \in Nat /\ Taken(acc, batch) \in Nat
         /\ DistinctActions \/ acc.left - Taken(acc, batch) >= 0
         /\ acc.left - Taken(acc, batch) \in Int
<1>1. batch.used \in Nat /\ batch.ents \in Nat
  BY DEF Batches
<1>2. Events(acc, batch) \in Nat
  BY <1>1 DEF Events
<1>3. Taken(acc, batch) \in Nat
  BY <1>1, <1>2 DEF Taken
<1>4. DistinctActions \/ Taken(acc, batch) <= acc.left
  BY <1>1, <1>2 DEF Taken, Events
<1> QED
  BY <1>2, <1>3, <1>4

\* A block of a batch has a number and a number of entry transactions.
LEMMA BatchFacts ==
  ASSUME NEW m \in Nat, NEW h \in Nat, NEW e \in Nat, NEW batch \in Batches(m, h, e)
  PROVE  /\ batch.blocks \in Seq(BatchBlocks(m, e)) /\ Len(batch.blocks) \in Nat
         /\ batch.ents \in Nat /\ batch.used \in Nat /\ batch.root \in Roots(m, h, e)
         /\ batch.blocks # <<>> => Len(batch.blocks) \in 1 .. Len(batch.blocks)
         /\ \A j \in 1 .. Len(batch.blocks) :
              batch.blocks[j].n \in 0 .. m /\ batch.blocks[j].k \in 0 .. e
<1>1. batch.blocks \in Seq(BatchBlocks(m, e))
  BY DEF Batches
<1>2. \A j \in 1 .. Len(batch.blocks) : batch.blocks[j] \in BatchBlocks(m, e)
  BY <1>1
<1>3. \A j \in 1 .. Len(batch.blocks) : batch.blocks[j].n \in 0 .. m /\ batch.blocks[j].k \in 0 .. e
  BY <1>2 DEF BatchBlocks
<1>4. Len(batch.blocks) \in Nat /\ (batch.blocks # <<>> => Len(batch.blocks) \in 1 .. Len(batch.blocks))
  BY <1>1
<1>5. batch.ents \in Nat /\ batch.used \in Nat /\ batch.root \in Roots(m, h, e)
  BY DEF Batches
<1> QED
  BY <1>1, <1>3, <1>4, <1>5

\* A root with another number of entries in its last block is a root of the
\* same length.
LEMMA RootWithEntries ==
  ASSUME NEW m \in Nat, NEW h \in Nat, NEW e \in Nat, NEW r \in Roots(m, h, e), NEW k,
         r # <<>> => k \in 0 .. e
  PROVE  /\ [r EXCEPT ![Len(r)].k = k] \in Roots(m, h, e)
         /\ Len([r EXCEPT ![Len(r)].k = k]) = Len(r)
<1> DEFINE E == L2Blocks(m, h, e)
           v == [r[Len(r)] EXCEPT !.k = k]
<1>1. r \in Seq(E) /\ Len(r) <= m /\ Len(r) \in Nat
  BY DEF Roots
<1>2. CASE r = <<>>
  <2>1. [r EXCEPT ![Len(r)].k = k] = <<>>
    BY <1>2
  <2> QED
    BY <1>2, <2>1
<1>3. CASE r # <<>>
  <2>1. Len(r) \in 1 .. Len(r) /\ r[Len(r)] \in E /\ k \in 0 .. e
    BY <1>1, <1>3
  <2>2. v \in E
    BY <2>1 DEF L2Blocks
  <2> HIDE DEF v, E
  <2>3. [r EXCEPT ![Len(r)] = v] \in Seq(E) /\ Len([r EXCEPT ![Len(r)] = v]) = Len(r)
    BY <1>1, <2>1, <2>2
  <2> QED
    BY <1>1, <2>3 DEF Roots, E, v
<1> QED
  BY <1>2, <1>3

\* The root that derivation expects.
LEMMA EffectiveRootType ==
  ASSUME NEW m \in Nat, NEW h \in Nat, NEW e \in Nat, NEW batch \in Batches(m, h, e),
         batch.blocks # <<>>, NEW k \in Nat
  PROVE  EffectiveRoot(batch, k) \in Roots(m, h, e)
<1>1. Filtered(Last(batch.blocks).k, k) \in 0 .. e
  BY BatchFacts DEF Filtered, Last
<1>2. batch.root \in Roots(m, h, e)
  BY BatchFacts
<1> QED
  BY <1>1, <1>2, RootWithEntries DEF EffectiveRoot

\* The blocks that derivation returns have the type of derived blocks.
LEMMA SubmittedType ==
  ASSUME NEW m \in Nat, NEW h \in Nat, NEW e \in Nat, NEW l1 \in L1Chains(m, h, e),
         NEW acc \in Scanning(m, h, e), NEW i \in 1 .. Len(l1),
         NEW j \in 1 .. Len(l1[i].batch.blocks)
  PROVE  SubmittedBlock(acc, l1, i, j) \in DerivedBlocks(m, h, e)
<1> DEFINE batch == l1[i].batch
           b == SubmittedBlock(acc, l1, i, j)
<1>1. batch \in Batches(m, h, e) /\ Len(l1) \in Nat
  BY L1Facts
<1>2. i - 1 \in 0 .. Len(l1)
  BY <1>1
<1>3. InfoAt(l1, i - 1) \in Infos(m, h)
  BY <1>2, L1Facts
<1>4. batch.blocks[j].n \in 0 .. m /\ batch.blocks[j].k \in 0 .. e /\ batch.blocks # <<>>
  BY <1>1, BatchFacts
<1>5. acc.left \in Int /\ (DistinctActions \/ acc.left >= 0)
  BY DEF Scanning
<1> HIDE DEF batch
<1>6. Events(acc, batch) \in Nat /\ Taken(acc, batch) \in Nat
  BY <1>1, <1>5, TakenType
<1>7. Filtered(batch.blocks[j].k, Events(acc, batch)) \in 0 .. e
  BY <1>4, <1>6 DEF Filtered
<1>8. EffectiveRoot(batch, Taken(acc, batch)) \in Roots(m, h, e)
  BY <1>1, <1>4, <1>6, EffectiveRootType
<1>9. <<>> \in Roots(m, h, e)
  BY DEF Roots
<1>10. b.n \in 0 .. m /\ b.info \in Infos(m, h) /\ b.k \in 0 .. e /\ b.root \in Roots(m, h, e)
  BY <1>3, <1>4, <1>7, <1>8, <1>9 DEF SubmittedBlock, batch
<1>11. b.filt \in BOOLEAN /\ b = [n |-> b.n, info |-> b.info, k |-> b.k, root |-> b.root, filt |-> b.filt]
  BY DEF SubmittedBlock
<1> QED
  BY <1>10, <1>11 DEF DerivedBlocks

\* What a log with fresh blocks adds: the gap blocks, its own blocks and their
\* cursor entries.
FirstFresh(dv, acc, batch) == batch.blocks[Fresh(dv, acc, batch)[1]].n
GapBlocks(acc, first) ==
  [g \in 1 .. (first - acc.derived - 1) |-> GapBlock(acc.derived + g, acc.info)]
FreshBlocks(dv, acc, l1, i) ==
  [x \in 1 .. Len(Fresh(dv, acc, l1[i].batch)) |->
     SubmittedBlock(acc, l1, i, Fresh(dv, acc, l1[i].batch)[x])]
FreshMetas(dv, acc, l1, i) ==
  [x \in 1 .. Len(Fresh(dv, acc, l1[i].batch)) |->
     [n |-> l1[i].batch.blocks[Fresh(dv, acc, l1[i].batch)[x]].n, l1 |-> i,
      hash |-> HashAt(l1, i)]]

Counted(acc, batch) == [acc EXCEPT !.left = acc.left - Taken(acc, batch)]
GapTooLarge(acc) == [acc EXCEPT !.failed = TRUE]
Extended(dv, acc, l1, i) ==
  [blocks |-> acc.blocks \o GapBlocks(acc, FirstFresh(dv, acc, l1[i].batch))
                \o FreshBlocks(dv, acc, l1, i),
   derived |-> l1[i].batch.blocks[Last(Fresh(dv, acc, l1[i].batch))].n,
   info |-> InfoAt(l1, i - 1),
   cursor |-> acc.cursor \o FreshMetas(dv, acc, l1, i),
   left |-> acc.left - Taken(acc, l1[i].batch),
   failed |-> FALSE]

\* A log adds its fresh blocks behind the gap or changes no block at all.
LEMMA ScanCases ==
  ASSUME NEW dv, NEW acc, NEW l1, NEW i
  PROVE  LET r == ScanL1Block(dv, acc, l1, i)
         IN  \/ r = acc
             \/ r = Counted(acc, l1[i].batch)
             \/ r = GapTooLarge(acc)
             \/ Fresh(dv, acc, l1[i].batch) # <<>> /\ r = Extended(dv, acc, l1, i)
  BY DEF ScanL1Block, Fresh, FreshAt, FirstFresh, GapBlocks, FreshBlocks, FreshMetas,
         Counted, GapTooLarge, Extended

\* A function on an interval is a sequence.
LEMMA IntervalSeq ==
  ASSUME NEW E, NEW n \in Int, NEW f, f = [g \in 1 .. n |-> f[g]],
         \A g \in 1 .. n : f[g] \in E
  PROVE  f \in Seq(E) /\ (n >= 0 => Len(f) = n) /\ (n < 0 => Len(f) = 0)
<1>1. CASE n >= 0
  <2>1. n \in Nat
    BY <1>1
  <2> QED
    BY <1>1, <2>1
<1>2. CASE n < 0
  <2>1. 1 .. n = {}
    BY <1>2
  <2>2. f = <<>>
    BY <2>1
  <2>3. <<>> \in Seq(E) /\ Len(<<>>) = 0
    OBVIOUS
  <2>4. ~(n >= 0)
    BY <1>2
  <2> QED
    BY <2>2, <2>3, <2>4, Zenon
<1>3. n >= 0 \/ n < 0
  OBVIOUS
<1> QED
  BY <1>1, <1>2, <1>3, Zenon

\* The gap is filled with blocks between the last derived one and the first
\* fresh one.
LEMMA GapFacts ==
  ASSUME NEW m \in Nat, NEW h \in Nat, NEW e \in Nat, NEW acc \in Scanning(m, h, e),
         NEW first \in 0 .. m
  PROVE  LET gap == GapBlocks(acc, first)
         IN  /\ gap \in Seq(DerivedBlocks(m, h, e))
             /\ Len(gap) = IF first - acc.derived - 1 >= 0 THEN first - acc.derived - 1 ELSE 0
             /\ \A g \in 1 .. Len(gap) : gap[g].n = acc.derived + g
<1> DEFINE gap == GapBlocks(acc, first)
           n == first - acc.derived - 1
           D == DerivedBlocks(m, h, e)
<1>1. acc.derived \in 0 .. m /\ acc.info \in Infos(m, h)
  BY DEF Scanning
<1>2. <<>> \in Roots(m, h, e)
  BY DEF Roots
<1>3. \A x \in 0 .. m : GapBlock(x, acc.info) \in D /\ GapBlock(x, acc.info).n = x
  BY <1>1, <1>2 DEF GapBlock, DerivedBlocks
<1>4. \A g \in 1 .. n : acc.derived + g \in 0 .. m
  BY <1>1
<1>5. /\ gap = [g \in 1 .. n |-> gap[g]]
      /\ \A g \in 1 .. n : gap[g] = GapBlock(acc.derived + g, acc.info)
  BY DEF GapBlocks
<1>6. n \in Int
  BY <1>1
<1> HIDE DEF gap, n, D
<1>7. \A g \in 1 .. n : gap[g] \in D /\ gap[g].n = acc.derived + g
  BY <1>3, <1>4, <1>5
<1>8. gap \in Seq(D) /\ (n >= 0 => Len(gap) = n) /\ (n < 0 => Len(gap) = 0)
  BY <1>5, <1>6, <1>7, IntervalSeq
<1>9. Len(gap) = IF n >= 0 THEN n ELSE 0
  BY <1>6, <1>8
<1>10. \A g \in 1 .. Len(gap) : gap[g].n = acc.derived + g
  BY <1>6, <1>7, <1>9
<1> QED
  BY <1>8, <1>9, <1>10 DEF gap, n, D

\* The fresh blocks are derived blocks with the numbers of the batch.
LEMMA FreshBlocksFacts ==
  ASSUME NEW m \in Nat, NEW h \in Nat, NEW e \in Nat, NEW l1 \in L1Chains(m, h, e),
         NEW dv, NEW acc \in Scanning(m, h, e), NEW i \in 1 .. Len(l1)
  PROVE  LET fresh == Fresh(dv, acc, l1[i].batch)
             new == FreshBlocks(dv, acc, l1, i)
         IN  /\ new \in Seq(DerivedBlocks(m, h, e)) /\ Len(new) = Len(fresh)
             /\ \A x \in 1 .. Len(fresh) : new[x].n = l1[i].batch.blocks[fresh[x]].n
             /\ FreshMetas(dv, acc, l1, i) \in Seq(Metas(m, h))
             /\ Len(FreshMetas(dv, acc, l1, i)) = Len(fresh)
<1> DEFINE batch == l1[i].batch
           fresh == Fresh(dv, acc, batch)
           new == FreshBlocks(dv, acc, l1, i)
           metas == FreshMetas(dv, acc, l1, i)
           D == DerivedBlocks(m, h, e)
           M == Metas(m, h)
<1>1. batch \in Batches(m, h, e) /\ HashAt(l1, i) \in 0 .. h /\ Len(l1) \in 0 .. m
  BY L1Facts
<1>2. /\ batch.blocks \in Seq(BatchBlocks(m, e))
      /\ \A j \in 1 .. Len(batch.blocks) : batch.blocks[j].n \in 0 .. m
  BY <1>1, BatchFacts
<1>3. /\ fresh \in Seq(1 .. Len(batch.blocks))
      /\ \A x \in 1 .. Len(fresh) : fresh[x] \in 1 .. Len(batch.blocks)
  BY <1>2, FreshFacts
<1>4. \A x \in 1 .. Len(fresh) : SubmittedBlock(acc, l1, i, fresh[x]) \in D
  BY <1>3, SubmittedType
<1>5. \A x \in 1 .. Len(fresh) :
        [n |-> batch.blocks[fresh[x]].n, l1 |-> i, hash |-> HashAt(l1, i)] \in M
  <2>1. i \in 0 .. m
    BY <1>1
  <2>2. \A x \in 1 .. Len(fresh) : batch.blocks[fresh[x]].n \in 0 .. m
    BY <1>2, <1>3
  <2> QED
    BY <1>1, <2>1, <2>2 DEF Metas
<1>6. \A j : SubmittedBlock(acc, l1, i, j).n = batch.blocks[j].n
  BY DEF SubmittedBlock
<1>7. Len(fresh) \in Nat
  BY <1>3
<1>8. /\ new = [x \in 1 .. Len(fresh) |-> SubmittedBlock(acc, l1, i, fresh[x])]
      /\ metas = [x \in 1 .. Len(fresh) |->
                    [n |-> batch.blocks[fresh[x]].n, l1 |-> i, hash |-> HashAt(l1, i)]]
  BY DEF FreshBlocks, FreshMetas
<1> HIDE DEF new, metas, D, M, fresh
<1>9. new \in Seq(D) /\ Len(new) = Len(fresh)
  BY <1>4, <1>7, <1>8
<1>10. metas \in Seq(M) /\ Len(metas) = Len(fresh)
  BY <1>5, <1>7, <1>8
<1>11. \A x \in 1 .. Len(fresh) : new[x].n = batch.blocks[fresh[x]].n
  BY <1>6, <1>8
<1> QED
  BY <1>9, <1>10, <1>11 DEF new, metas, D, M, fresh

\* One log keeps the local variables typed.
LEMMA ScanBlockType ==
  ASSUME NEW m \in Nat, NEW h \in Nat, NEW e \in Nat, NEW l1 \in L1Chains(m, h, e),
         NEW dv, NEW acc \in Scanning(m, h, e), NEW i \in 1 .. Len(l1)
  PROVE  ScanL1Block(dv, acc, l1, i) \in Scanning(m, h, e)
<1> DEFINE batch == l1[i].batch
           fresh == Fresh(dv, acc, batch)
           left == acc.left - Taken(acc, batch)
           gap == GapBlocks(acc, FirstFresh(dv, acc, batch))
           new == FreshBlocks(dv, acc, l1, i)
           metas == FreshMetas(dv, acc, l1, i)
           D == DerivedBlocks(m, h, e)
           M == Metas(m, h)
           r == ScanL1Block(dv, acc, l1, i)
<1>1. batch \in Batches(m, h, e) /\ Len(l1) \in Nat /\ i - 1 \in 0 .. Len(l1)
  BY L1Facts
<1>2. acc.left \in Int /\ (DistinctActions \/ acc.left >= 0)
      /\ acc.blocks \in Seq(D) /\ acc.cursor \in Seq(M)
  BY DEF Scanning
<1>3. left \in Int /\ (DistinctActions \/ left >= 0)
  <2> HIDE DEF batch
  <2> QED
    BY <1>1, <1>2, TakenType
<1>4. Counted(acc, batch) \in Scanning(m, h, e)
  <2>1. [acc EXCEPT !.left = left] \in Scanning(m, h, e)
    <3> HIDE DEF left
    <3> QED
      BY <1>3 DEF Scanning
  <2> QED
    BY <2>1 DEF Counted
<1>5. GapTooLarge(acc) \in Scanning(m, h, e)
  BY DEF Scanning, GapTooLarge
<1>6. CASE fresh # <<>>
  <2>1. /\ batch.blocks \in Seq(BatchBlocks(m, e))
        /\ \A j \in 1 .. Len(batch.blocks) : batch.blocks[j].n \in 0 .. m
    BY <1>1, BatchFacts
  <2>2. /\ fresh \in Seq(1 .. Len(batch.blocks))
        /\ \A x \in 1 .. Len(fresh) : fresh[x] \in 1 .. Len(batch.blocks)
    BY <2>1, FreshFacts
  <2>3. 1 \in 1 .. Len(fresh) /\ Len(fresh) \in 1 .. Len(fresh)
    <3> HIDE DEF fresh
    <3> QED
      BY <1>6, <2>2
  <2>4. FirstFresh(dv, acc, batch) \in 0 .. m /\ batch.blocks[Last(fresh)].n \in 0 .. m
    BY <2>1, <2>2, <2>3 DEF FirstFresh, Last
  <2>5. gap \in Seq(D)
    BY <2>4, GapFacts
  <2>6. new \in Seq(D) /\ metas \in Seq(M)
    BY FreshBlocksFacts
  <2>7. InfoAt(l1, i - 1) \in Infos(m, h)
    BY <1>1, L1Facts
  <2> DEFINE last == batch.blocks[Last(fresh)].n
             info == InfoAt(l1, i - 1)
  <2>8. acc.blocks \o gap \o new \in Seq(D) /\ acc.cursor \o metas \in Seq(M)
    <3> HIDE DEF gap, new, metas, D, M
    <3> QED
      BY <1>2, <2>5, <2>6
  <2>9. last \in 0 .. m /\ info \in Infos(m, h)
    BY <2>4, <2>7
  <2> HIDE DEF left, last, info, gap, new, metas
  <2>10. [blocks |-> acc.blocks \o gap \o new, derived |-> last, info |-> info,
          cursor |-> acc.cursor \o metas, left |-> left, failed |-> FALSE] \in Scanning(m, h, e)
    <3> DEFINE all == acc.blocks \o gap \o new
               cur == acc.cursor \o metas
    <3> HIDE DEF all, cur
    <3>1. all \in Seq(D) /\ cur \in Seq(M)
      BY <2>8 DEF all, cur
    <3>2. [blocks |-> all, derived |-> last, info |-> info,
           cursor |-> cur, left |-> left, failed |-> FALSE] \in Scanning(m, h, e)
      BY <1>3, <2>9, <3>1 DEF Scanning
    <3> QED
      BY <3>2 DEF all, cur
  <2>11. Extended(dv, acc, l1, i) \in Scanning(m, h, e)
    BY <2>10 DEF Extended, left, last, info, gap, new, metas
  <2> QED
    BY <1>4, <1>5, <2>11, ScanCases
<1> QED
  BY <1>4, <1>5, <1>6, ScanCases

\* The k-th smallest number of an interval.
LEMMA NthOfInterval ==
  ASSUME NEW lo \in Nat, NEW hi \in Nat, lo <= hi + 1
  PROVE  /\ Cardinality(lo .. hi) = hi - lo + 1
         /\ \A k \in 1 .. (hi - lo + 1) : Nth(lo .. hi, k) = lo + k - 1
<1> DEFINE S == lo .. hi
<1>1. Cardinality(S) = IF lo > hi THEN 0 ELSE hi - lo + 1
  BY FS_Interval
<1>2. Cardinality(S) = hi - lo + 1
  BY <1>1
<1>3. S \in SUBSET (0 .. hi)
  OBVIOUS
<1>4. ASSUME NEW k \in 1 .. (hi - lo + 1)
      PROVE  Nth(S, k) = lo + k - 1
  <2> DEFINE x == Nth(S, k)
  <2>1. x \in S /\ Cardinality(Below(S, x)) = k - 1
    <3> HIDE DEF S
    <3> QED
      BY <1>2, <1>3, NthInSet
  <2> HIDE DEF x
  <2>2. \A n \in Int : (n \in lo .. hi /\ n < x) <=> n \in lo .. (x - 1)
    BY <2>1
  <2>3. Below(S, x) = lo .. (x - 1)
    BY <2>2 DEF Below
  <2>4. Cardinality(lo .. (x - 1)) = IF lo > x - 1 THEN 0 ELSE (x - 1) - lo + 1
    BY <2>1, FS_Interval
  <2>5. Cardinality(lo .. (x - 1)) = x - lo
    BY <2>1, <2>4
  <2> QED
    BY <2>1, <2>3, <2>5 DEF x
<1> QED
  BY <1>2, <1>4

-----------------------------------------------------------------------------
(* Derivation leaves no hole *)

\* The blocks of one postBatch call have consecutive numbers.
Consecutive(batch) ==
  \A j \in 1 .. Len(batch.blocks) : batch.blocks[j].n = batch.blocks[1].n + j - 1

\* The numbers derived so far are an interval above `base`, and the pipeline
\* continues from a number in it.
Contiguous(base, acc) ==
  \E top \in Nat : /\ base <= top /\ Numbers(acc.blocks) = base + 1 .. top
                   /\ acc.derived \in base .. top

\* The numbers of a concatenation.
LEMMA ConcatNumbers ==
  ASSUME NEW E, NEW s \in Seq(E), NEW u \in Seq(E)
  PROVE  Numbers(s \o u) = Numbers(s) \cup Numbers(u)
<1> DEFINE r == s \o u
<1>1. /\ r \in Seq(E) /\ Len(r) = Len(s) + Len(u) /\ Len(s) \in Nat /\ Len(u) \in Nat
      /\ \A i \in 1 .. Len(s) : r[i] = s[i]
      /\ \A i \in Len(s) + 1 .. Len(s) + Len(u) : r[i] = u[i - Len(s)]
  BY ConcatElements
<1> HIDE DEF r
<1>2. ASSUME NEW v \in Numbers(r) PROVE v \in Numbers(s) \cup Numbers(u)
  <2>1. PICK i \in 1 .. Len(r) : v = r[i].n
    BY <1>2 DEF Numbers
  <2>2. CASE i \in 1 .. Len(s)
    BY <1>1, <2>1, <2>2 DEF Numbers
  <2>3. CASE i \in Len(s) + 1 .. Len(s) + Len(u)
    <3>1. i - Len(s) \in 1 .. Len(u) /\ v = u[i - Len(s)].n
      BY <1>1, <2>1, <2>3
    <3> QED
      BY <3>1 DEF Numbers
  <2> QED
    BY <1>1, <2>1, <2>2, <2>3
<1>3. ASSUME NEW v \in Numbers(s) PROVE v \in Numbers(r)
  <2>1. PICK i \in 1 .. Len(s) : v = s[i].n
    BY <1>3 DEF Numbers
  <2>2. i \in 1 .. Len(r) /\ v = r[i].n
    BY <1>1, <2>1
  <2> QED
    BY <2>2 DEF Numbers
<1>4. ASSUME NEW v \in Numbers(u) PROVE v \in Numbers(r)
  <2>1. PICK i \in 1 .. Len(u) : v = u[i].n
    BY <1>4 DEF Numbers
  <2>2. Len(s) + i \in Len(s) + 1 .. Len(s) + Len(u) /\ Len(s) + i \in 1 .. Len(r)
        /\ (Len(s) + i) - Len(s) = i
    BY <1>1, <2>1
  <2>3. v = r[Len(s) + i].n
    BY <1>1, <2>1, <2>2
  <2> QED
    BY <2>2, <2>3 DEF Numbers
<1> QED
  BY <1>2, <1>3, <1>4 DEF r

\* A run of consecutive numbers.
LEMMA RunNumbers ==
  ASSUME NEW s, NEW first \in Int, Len(s) \in Nat, \A x \in 1 .. Len(s) : s[x].n = first + x - 1
  PROVE  Numbers(s) = first .. (first + Len(s) - 1)
<1>1. ASSUME NEW v \in Numbers(s) PROVE v \in first .. (first + Len(s) - 1)
  <2>1. PICK i \in 1 .. Len(s) : v = s[i].n
    BY <1>1 DEF Numbers
  <2> QED
    BY <2>1
<1>2. ASSUME NEW v \in first .. (first + Len(s) - 1) PROVE v \in Numbers(s)
  <2>1. v - first + 1 \in 1 .. Len(s) /\ first + (v - first + 1) - 1 = v
    OBVIOUS
  <2>2. s[v - first + 1].n = v
    BY <2>1
  <2> QED
    BY <2>1, <2>2 DEF Numbers
<1> QED
  BY <1>1, <1>2

\* The numbers above D of a run are a run at its end.
LEMMA RunAbove ==
  ASSUME NEW b \in Nat, NEW c \in Nat, NEW base \in Nat, NEW S, S # {},
         \A j : j \in S <=> j \in 1 .. b /\ c + j - 1 > base
  PROVE  \E lo \in 1 .. b : S = lo .. b /\ c + lo - 1 > base
<1>1. CASE c > base
  <2>1. \A j : j \in S <=> j \in 1 .. b
    BY <1>1
  <2>2. S = 1 .. b
    BY <2>1
  <2>3. 1 \in 1 .. b
    BY <2>2
  <2>4. c + 1 - 1 > base
    BY <1>1
  <2> QED
    BY <2>2, <2>3, <2>4
<1>2. CASE c <= base
  <2> DEFINE lo == base - c + 2
  <2>1. lo \in Nat /\ lo >= 1 /\ c + lo - 1 > base
    BY <1>2
  <2>2. \A j \in 1 .. b : c + j - 1 > base <=> j >= lo
    BY <1>2
  <2>3. \A j : j \in S <=> j \in lo .. b
    BY <2>1, <2>2
  <2>4. S = lo .. b
    BY <2>3
  <2>5. lo \in 1 .. b
    BY <2>1, <2>4
  <2> QED
    BY <2>1, <2>4, <2>5
<1> QED
  BY <1>1, <1>2

\* The indices in fresh are those of blocks from some block after base on.
RunAfter(base, blocks, fresh) ==
  \E lo \in 1 .. Len(blocks) :
    /\ Len(fresh) = Len(blocks) - lo + 1
    /\ \A x \in 1 .. Len(fresh) : fresh[x] = lo + x - 1
    /\ blocks[lo].n > base

\* Of a batch with consecutive numbers the fresh blocks are a run at its end.
LEMMA FreshRun ==
  ASSUME NEW m \in Nat, NEW h \in Nat, NEW e \in Nat, NEW batch \in Batches(m, h, e),
         NEW dv, NEW acc, Consecutive(batch), Fresh(dv, acc, batch) # <<>>,
         dv.derived \in Nat, acc.derived \in Nat, dv.derived <= acc.derived
  PROVE  RunAfter(dv.derived, batch.blocks, Fresh(dv, acc, batch))
<1> DEFINE b == Len(batch.blocks)
           fresh == Fresh(dv, acc, batch)
           S == FreshAt(dv, acc, batch)
           c == batch.blocks[1].n
           base == dv.derived
<1>1. /\ batch.blocks \in Seq(BatchBlocks(m, e)) /\ b \in Nat
      /\ \A j \in 1 .. b : batch.blocks[j].n \in 0 .. m
  BY BatchFacts
<1>2. fresh \in Seq(1 .. b) /\ Len(fresh) = Cardinality(S) /\ S \in SUBSET (0 .. b)
  BY <1>1, FreshFacts
<1>3. \A x \in 1 .. Len(fresh) : fresh[x] \in S /\ fresh[x] \in 1 .. b /\ fresh[x] = Nth(S, x)
  BY <1>1, FreshFacts
<1> HIDE DEF fresh
<1>4. Len(fresh) \in Nat /\ 1 \in 1 .. Len(fresh)
  <2>1. fresh # <<>>
    BY DEF fresh
  <2> QED
    BY <1>2, <2>1
<1>5. S # {} /\ 1 \in 1 .. b
  BY <1>1, <1>3, <1>4
<1>6. c \in Nat /\ \A j \in 1 .. b : batch.blocks[j].n = c + j - 1
  BY <1>1, <1>5 DEF Consecutive
<1>7. \A j : j \in S <=> j \in 1 .. b /\ c + j - 1 > base
  <2>1. \A j : j \in S <=> j \in 1 .. b /\ ~(c + j - 1 <= base /\ c + j - 1 <= acc.derived)
    BY <1>6 DEF FreshAt
  <2> HIDE DEF c, S, base
  <2>2. base \in Nat /\ acc.derived \in Nat /\ base <= acc.derived
    BY DEF base
  <2> QED
    BY <1>1, <1>6, <2>1, <2>2
<1> HIDE DEF S
<1>8. PICK lo \in 1 .. b : S = lo .. b /\ c + lo - 1 > base
  <2> HIDE DEF c, b, base
  <2>1. base \in Nat
    BY DEF base
  <2> QED
    BY <1>1, <1>5, <1>6, <1>7, <2>1, RunAbove
<1>9. lo \in Nat /\ lo <= b + 1
  BY <1>1
<1>10. /\ Cardinality(S) = b - lo + 1
       /\ \A k \in 1 .. (b - lo + 1) : Nth(S, k) = lo + k - 1
  <2> HIDE DEF b
  <2> QED
    BY <1>1, <1>8, <1>9, NthOfInterval
<1>11. Len(fresh) = b - lo + 1 /\ \A x \in 1 .. Len(fresh) : fresh[x] = lo + x - 1
  BY <1>2, <1>3, <1>10
<1>12. batch.blocks[lo].n > base
  BY <1>6, <1>8
<1> QED
  BY <1>11, <1>12 DEF fresh, RunAfter

\* The blocks new are numbered first to last, after base.
NumberedAfter(base, first, last, new) ==
  base < first /\ first <= last /\ Numbers(new) = first .. last

\* They carry the numbers of that run.
LEMMA FreshNumbers ==
  ASSUME NEW m \in Nat, NEW h \in Nat, NEW e \in Nat, NEW l1 \in L1Chains(m, h, e),
         NEW dv, NEW acc \in Scanning(m, h, e), NEW i \in 1 .. Len(l1),
         Consecutive(l1[i].batch), Fresh(dv, acc, l1[i].batch) # <<>>,
         dv.derived \in Nat, dv.derived <= acc.derived
  PROVE  LET first == FirstFresh(dv, acc, l1[i].batch)
             last == l1[i].batch.blocks[Last(Fresh(dv, acc, l1[i].batch))].n
         IN  /\ first \in 0 .. m /\ last \in 0 .. m
             /\ NumberedAfter(dv.derived, first, last, FreshBlocks(dv, acc, l1, i))
<1> DEFINE batch == l1[i].batch
           blocks == batch.blocks
           b == Len(blocks)
           fresh == Fresh(dv, acc, batch)
           new == FreshBlocks(dv, acc, l1, i)
<1>1. batch \in Batches(m, h, e)
  BY L1Facts
<1>2. acc.derived \in 0 .. m
  BY DEF Scanning
<1>3. new \in Seq(DerivedBlocks(m, h, e)) /\ Len(new) = Len(fresh)
  BY FreshBlocksFacts
<1>4. \A x \in 1 .. Len(fresh) : new[x].n = blocks[fresh[x]].n
  <2>1. \A j : SubmittedBlock(acc, l1, i, j).n = blocks[j].n
    BY DEF SubmittedBlock
  <2>2. new = [x \in 1 .. Len(fresh) |-> SubmittedBlock(acc, l1, i, fresh[x])]
    BY DEF FreshBlocks
  <2> HIDE DEF new, fresh, blocks
  <2> QED
    BY <2>1, <2>2
<1>5. Consecutive(batch) /\ fresh # <<>>
  OBVIOUS
<1> HIDE DEF new, batch
<1>6. b \in Nat /\ \A j \in 1 .. b : blocks[j].n \in 0 .. m
  BY <1>1, BatchFacts
<1>7. PICK lo \in 1 .. b :
           /\ Len(fresh) = b - lo + 1
           /\ \A x \in 1 .. Len(fresh) : fresh[x] = lo + x - 1
           /\ blocks[lo].n > dv.derived
  <2>1. acc.derived \in Nat /\ Fresh(dv, acc, batch) # <<>> /\ Consecutive(batch)
    BY <1>2, <1>5
  <2>2. RunAfter(dv.derived, blocks, fresh)
    BY <1>1, <2>1, FreshRun
  <2> HIDE DEF fresh, blocks
  <2> QED
    BY <2>2 DEF RunAfter
<1>8. \A j \in 1 .. b : blocks[j].n = blocks[1].n + j - 1
  BY <1>5 DEF Consecutive
<1> DEFINE c == blocks[1].n
           first == blocks[lo].n
           last == blocks[b].n
<1> HIDE DEF fresh, b, blocks
<1>9. c \in 0 .. m /\ first \in 0 .. m /\ last \in 0 .. m
  BY <1>6, <1>7
<1>10. first = c + lo - 1 /\ last = c + b - 1
  BY <1>6, <1>7, <1>8
<1>11. first <= last /\ dv.derived < first
  <2> HIDE DEF first, last, c
  <2>1. first <= last
    BY <1>6, <1>7, <1>9, <1>10
  <2>2. first > dv.derived
    BY <1>7 DEF first
  <2> QED
    BY <1>9, <2>1, <2>2
<1>12. Len(fresh) \in Nat /\ 1 \in 1 .. Len(fresh) /\ Len(fresh) \in 1 .. Len(fresh)
  BY <1>6, <1>7
<1>13. fresh[1] = lo /\ fresh[Len(fresh)] = b
  BY <1>6, <1>7, <1>12
<1>14. FirstFresh(dv, acc, batch) = first /\ blocks[Last(fresh)].n = last
  BY <1>13 DEF FirstFresh, Last, fresh, blocks
<1>15. \A x \in 1 .. Len(new) : new[x].n = first + x - 1
  <2>1. TAKE x \in 1 .. Len(new)
  <2>2. x \in 1 .. Len(fresh) /\ x \in Int
    BY <1>3, <1>12
  <2>3. fresh[x] = lo + x - 1
    BY <1>7, <2>2
  <2>4. lo + x - 1 \in 1 .. b
    BY <1>6, <1>7, <2>2
  <2>5. new[x].n = c + (lo + x - 1) - 1
    BY <1>4, <1>8, <2>2, <2>3, <2>4
  <2> HIDE DEF first, c
  <2>6. c \in Int /\ lo \in Int
    BY <1>7, <1>9
  <2> QED
    BY <1>10, <2>2, <2>5, <2>6
<1> HIDE DEF first, last, c
<1>16. Numbers(new) = first .. (first + Len(new) - 1)
  <2>1. Len(new) \in Nat /\ first \in Int
    BY <1>3, <1>9, <1>12
  <2> QED
    BY <1>15, <2>1, RunNumbers
<1>17. first + Len(new) - 1 = last
  BY <1>3, <1>6, <1>7, <1>9, <1>10
<1> QED
  BY <1>9, <1>11, <1>14, <1>16, <1>17 DEF batch, blocks, fresh, new, NumberedAfter

\* One log keeps the derived numbers contiguous.
LEMMA ScanContiguous ==
  ASSUME NEW m \in Nat, NEW h \in Nat, NEW e \in Nat, NEW l1 \in L1Chains(m, h, e),
         NEW dv, NEW acc \in Scanning(m, h, e), NEW i \in 1 .. Len(l1),
         Consecutive(l1[i].batch), dv.derived \in Nat, Contiguous(dv.derived, acc)
  PROVE  Contiguous(dv.derived, ScanL1Block(dv, acc, l1, i))
<1> DEFINE base == dv.derived
           from == acc.derived
           batch == l1[i].batch
           gap == GapBlocks(acc, FirstFresh(dv, acc, batch))
           new == FreshBlocks(dv, acc, l1, i)
           r == ScanL1Block(dv, acc, l1, i)
           D == DerivedBlocks(m, h, e)
<1>1. PICK top \in Nat : base <= top /\ Numbers(acc.blocks) = base + 1 .. top /\ from \in base .. top
  BY DEF Contiguous
<1>2. acc.blocks \in Seq(D) /\ from \in 0 .. m /\ base \in Nat
  BY DEF Scanning
<1>3. ASSUME NEW s, s.blocks = acc.blocks, s.derived = acc.derived
      PROVE  Contiguous(base, s)
  BY <1>3 DEF Contiguous
<1>4. ASSUME Fresh(dv, acc, batch) # <<>>
      PROVE  Contiguous(base, Extended(dv, acc, l1, i))
  <2>1. PICK first \in 0 .. m, last \in 0 .. m :
           /\ base < first /\ first <= last
           /\ FirstFresh(dv, acc, batch) = first
           /\ batch.blocks[Last(Fresh(dv, acc, batch))].n = last
           /\ Numbers(new) = first .. last
    <3>1. base <= from
      BY <1>1, <1>2
    <3> DEFINE lo == FirstFresh(dv, acc, batch)
               hi == batch.blocks[Last(Fresh(dv, acc, batch))].n
    <3>2. lo \in 0 .. m /\ hi \in 0 .. m /\ NumberedAfter(base, lo, hi, new)
      BY <1>4, <3>1, FreshNumbers
    <3>3. base < lo /\ lo <= hi /\ Numbers(new) = lo .. hi
      BY <3>2 DEF NumberedAfter
    <3> QED
      BY <3>2, <3>3
  <2>2. gap \in Seq(D) /\ new \in Seq(D)
    BY <2>1, GapFacts, FreshBlocksFacts
  <2>3. /\ Len(gap) = IF first - from - 1 >= 0 THEN first - from - 1 ELSE 0
        /\ \A g \in 1 .. Len(gap) : gap[g].n = from + g
    <3> DEFINE filled == GapBlocks(acc, first)
    <3>1. Len(filled) = IF first - from - 1 >= 0 THEN first - from - 1 ELSE 0
      BY GapFacts
    <3>2. \A g \in 1 .. Len(filled) : filled[g].n = from + g
      BY GapFacts
    <3>3. gap = filled
      BY <2>1
    <3> HIDE DEF gap, filled
    <3> QED
      BY <3>1, <3>2, <3>3
  <2>4. Extended(dv, acc, l1, i).blocks = acc.blocks \o gap \o new
        /\ Extended(dv, acc, l1, i).derived = last
    BY <2>1 DEF Extended
  <2> HIDE DEF base, from, gap, new, D
  <2>5. Numbers(gap) = from + 1 .. first - 1
    <3>1. Len(gap) \in Nat /\ from + 1 \in Int
      BY <1>2, <2>1, <2>3
    <3>2. \A g \in 1 .. Len(gap) : gap[g].n = (from + 1) + g - 1
      <4>1. TAKE g \in 1 .. Len(gap)
      <4>2. gap[g].n = from + g /\ g \in Int /\ from \in Int
        BY <1>2, <2>3, <3>1
      <4>3. from + g = (from + 1) + g - 1
        BY <4>2
      <4> QED
        BY <4>2, <4>3
    <3>3. Numbers(gap) = from + 1 .. ((from + 1) + Len(gap) - 1)
      BY <3>1, <3>2, RunNumbers
    <3>4. CASE first - from - 1 >= 0
      <4>1. (from + 1) + Len(gap) - 1 = first - 1
        BY <1>2, <2>1, <2>3, <3>4
      <4> QED
        BY <3>3, <4>1
    <3>5. CASE ~(first - from - 1 >= 0)
      <4>1. Len(gap) = 0
        BY <2>3, <3>5
      <4>2. from + 1 .. ((from + 1) + Len(gap) - 1) = {} /\ from + 1 .. first - 1 = {}
        BY <1>2, <2>1, <3>5, <4>1
      <4> QED
        BY <3>3, <4>2
    <3> QED
      BY <3>4, <3>5
  <2>6. Numbers(acc.blocks \o gap \o new) = Numbers(acc.blocks) \cup Numbers(gap) \cup Numbers(new)
    <3>1. acc.blocks \o gap \in Seq(D)
      BY <1>2, <2>2
    <3>2. Numbers(acc.blocks \o gap) = Numbers(acc.blocks) \cup Numbers(gap)
      BY <1>2, <2>2, ConcatNumbers
    <3> DEFINE front == acc.blocks \o gap
    <3>3. front \in Seq(D) /\ new \in Seq(D)
      BY <2>2, <3>1
    <3> HIDE DEF front
    <3>4. Numbers(front \o new) = Numbers(front) \cup Numbers(new)
      BY <3>3, ConcatNumbers
    <3> QED
      BY <3>2, <3>4 DEF front
  <2> DEFINE newTop == IF top <= last THEN last ELSE top
  <2>7. newTop \in Nat /\ base <= newTop /\ last \in base .. newTop
    BY <1>1, <1>2, <2>1
  <2>8. \A v \in Int : v \in base + 1 .. newTop <=>
          \/ v \in base + 1 .. top
          \/ v \in from + 1 .. first - 1
          \/ v \in first .. last
    <3>1. base \in Nat /\ from \in Nat /\ first \in Nat /\ last \in Nat /\ top \in Nat
          /\ base <= from /\ from <= top /\ base < first /\ first <= last
      BY <1>1, <1>2, <2>1
    <3> QED
      BY <3>1
  <2>9. Numbers(acc.blocks \o gap \o new) = base + 1 .. newTop
    <3> HIDE DEF newTop
    <3>1. Numbers(acc.blocks \o gap \o new) = (base + 1 .. top) \cup (from + 1 .. first - 1) \cup (first .. last)
      BY <1>1, <2>1, <2>5, <2>6
    <3>2. base + 1 .. newTop = (base + 1 .. top) \cup (from + 1 .. first - 1) \cup (first .. last)
      BY <2>8
    <3> QED
      BY <3>1, <3>2
  <2> HIDE DEF newTop
  <2> QED
    BY <2>4, <2>7, <2>9 DEF Contiguous
<1>5. \/ r = acc
      \/ r = Counted(acc, batch)
      \/ r = GapTooLarge(acc)
      \/ Fresh(dv, acc, batch) # <<>> /\ r = Extended(dv, acc, l1, i)
  BY ScanCases
<1>6. /\ Counted(acc, batch).blocks = acc.blocks /\ Counted(acc, batch).derived = acc.derived
      /\ GapTooLarge(acc).blocks = acc.blocks /\ GapTooLarge(acc).derived = acc.derived
  BY DEF Counted, GapTooLarge, Scanning
<1> HIDE DEF r
<1>7. Contiguous(base, r)
  BY <1>3, <1>4, <1>5, <1>6
<1> QED
  BY <1>7 DEF r

-----------------------------------------------------------------------------
(* The whole scan, and derive_next_batch *)

\* The local variables start typed.
LEMMA StartType ==
  ASSUME NEW m \in Nat, NEW h \in Nat, NEW e \in Nat, NEW l1 \in L1Chains(m, h, e),
         NEW dv \in Pipelines(m, h), NEW to \in 0 .. Len(l1), dv.processed <= to
  PROVE  Start(dv, l1, to) \in Scanning(m, h, e)
<1> DEFINE left == ConsumedEvents(l1, dv.processed + 1, to)
<1>1. dv.processed \in Nat /\ dv.derived \in 0 .. m /\ dv.info \in Infos(m, h)
  BY DEF Pipelines
<1>2. Len(l1) \in Nat /\ \A i \in 1 .. Len(l1) : l1[i].batch \in Batches(m, h, e)
  BY L1Facts
<1>3. \A i \in dv.processed + 1 .. to : l1[i].batch.used \in Nat
  <2>1. TAKE i \in dv.processed + 1 .. to
  <2>2. i \in 1 .. Len(l1)
    BY <1>1, <1>2
  <2> QED
    BY <1>2, <2>2, BatchFacts
<1>4. left \in Nat
  <2>1. dv.processed + 1 \in Nat \ {0} /\ (dv.processed + 1) - 1 <= to /\ to \in Nat
    BY <1>1, <1>2
  <2> QED
    BY <1>3, <2>1, ConsumedType
<1> HIDE DEF left
<1> DEFINE s == [blocks |-> <<>>, derived |-> dv.derived, info |-> dv.info,
                 cursor |-> <<>>, failed |-> FALSE, left |-> left]
<1>5. s \in Scanning(m, h, e)
  BY <1>1, <1>4 DEF Scanning
<1> QED
  BY <1>5 DEF Start, left

\* The scan returns typed local variables.
LEMMA ScanType ==
  ASSUME NEW m \in Nat, NEW h \in Nat, NEW e \in Nat, NEW l1 \in L1Chains(m, h, e),
         NEW dv \in Pipelines(m, h), NEW to \in 0 .. Len(l1), dv.processed <= to
  PROVE  Scan(dv, l1, to) \in Scanning(m, h, e)
<1>1. dv.processed \in Nat /\ Len(l1) \in Nat /\ to \in Nat
  BY L1Facts DEF Pipelines
<1>2. Start(dv, l1, to) \in Scanning(m, h, e)
  BY StartType
<1>3. \A i \in dv.processed + 1 .. to : i \in 1 .. Len(l1)
  BY <1>1
<1>4. \A i \in dv.processed + 1 .. to : \A acc \in Scanning(m, h, e) :
        ScanL1Block(dv, acc, l1, i) \in Scanning(m, h, e)
  BY <1>3, ScanBlockType
<1> QED
  BY <1>1, <1>2, <1>4, ScanStays

\* If every batch has consecutive numbers the scan leaves no hole.
LEMMA ScanLeavesNoHole ==
  ASSUME NEW m \in Nat, NEW h \in Nat, NEW e \in Nat, NEW l1 \in L1Chains(m, h, e),
         NEW dv \in Pipelines(m, h), NEW to \in 0 .. Len(l1), dv.processed <= to,
         \A i \in 1 .. Len(l1) : Consecutive(l1[i].batch)
  PROVE  Contiguous(dv.derived, Scan(dv, l1, to))
<1> DEFINE A == {acc \in Scanning(m, h, e) : Contiguous(dv.derived, acc)}
<1>1. dv.processed \in Nat /\ Len(l1) \in Nat /\ to \in Nat /\ dv.derived \in Nat
  BY L1Facts DEF Pipelines
<1>2. Contiguous(dv.derived, Start(dv, l1, to))
  <2>1. Start(dv, l1, to).blocks = <<>> /\ Start(dv, l1, to).derived = dv.derived
    BY DEF Start
  <2>2. Numbers(<<>>) = {} /\ dv.derived + 1 .. dv.derived = {}
    BY <1>1 DEF Numbers
  <2>3. dv.derived \in dv.derived .. dv.derived /\ dv.derived <= dv.derived
    BY <1>1
  <2> QED
    BY <1>1, <2>1, <2>2, <2>3 DEF Contiguous
<1>3. Start(dv, l1, to) \in A
  BY <1>2, StartType
<1>4. \A i \in dv.processed + 1 .. to : i \in 1 .. Len(l1)
  BY <1>1
<1>5. \A i \in dv.processed + 1 .. to : \A acc \in A : ScanL1Block(dv, acc, l1, i) \in A
  BY <1>1, <1>4, ScanBlockType, ScanContiguous
<1> HIDE DEF A
<1>6. Scan(dv, l1, to) \in A
  BY <1>1, <1>3, <1>5, ScanStays
<1> QED
  BY <1>6 DEF A

\* commit_batch bounds the cursor.
LEMMA CappedFacts ==
  ASSUME NEW M, NEW cursor \in Seq(M)
  PROVE  Capped(cursor) \in Seq(M) /\ Len(Capped(cursor)) <= 2 * REORG_CHECK_DEPTH
<1>1. REORG_CHECK_DEPTH \in Nat /\ REORG_CHECK_DEPTH >= 1
  BY PipelineAssumption
<1>2. Len(cursor) \in Nat
  OBVIOUS
<1>3. CASE Len(cursor) <= 2 * REORG_CHECK_DEPTH
  BY <1>3 DEF Capped
<1>4. CASE ~(Len(cursor) <= 2 * REORG_CHECK_DEPTH)
  <2> DEFINE from == Len(cursor) - REORG_CHECK_DEPTH + 1
             r == SubSeq(cursor, from, Len(cursor))
  <2>1. from \in 1 .. Len(cursor) /\ Len(cursor) - from + 1 = REORG_CHECK_DEPTH
    BY <1>1, <1>2, <1>4
  <2> HIDE DEF from
  <2>2. r \in Seq(M) /\ Len(r) = Len(cursor) - from + 1
    BY <1>2, <2>1
  <2>3. REORG_CHECK_DEPTH <= 2 * REORG_CHECK_DEPTH
    BY <1>1
  <2> QED
    BY <1>4, <2>1, <2>2, <2>3 DEF Capped, from
<1> QED
  BY <1>3, <1>4

\* derive_next_batch returns derived blocks and a pipeline.
LEMMA DeriveType ==
  ASSUME NEW m \in Nat, NEW h \in Nat, NEW e \in Nat, NEW l1 \in L1Chains(m, h, e),
         NEW dv \in Pipelines(m, h), Len(dv.cursor) <= 2 * REORG_CHECK_DEPTH
  PROVE  LET r == DeriveNextBatch(dv, l1, Len(l1))
         IN  /\ r.blocks \in Seq(DerivedBlocks(m, h, e))
             /\ r.next \in Pipelines(m, h) /\ Len(r.next.cursor) <= 2 * REORG_CHECK_DEPTH
<1> DEFINE latest == Len(l1)
           r == DeriveNextBatch(dv, l1, latest)
           bound == dv.processed + MAX_LOG_RANGE
           to == IF latest <= bound THEN latest ELSE bound
           acc == Scan(dv, l1, to)
           D == DerivedBlocks(m, h, e)
           M == Metas(m, h)
           blocks == Deduplicated(acc.blocks)
           derived == IF blocks = <<>> THEN acc.derived ELSE Last(blocks).n
           cursor == Capped(dv.cursor \o Deduplicated(acc.cursor))
<1>1. latest \in 0 .. m /\ dv.processed \in Nat /\ dv.cursor \in Seq(M)
  BY L1Facts DEF Pipelines
<1>2. CASE latest <= dv.processed
  BY <1>2 DEF DeriveNextBatch
<1>3. CASE ~(latest <= dv.processed)
  <2>1. to \in 0 .. latest /\ dv.processed <= to /\ to \in 0 .. m
    BY <1>1, <1>3, PipelineAssumption
  <2>2. r = [blocks |-> blocks,
             next |-> [processed |-> to, derived |-> derived, info |-> acc.info, cursor |-> cursor],
             failed |-> acc.failed]
    BY <1>3 DEF DeriveNextBatch
  <2> HIDE DEF to
  <2>3. acc \in Scanning(m, h, e)
    BY <2>1, ScanType
  <2>4. acc.blocks \in Seq(D) /\ acc.derived \in 0 .. m /\ acc.info \in Infos(m, h) /\ acc.cursor \in Seq(M)
    <3> HIDE DEF acc
    <3> QED
      BY <2>3 DEF Scanning
  <2> HIDE DEF acc, r
  <2>5. (\A b \in D : b.n \in 0 .. m) /\ (\A c \in M : c.n \in 0 .. m)
    BY DEF DerivedBlocks, Metas
  <2> HIDE DEF D, M
  <2>6. blocks \in Seq(D) /\ Deduplicated(acc.cursor) \in Seq(M)
    BY <2>4, <2>5, DeduplicatedFacts
  <2>7. cursor \in Seq(M) /\ Len(cursor) <= 2 * REORG_CHECK_DEPTH
    <3>1. dv.cursor \o Deduplicated(acc.cursor) \in Seq(M)
      BY <1>1, <2>6
    <3> QED
      BY <3>1, CappedFacts
  <2> HIDE DEF blocks, cursor
  <2>8. derived \in 0 .. m
    <3>1. blocks # <<>> => blocks[Len(blocks)] \in D
      BY <2>6
    <3> QED
      BY <2>4, <2>5, <3>1 DEF Last
  <2> HIDE DEF derived
  <2> DEFINE next == [processed |-> to, derived |-> derived, info |-> acc.info, cursor |-> cursor]
  <2>9. next \in Pipelines(m, h) /\ next.cursor = cursor
    BY <2>1, <2>4, <2>7, <2>8 DEF Pipelines, M
  <2>10. r.blocks = blocks /\ r.next = next
    BY <2>2
  <2> HIDE DEF next
  <2>11. r.blocks \in Seq(D) /\ r.next \in Pipelines(m, h) /\ Len(r.next.cursor) <= 2 * REORG_CHECK_DEPTH
    BY <2>6, <2>7, <2>9, <2>10
  <2> QED
    BY <2>11 DEF r, D
<1> QED
  BY <1>2, <1>3

\* derive_next_batch fills every gap and drops every duplicate: if the blocks
\* of each batch on L1 have consecutive numbers, the y-th block it returns is
\* the y-th one after the last derived block, and the pipeline it commits
\* stands at the last of them.  This holds for batches that overlap, repeat or
\* skip numbers in any way.
THEOREM DerivesWithoutHoles ==
  ASSUME NEW m \in Nat, NEW h \in Nat, NEW e \in Nat, NEW l1 \in L1Chains(m, h, e),
         NEW dv \in Pipelines(m, h),
         \A i \in 1 .. Len(l1) : Consecutive(l1[i].batch)
  PROVE  LET r == DeriveNextBatch(dv, l1, Len(l1))
         IN  /\ \A y \in 1 .. Len(r.blocks) : r.blocks[y].n = dv.derived + y
             /\ Len(r.blocks) \in Nat /\ r.next.derived = dv.derived + Len(r.blocks)
<1> DEFINE latest == Len(l1)
           r == DeriveNextBatch(dv, l1, latest)
           bound == dv.processed + MAX_LOG_RANGE
           to == IF latest <= bound THEN latest ELSE bound
           acc == Scan(dv, l1, to)
           D == DerivedBlocks(m, h, e)
           base == dv.derived
           blocks == Deduplicated(acc.blocks)
           derived == IF blocks = <<>> THEN acc.derived ELSE Last(blocks).n
<1>1. latest \in 0 .. m /\ dv.processed \in Nat /\ base \in Nat
  BY L1Facts DEF Pipelines
<1>2. CASE latest <= dv.processed
  <2>1. r.blocks = <<>> /\ r.next = dv
    BY <1>2 DEF DeriveNextBatch
  <2> HIDE DEF r
  <2>2. Len(r.blocks) = 0 /\ r.next.derived = dv.derived + 0
    BY <1>1, <2>1
  <2> QED
    BY <2>2 DEF r
<1>3. CASE ~(latest <= dv.processed)
  <2>1. to \in 0 .. latest /\ dv.processed <= to /\ to \in 0 .. m
    BY <1>1, <1>3, PipelineAssumption
  <2>2. r.blocks = blocks /\ r.next.derived = derived
    BY <1>3 DEF DeriveNextBatch
  <2> HIDE DEF to
  <2>3. acc \in Scanning(m, h, e) /\ Contiguous(base, acc)
    BY <2>1, ScanType, ScanLeavesNoHole
  <2> HIDE DEF acc, r
  <2>4. acc.blocks \in Seq(D)
    BY <2>3 DEF Scanning
  <2>5. PICK top \in Nat : base <= top /\ Numbers(acc.blocks) = base + 1 .. top
                           /\ acc.derived \in base .. top
    BY <2>3 DEF Contiguous
  <2>6. \A b \in D : b.n \in 0 .. m
    BY DEF DerivedBlocks
  <2> HIDE DEF D, base
  <2>7. /\ Len(blocks) = Cardinality(Numbers(acc.blocks)) /\ blocks \in Seq(D)
        /\ \A y \in 1 .. Len(blocks) : blocks[y].n = Nth(Numbers(acc.blocks), y)
    BY <2>4, <2>6, DeduplicatedFacts
  <2> HIDE DEF blocks
  <2>8. /\ Cardinality(base + 1 .. top) = top - (base + 1) + 1
        /\ \A k \in 1 .. (top - (base + 1) + 1) : Nth(base + 1 .. top, k) = (base + 1) + k - 1
    <3>1. base + 1 \in Nat /\ base + 1 <= top + 1
      BY <1>1, <2>5
    <3> QED
      BY <3>1, NthOfInterval
  <2>9. Len(blocks) = top - base /\ Len(blocks) \in Nat
    BY <1>1, <2>5, <2>7, <2>8
  <2>10. \A y \in 1 .. Len(blocks) : blocks[y].n = base + y
    <3>1. TAKE y \in 1 .. Len(blocks)
    <3>2. y \in 1 .. (top - (base + 1) + 1) /\ y \in Nat
      BY <1>1, <2>9
    <3>3. blocks[y].n = (base + 1) + y - 1
      BY <2>5, <2>7, <2>8, <3>2
    <3> QED
      BY <1>1, <3>2, <3>3
  <2>11. derived = base + Len(blocks)
    <3>1. CASE blocks = <<>>
      <4>1. Len(blocks) = 0
        BY <3>1
      <4> QED
        BY <1>1, <2>5, <2>9, <3>1, <4>1
    <3>2. CASE blocks # <<>>
      <4>1. Len(blocks) \in 1 .. Len(blocks)
        BY <2>7, <2>9, <3>2
      <4> QED
        BY <2>10, <3>2, <4>1 DEF Last
    <3> QED
      BY <3>1, <3>2
  <2> HIDE DEF derived
  <2> QED
    BY <2>2, <2>9, <2>10, <2>11 DEF base, r
<1> QED
  BY <1>2, <1>3

-----------------------------------------------------------------------------
(* Rollback, pruning and restart *)

\* rollback_to leaves a pipeline with no more cursor entries than before.
LEMMA RollbackType ==
  ASSUME NEW m \in Nat, NEW h \in Nat, NEW dv, dv.cursor \in Seq(Metas(m, h)), NEW b \in 0 .. m
  PROVE  /\ RollbackTo(dv, b) \in Pipelines(m, h) /\ RollbackTo(dv, b).processed = b
         /\ Len(RollbackTo(dv, b).cursor) <= Len(dv.cursor)
<1> DEFINE M == Metas(m, h)
           keep == {i \in 1 .. Len(dv.cursor) : dv.cursor[i].l1 <= b}
           kept == KeptUpTo(dv.cursor, b)
           last == kept[Len(kept)]
           derived == IF kept = <<>> THEN 0 ELSE Last(kept).n
           info == IF kept = <<>> THEN DeploymentInfo ELSE [l1 |-> Last(kept).l1, hash |-> Last(kept).hash]
<1>1. kept = Retain(dv.cursor, keep) /\ keep \in SUBSET (1 .. Len(dv.cursor))
  BY DEF KeptUpTo
<1>2. kept \in Seq(M) /\ Len(kept) <= Len(dv.cursor)
  <2> HIDE DEF keep, kept, M
  <2>1. dv.cursor \in Seq(M)
    BY DEF M
  <2> QED
    BY <1>1, <2>1, RetainFacts
<1>3. RollbackTo(dv, b) = [processed |-> b, derived |-> derived, info |-> info, cursor |-> kept]
  BY DEF RollbackTo
<1> HIDE DEF kept
<1>4. kept # <<>> => last \in M
  <2> HIDE DEF M
  <2> QED
    BY <1>2
<1>5. derived \in 0 .. m
  BY <1>4 DEF Last, Metas
<1>6. info \in Infos(m, h)
  BY <1>4 DEF Last, Metas, Infos, DeploymentInfo
<1> HIDE DEF derived, info
<1>7. [processed |-> b, derived |-> derived, info |-> info, cursor |-> kept] \in Pipelines(m, h)
  BY <1>2, <1>5, <1>6 DEF Pipelines
<1> QED
  BY <1>2, <1>3, <1>7

\* detect_reorg's fork point is an L1 block.
LEMMA ForkPointType ==
  ASSUME NEW m \in Nat, NEW h \in Nat, NEW dv, dv.cursor \in Seq(Metas(m, h)), NEW l1
  PROVE  ForkPoint(dv, l1) \in 0 .. m
<1> DEFINE M == Metas(m, h)
           from == (IF Len(dv.cursor) > REORG_CHECK_DEPTH THEN Len(dv.cursor) - REORG_CHECK_DEPTH ELSE 0) + 1
           entries == Checked(dv.cursor)
           canonical == {i \in 1 .. Len(entries) : entries[i].hash = HashAt(l1, entries[i].l1)}
<1>1. REORG_CHECK_DEPTH \in Nat /\ REORG_CHECK_DEPTH >= 1
  BY PipelineAssumption
<1>2. entries \in Seq(M)
  <2> HIDE DEF M
  <2>1. dv.cursor \in Seq(M)
    BY DEF M
  <2>2. from \in 1 .. Len(dv.cursor) + 1
    BY <1>1, <2>1
  <2> HIDE DEF from
  <2>3. SubSeq(dv.cursor, from, Len(dv.cursor)) \in Seq(M)
    BY <2>1, <2>2
  <2> QED
    BY <2>3 DEF Checked, from
<1>3. ForkPoint(dv, l1) = IF canonical = {} THEN 0 ELSE entries[LastOf(canonical)].l1
  BY DEF ForkPoint
<1> HIDE DEF entries
<1>4. canonical # {} => LastOf(canonical) \in 1 .. Len(entries)
  <2>1. Len(entries) \in Nat /\ canonical \in SUBSET (0 .. Len(entries)) /\ canonical \in SUBSET (1 .. Len(entries))
    BY <1>2
  <2> HIDE DEF canonical
  <2> QED
    BY <2>1, LastOfFacts
<1> HIDE DEF canonical
<1>5. canonical # {} => entries[LastOf(canonical)] \in M
  <2> HIDE DEF M
  <2> QED
    BY <1>2, <1>4
<1> QED
  BY <1>3, <1>5 DEF Metas

\* prune_finalized only removes cursor entries.
LEMMA PruneType ==
  ASSUME NEW m \in Nat, NEW h \in Nat, NEW dv \in Pipelines(m, h), NEW finalized
  PROVE  /\ PruneFinalized(dv, finalized) \in Pipelines(m, h)
         /\ Len(PruneFinalized(dv, finalized).cursor) <= Len(dv.cursor)
<1> DEFINE M == Metas(m, h)
           keep == {i \in 1 .. Len(dv.cursor) : dv.cursor[i].l1 > finalized}
           kept == Retain(dv.cursor, keep)
<1>1. keep \in SUBSET (1 .. Len(dv.cursor)) /\ dv.cursor \in Seq(M)
  BY DEF Pipelines
<1>2. kept \in Seq(M) /\ Len(kept) <= Len(dv.cursor)
  <2> HIDE DEF keep, M
  <2> QED
    BY <1>1, RetainFacts
<1>3. PruneFinalized(dv, finalized) = [dv EXCEPT !.cursor = kept]
  BY DEF PruneFinalized
<1> HIDE DEF kept
<1>4. [dv EXCEPT !.cursor = kept] \in Pipelines(m, h) /\ [dv EXCEPT !.cursor = kept].cursor = kept
  BY <1>2 DEF Pipelines
<1> QED
  BY <1>2, <1>3, <1>4

\* The pipeline rebuilt from the headers after a restart.
LEMMA RestartedType ==
  ASSUME NEW m \in Nat, NEW h \in Nat, NEW e \in Nat, NEW chain \in Roots(m, h, e),
         NEW checkpoint \in 0 .. m
  PROVE  /\ Restarted(checkpoint, chain) \in Pipelines(m, h)
         /\ Len(Restarted(checkpoint, chain).cursor) <= 2 * REORG_CHECK_DEPTH
<1> DEFINE M == Metas(m, h)
           head == Len(chain)
           start == IF head > REORG_CHECK_DEPTH THEN head - REORG_CHECK_DEPTH ELSE 1
           n == head - start + 1
           info == IF head = 0 THEN DeploymentInfo ELSE [l1 |-> chain[head].ctx, hash |-> chain[head].hash]
           cursor == [x \in 1 .. n |-> HeaderMeta(chain, start + x - 1)]
<1>1. REORG_CHECK_DEPTH \in Nat /\ REORG_CHECK_DEPTH >= 1
  BY PipelineAssumption
<1>2. head \in 0 .. m /\ \A x \in 1 .. head : chain[x] \in L2Blocks(m, h, e)
  BY DEF Roots
<1>3. \A x \in 1 .. head : chain[x].ctx \in 0 .. m /\ chain[x].hash \in 0 .. h
  BY <1>2 DEF L2Blocks
<1>4. Restarted(checkpoint, chain) = [processed |-> checkpoint, derived |-> head, info |-> info, cursor |-> cursor]
  BY DEF Restarted
<1> HIDE DEF head
<1>5. n \in Nat /\ n <= 2 * REORG_CHECK_DEPTH /\ start >= 1 /\ \A x \in 1 .. n : start + x - 1 \in 1 .. head
  BY <1>1, <1>2
<1>6. info \in Infos(m, h)
  BY <1>2, <1>3 DEF Infos, DeploymentInfo
<1> HIDE DEF start, n, info
<1>7. \A x \in 1 .. n : HeaderMeta(chain, start + x - 1) \in M
  <2>1. TAKE x \in 1 .. n
  <2>2. start + x - 1 \in 1 .. head /\ start + x - 1 \in 0 .. m
    BY <1>2, <1>5
  <2> QED
    BY <1>3, <2>2 DEF HeaderMeta, Metas
<1>8. cursor \in Seq(M) /\ Len(cursor) = n
  <2> HIDE DEF M
  <2> QED
    BY <1>5, <1>7
<1> HIDE DEF cursor
<1>9. [processed |-> checkpoint, derived |-> head, info |-> info, cursor |-> cursor] \in Pipelines(m, h)
  BY <1>2, <1>6, <1>8 DEF Pipelines
<1> QED
  BY <1>4, <1>5, <1>8, <1>9
=============================================================================
