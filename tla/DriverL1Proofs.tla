---------------------------- MODULE DriverL1Proofs ----------------------------
(***************************************************************************)
(* What the driver remembers of L1, and what L1 holds: the order of the    *)
(* batches on L1, the reorg-detection cursor, the anchor, and what a batch *)
(* carries on the bundle path.                                             *)
(***************************************************************************)
EXTENDS DriverProofs

-----------------------------------------------------------------------------
(* The cursor entries of a scan *)

\* The number n belongs to a block of the batch.
HasBlock(batch, n) == \E x \in 1 .. Len(batch.blocks) : batch.blocks[x].n = n

\* The cursor entries a scan of the L1 blocks from .. to can add.
NewMetas(m, h, chainOfL1, from, to) ==
  {c \in Metas(m, h) : /\ c.l1 \in from .. to /\ c.l1 \in 1 .. Len(chainOfL1)
                       /\ c.hash = HashAt(chainOfL1, c.l1)
                       /\ HasBlock(chainOfL1[c.l1].batch, c.n)}

\* One log adds entries for its own L1 block only.
LEMMA ScanAddsMetas ==
  ASSUME NEW m \in Nat, NEW h \in Nat, NEW e \in Nat, NEW c1 \in L1Chains(m, h, e),
         NEW dv, NEW acc \in Scanning(m, h, e), NEW i \in 1 .. Len(c1),
         NEW from \in Nat, NEW to \in Nat, i \in from .. to,
         acc.cursor \in Seq(NewMetas(m, h, c1, from, to))
  PROVE  ScanL1Block(dv, acc, c1, i).cursor \in Seq(NewMetas(m, h, c1, from, to))
<1> DEFINE N == NewMetas(m, h, c1, from, to)
           batch == c1[i].batch
           fresh == Fresh(dv, acc, batch)
           metas == FreshMetas(dv, acc, c1, i)
           Meta(x) == [n |-> batch.blocks[fresh[x]].n, l1 |-> i, hash |-> HashAt(c1, i)]
<1>1. batch \in Batches(m, h, e) /\ HashAt(c1, i) \in 0 .. h /\ Len(c1) \in 0 .. m
  BY L1Facts
<1>2. /\ batch.blocks \in Seq(BatchBlocks(m, e))
      /\ \A j \in 1 .. Len(batch.blocks) : batch.blocks[j].n \in 0 .. m
  BY <1>1, BatchFacts
<1>3. fresh \in Seq(1 .. Len(batch.blocks)) /\ \A x \in 1 .. Len(fresh) : fresh[x] \in 1 .. Len(batch.blocks)
  BY <1>2, FreshFacts
<1>4. metas = [x \in 1 .. Len(fresh) |-> Meta(x)]
  BY DEF FreshMetas
<1>5. \A x \in 1 .. Len(fresh) : Meta(x) \in N
  <2> SUFFICES ASSUME NEW x \in 1 .. Len(fresh) PROVE Meta(x) \in N
    OBVIOUS
  <2> DEFINE y == fresh[x]
  <2>1. y \in 1 .. Len(batch.blocks)
    BY <1>3
  <2> HIDE DEF y, fresh
  <2>2. batch.blocks[y].n \in 0 .. m /\ i \in 0 .. m
    BY <1>1, <1>2, <2>1
  <2>3. HasBlock(batch, batch.blocks[y].n)
    BY <2>1 DEF HasBlock
  <2>4. [n |-> batch.blocks[y].n, l1 |-> i, hash |-> HashAt(c1, i)] \in N
    BY <1>1, <2>2, <2>3 DEF NewMetas, Metas
  <2> QED
    BY <2>4 DEF y
<1> HIDE DEF Meta, N
<1>6. metas \in Seq(N)
  <2>1. Len(fresh) \in Nat
    BY <1>3
  <2> HIDE DEF fresh, metas
  <2> QED
    BY <1>4, <1>5, <2>1
<1>7. acc.cursor \in Seq(N)
  BY DEF N
<1>8. ScanL1Block(dv, acc, c1, i).cursor \in {acc.cursor, acc.cursor \o metas}
  <2>1. acc \in Scanning(m, h, e)
    OBVIOUS
  <2>2. Counted(acc, batch).cursor = acc.cursor /\ GapTooLarge(acc).cursor = acc.cursor
    BY DEF Counted, GapTooLarge, Scanning
  <2>3. Extended(dv, acc, c1, i).cursor = acc.cursor \o metas
    BY DEF Extended
  <2> QED
    BY <2>2, <2>3, ScanCases
<1> HIDE DEF metas
<1>9. acc.cursor \o metas \in Seq(N)
  BY <1>6, <1>7
<1>10. ScanL1Block(dv, acc, c1, i).cursor \in Seq(N)
  BY <1>7, <1>8, <1>9, Zenon
<1> QED
  BY <1>10 DEF N

\* So does the whole scan, for the L1 blocks it covers.
LEMMA ScanFindsMetas ==
  ASSUME NEW m \in Nat, NEW h \in Nat, NEW e \in Nat, NEW c1 \in L1Chains(m, h, e),
         NEW dv \in Pipelines(m, h), NEW to \in 0 .. Len(c1), dv.processed <= to
  PROVE  Scan(dv, c1, to).cursor \in Seq(NewMetas(m, h, c1, dv.processed + 1, to))
<1> DEFINE N == NewMetas(m, h, c1, dv.processed + 1, to)
           A == {acc \in Scanning(m, h, e) : acc.cursor \in Seq(N)}
<1>1. dv.processed \in Nat /\ Len(c1) \in Nat /\ to \in Nat
  BY L1Facts DEF Pipelines
<1>2. Start(dv, c1, to) \in Scanning(m, h, e) /\ Start(dv, c1, to).cursor \in Seq(N)
  <2>1. Start(dv, c1, to).cursor = <<>>
    BY DEF Start
  <2> HIDE DEF N
  <2> QED
    BY <2>1, StartType
<1>3. \A i \in dv.processed + 1 .. to : \A acc \in A : ScanL1Block(dv, acc, c1, i) \in A
  <2> SUFFICES ASSUME NEW i \in dv.processed + 1 .. to, NEW acc \in A
               PROVE  ScanL1Block(dv, acc, c1, i) \in A
    OBVIOUS
  <2>1. i \in 1 .. Len(c1) /\ acc \in Scanning(m, h, e) /\ acc.cursor \in Seq(N)
        /\ dv.processed + 1 \in Nat
    BY <1>1
  <2>2. ScanL1Block(dv, acc, c1, i).cursor \in Seq(N)
    BY <1>1, <2>1, ScanAddsMetas
  <2> HIDE DEF N
  <2> QED
    BY <2>1, <2>2, ScanBlockType
<1>4. Start(dv, c1, to) \in A
  BY <1>2
<1> HIDE DEF A
<1>5. Scan(dv, c1, to) \in A
  BY <1>1, <1>3, <1>4, ScanStays
<1> QED
  BY <1>5 DEF A

-----------------------------------------------------------------------------
(* The batches on L1 *)

\* The L1 blocks with a batch of blocks, and the number of the last confirmed
\* L2 block.
Posts == {i \in 1 .. Len(l1) : l1[i].batch.blocks # <<>>}
Top == Len(OnChainRoot)

\* The numbers of a later L1 block are above those of an earlier one.
Ascending ==
  \A i, j \in 1 .. Len(l1) : i < j =>
    \A n, o \in Nat : HasBlock(l1[i].batch, n) /\ HasBlock(l1[j].batch, o) => n < o

\* The root posted with a batch is that of its last block.
RootOfLast(batch) == batch.blocks # <<>> => Last(batch.blocks).n = Len(batch.root)

PostsInOrder == Ascending /\ \A i \in 1 .. Len(l1) : RootOfLast(l1[i].batch)

\* The types of L1.
LEMMA L1Data ==
  ASSUME L1Typed
  PROVE  /\ l1 \in Seq(L1Blocks(MaxL1, MaxReorgs, MaxEntries)) /\ Len(l1) \in 0 .. MaxL1
         /\ \A i \in 1 .. Len(l1) :
              /\ l1[i].batch \in Batches(MaxL1, MaxReorgs, MaxEntries)
              /\ l1[i].hash \in 0 .. MaxReorgs /\ Consecutive(l1[i].batch)
<1>1. l1 \in L1Chains(MaxL1, MaxReorgs, MaxEntries) /\ \A i \in 1 .. Len(l1) : Consecutive(l1[i].batch)
  BY DEF L1Typed, Chains
<1>2. l1 \in Seq(L1Blocks(MaxL1, MaxReorgs, MaxEntries))
  BY <1>1 DEF L1Chains
<1> QED
  BY <1>1, <1>2, Bounds, L1Facts

\* The last post determines the root.
LEMMA LastPost ==
  ASSUME L1Typed
  PROVE  /\ Posts = {} => OnChainRoot = <<>>
         /\ Posts # {} => /\ LastOf(Posts) \in Posts /\ \A i \in Posts : i <= LastOf(Posts)
                          /\ OnChainRoot = l1[LastOf(Posts)].batch.root
<1>1. OnChainRoot = IF Posts = {} THEN <<>> ELSE l1[LastOf(Posts)].batch.root
  BY DEF OnChainRoot, ContractRoot, Posts
<1>2. Len(l1) \in Nat /\ Posts \in SUBSET (0 .. Len(l1))
  BY L1Data DEF Posts
<1>3. Posts # {} => LastOf(Posts) \in Posts /\ \A i \in Posts : i <= LastOf(Posts)
  BY <1>2, LastOfFacts
<1> QED
  BY <1>1, <1>3

\* The numbers of a batch are natural numbers from the first to the last one.
LEMMA BatchNumbers ==
  ASSUME NEW batch \in Batches(MaxL1, MaxReorgs, MaxEntries), Consecutive(batch)
  PROVE  /\ \A n : HasBlock(batch, n) =>
              /\ n \in 0 .. MaxL1 /\ batch.blocks # <<>>
              /\ batch.blocks[1].n <= n /\ n <= Last(batch.blocks).n
         /\ batch.blocks # <<>> =>
              /\ HasBlock(batch, batch.blocks[1].n) /\ HasBlock(batch, Last(batch.blocks).n)
              /\ batch.blocks[1].n \in Nat /\ Last(batch.blocks).n \in Nat
<1> DEFINE b == Len(batch.blocks)
<1>1. b \in Nat /\ (\A j \in 1 .. b : batch.blocks[j].n \in 0 .. MaxL1) /\ (batch.blocks # <<>> => b \in 1 .. b)
  BY Bounds, BatchFacts
<1>2. \A j \in 1 .. b : batch.blocks[j].n = batch.blocks[1].n + j - 1
  BY DEF Consecutive
<1>3. batch.blocks # <<>> => 1 \in 1 .. b /\ b \in 1 .. b
  BY <1>1
<1>4. 1 \in 1 .. b => batch.blocks # <<>>
  BY <1>1
<1> HIDE DEF b
<1>5. ASSUME NEW n, HasBlock(batch, n)
      PROVE  /\ n \in 0 .. MaxL1 /\ batch.blocks # <<>>
             /\ batch.blocks[1].n <= n /\ n <= Last(batch.blocks).n
  <2>1. PICK x \in 1 .. b : batch.blocks[x].n = n
    BY <1>5 DEF HasBlock, b
  <2>2. 1 \in 1 .. b /\ b \in 1 .. b /\ x \in Int /\ 1 <= x /\ x <= b
    BY <1>1, <2>1
  <2>3. Last(batch.blocks).n = batch.blocks[b].n
    BY DEF Last, b
  <2>4. batch.blocks[b].n = batch.blocks[1].n + b - 1 /\ n = batch.blocks[1].n + x - 1
    BY <1>2, <2>1, <2>2
  <2>5. batch.blocks[1].n \in 0 .. MaxL1 /\ n \in 0 .. MaxL1
    BY <1>1, <2>1, <2>2
  <2> QED
    BY <1>1, <1>4, <2>2, <2>3, <2>4, <2>5, Bounds
<1>6. batch.blocks # <<>> =>
        /\ HasBlock(batch, batch.blocks[1].n) /\ HasBlock(batch, Last(batch.blocks).n)
        /\ batch.blocks[1].n \in Nat /\ Last(batch.blocks).n \in Nat
  BY <1>1, <1>3, Bounds DEF HasBlock, Last, b
<1> QED
  BY <1>5, <1>6

\* No number on L1 is above that of the root.
LEMMA NumbersUpToTop ==
  ASSUME L1Typed, PostsInOrder
  PROVE  /\ Top \in Nat
         /\ \A i \in 1 .. Len(l1) : \A n : HasBlock(l1[i].batch, n) => n \in Nat /\ n <= Top
<1>1. OnChainRoot \in Blocks /\ Top \in Nat
  BY OnChainRootType, BlockFacts DEF Top
<1>2. ASSUME NEW i \in 1 .. Len(l1), NEW n, HasBlock(l1[i].batch, n)
      PROVE  n \in Nat /\ n <= Top
  <2>1. l1[i].batch \in Batches(MaxL1, MaxReorgs, MaxEntries) /\ Consecutive(l1[i].batch)
    BY L1Data
  <2>2. n \in Nat /\ l1[i].batch.blocks # <<>>
    BY <1>2, <2>1, BatchNumbers, Bounds
  <2>3. i \in Posts
    BY <2>2 DEF Posts
  <2> DEFINE p == LastOf(Posts)
  <2>4. p \in 1 .. Len(l1) /\ l1[p].batch.blocks # <<>> /\ i <= p /\ Top = Len(l1[p].batch.root)
    BY <2>3, LastPost DEF Posts, Top
  <2> HIDE DEF p
  <2>5. l1[p].batch \in Batches(MaxL1, MaxReorgs, MaxEntries) /\ Consecutive(l1[p].batch)
        /\ Last(l1[p].batch.blocks).n = Top
    BY <2>4, L1Data DEF PostsInOrder, RootOfLast
  <2>6. HasBlock(l1[p].batch, Top)
    BY <2>4, <2>5, BatchNumbers
  <2>7. CASE i = p
    BY <1>2, <2>2, <2>5, <2>7, BatchNumbers
  <2>8. CASE i # p
    <3>1. i < p
      BY <2>4, <2>8, L1Data
    <3>2. n < Top
      BY <1>1, <1>2, <2>2, <2>4, <2>6, <3>1 DEF PostsInOrder, Ascending
    <3> QED
      BY <1>1, <2>2, <3>2
  <2> QED
    BY <2>7, <2>8
<1> QED
  BY <1>1, <1>2

\* No block carries a number when there is no batch.
LEMMA NothingPosted == \A n : ~HasBlock(NoBatch, n)
<1>1. 1 .. Len(NoBatch.blocks) = {}
  BY DEF NoBatch
<1> QED
  BY <1>1 DEF HasBlock

\* The hashes of the L1 blocks are those of the reorganisations so far.
HashesSpent == \A i \in 1 .. Len(l1) : l1[i].hash <= used.reorgs

\* What holds of L1 whatever the driver does.
L1Inv == PostsInOrder /\ HashesSpent

\* An L1 block stays, or it gets a hash that was never there.
StaysOrIsNew ==
  /\ Len(l1') \in Nat /\ Len(l1') >= Len(l1)
  /\ used'.reorgs \in Nat /\ used'.reorgs >= used.reorgs
  /\ \A i \in 1 .. Len(l1) : l1'[i] = l1[i] \/ l1'[i].hash > used.reorgs

\* The reorganisations are counted.
LEMMA ReorgsGrow ==
  ASSUME Types, [Next]_vars
  PROVE  used'.reorgs = 0 => used.reorgs = 0
<1>1. used \in Spent
  BY TypeFacts
<1>2. \/ used' = used \/ used' = [used EXCEPT !.faults = used.faults + 1]
      \/ used' = [used EXCEPT !.reorgs = used.reorgs + 1]
      \/ used' = [used EXCEPT !.crashes = used.crashes + 1]
  <2>1. CASE L1Next
    BY <2>1, L1Spends
  <2>2. CASE RestartNext
    BY <2>2 DEF RestartNext, Crash, Shutdown, Restart
  <2>3. CASE StepNext \/ FlushNext
    BY <2>3, FaultsGrow DEF Fault, NoFault, Next
  <2>4. CASE UNCHANGED vars
    BY <2>4 DEF vars
  <2> QED
    BY <2>1, <2>2, <2>3, <2>4 DEF Next
<1> QED
  BY <1>1, <1>2, Bounds DEF Spent

\* A reorganisation is counted.
LEMMA ReorgIsCounted ==
  ASSUME Types, NEW i, L1Reorgs(i)
  PROVE  used'.reorgs # 0
<1>1. PICK at, batch : L1Reorg(i, at, batch)
  BY ReorgCases
<1>2. used' = [used EXCEPT !.reorgs = used.reorgs + 1] /\ used \in Spent
  BY <1>1, TypeFacts DEF L1Reorg
<1>3. used'.reorgs = used.reorgs + 1 /\ used.reorgs \in Nat
  BY <1>2, Bounds DEF Spent
<1> QED
  BY <1>3

\* A batch that continues what is on L1 is mined.
LEMMA MinedInOrder ==
  ASSUME Types, L1Inv, NEW batch \in Batches(MaxL1, MaxReorgs, MaxEntries), Consecutive(batch),
         Continues(l1, batch), Mined(batch)
  PROVE  L1Inv' /\ StaysOrIsNew
<1> DEFINE b == [hash |-> used.reorgs, batch |-> batch]
           m == Len(l1)
<1>1. l1' = Append(l1, b) /\ used' = used
  BY DEF Mined
<1>2. L1Typed /\ l1 \in Seq(L1Blocks(MaxL1, MaxReorgs, MaxEntries)) /\ m \in Nat
  BY TypeFacts, L1Data
<1>3. b.batch = batch /\ b.hash = used.reorgs
  OBVIOUS
<1>4. used.reorgs \in Nat
  BY TypeFacts, Bounds DEF Spent
<1> HIDE DEF b
<1>5. Len(l1') = m + 1 /\ (\A i \in 1 .. m : l1'[i] = l1[i]) /\ l1'[m + 1] = b
  BY <1>1, <1>2
<1>6. Top \in Nat /\ \A i \in 1 .. m : \A n : HasBlock(l1[i].batch, n) => n \in Nat /\ n <= Top
  BY <1>2, NumbersUpToTop DEF L1Inv
<1>7. \A n : HasBlock(batch, n) => n > Top
  <2> SUFFICES ASSUME NEW n, HasBlock(batch, n) PROVE n > Top
    OBVIOUS
  <2>1. n \in 0 .. MaxL1 /\ batch.blocks # <<>> /\ batch.blocks[1].n <= n /\ batch.blocks[1].n \in Nat
    BY BatchNumbers
  <2>2. batch.blocks[1].n > Top
    BY <2>1 DEF Continues, Top, OnChainRoot
  <2> QED
    BY <1>6, <2>1, <2>2, Bounds
<1> HIDE DEF m
<1>8. \A i \in 1 .. m + 1 : i \in 1 .. m \/ i = m + 1
  BY <1>2 DEF m
<1>9. Ascending'
  <2> SUFFICES ASSUME NEW i \in 1 .. Len(l1'), NEW j \in 1 .. Len(l1'), i < j,
                      NEW n \in Nat, NEW o \in Nat,
                      HasBlock(l1'[i].batch, n), HasBlock(l1'[j].batch, o)
               PROVE  n < o
    BY DEF Ascending, HasBlock
  <2>1. i \in 1 .. m /\ l1'[i] = l1[i]
    BY <1>2, <1>5, <1>8 DEF m
  <2>2. CASE j \in 1 .. m
    <3>1. HasBlock(l1[i].batch, n) /\ HasBlock(l1[j].batch, o)
      BY <1>5, <2>1, <2>2
    <3> QED
      BY <2>1, <2>2, <3>1 DEF L1Inv, PostsInOrder, Ascending, m
  <2>3. CASE j = m + 1
    <3>1. HasBlock(l1[i].batch, n) /\ HasBlock(batch, o)
      BY <1>3, <1>5, <2>1, <2>3
    <3>2. n <= Top /\ o > Top
      BY <1>6, <1>7, <2>1, <3>1 DEF m
    <3> QED
      BY <1>6, <3>2
  <2> QED
    BY <1>5, <1>8, <2>2, <2>3
<1>10. \A i \in 1 .. Len(l1') : RootOfLast(l1'[i].batch)
  <2>1. \A i \in 1 .. m : RootOfLast(l1[i].batch)
    BY DEF L1Inv, PostsInOrder, m
  <2>2. RootOfLast(batch)
    BY DEF Continues, RootOfLast
  <2> QED
    BY <1>3, <1>5, <1>8, <2>1, <2>2
<1>11. HashesSpent'
  <2>1. \A i \in 1 .. m : l1[i].hash <= used.reorgs
    BY DEF L1Inv, HashesSpent, m
  <2> QED
    BY <1>1, <1>3, <1>4, <1>5, <1>8, <2>1 DEF HashesSpent
<1>12. StaysOrIsNew
  BY <1>1, <1>2, <1>4, <1>5 DEF StaysOrIsNew, m
<1> QED
  BY <1>9, <1>10, <1>11, <1>12 DEF L1Inv, PostsInOrder

\* A transaction of this builder fits the root it was computed for.
LEMMA IncludedContinues ==
  ASSUME NEW tx \in Txs, NEW batch, Accepts(l1, tx), L1Typed, batch.blocks = BlocksOf(tx),
         batch.blocks # <<>> => /\ tx.first # 0 /\ batch.blocks[1].n = tx.first
                                /\ Last(batch.blocks).n = Len(batch.root)
  PROVE  Continues(l1, batch)
<1>0. OnChainRoot = ContractRoot(l1)
  BY DEF OnChainRoot
<1> SUFFICES ASSUME batch.blocks # <<>>
             PROVE  batch.blocks[1].n > Len(OnChainRoot) /\ Last(batch.blocks).n = Len(batch.root)
  BY <1>0 DEF Continues
<1> DEFINE r == tx.root
           f == tx.first
<1>1. r \in Blocks /\ f \in Nat /\ f # 0 /\ Len(r) \in Nat
  BY BlockFacts, Bounds DEF Txs, L2Number
<1>2. f <= Len(r)
  <2>1. batch.blocks = [j \in 1 .. (Len(r) - f + 1) |->
          [n |-> f + j - 1, k |-> r[f + j - 1].k]]
    BY <1>1 DEF BlocksOf
  <2>2. ~(f <= Len(r)) => 1 .. (Len(r) - f + 1) = {}
    BY <1>1
  <2> QED
    BY <2>1, <2>2
<1>3. r \in Seq(L2Blocks(MaxL1, MaxReorgs, MaxEntries))
  BY <1>1 DEF Blocks, Roots
<1> HIDE DEF r, f
<1>4. Len(SubSeq(r, 1, f - 1)) = f - 1
  <2> DEFINE E == L2Blocks(MaxL1, MaxReorgs, MaxEntries)
  <2> HIDE DEF E
  <2>1. r \in Seq(E)
    BY <1>3 DEF E
  <2> QED
    BY <1>1, <1>2, <2>1
<1>5. Len(OnChainRoot) = f - 1
  BY <1>0, <1>1, <1>4 DEF Accepts, r, f
<1> QED
  BY <1>1, <1>5 DEF f

\* What happens on L1 keeps it in order; only a reorganisation may not.
LEMMA L1InOrder ==
  ASSUME Types, L1Inv, L1Next, used'.reorgs = 0
  PROVE  L1Inv' /\ StaysOrIsNew
<1>1. CASE L1Mine
  <2>1. Consecutive(NoBatch) /\ Continues(l1, NoBatch) /\ NoBatch \in Batches(MaxL1, MaxReorgs, MaxEntries)
    BY InitialValues DEF Consecutive, Continues, NoBatch
  <2>2. Mined(NoBatch)
    BY <1>1 DEF L1Mine
  <2> QED
    BY <2>1, <2>2, MinedInOrder
<1>2. ASSUME NEW tx \in mempool, NEW consumed \in 0 .. Consumable(tx), L1Include(tx, consumed)
      PROVE  L1Inv' /\ StaysOrIsNew
  <2> DEFINE batch == BatchOf(tx, consumed)
  <2>1. tx \in Txs /\ L1Typed
    BY TypeFacts
  <2>2. batch \in Batches(MaxL1, MaxReorgs, MaxEntries) /\ Consecutive(batch)
        /\ (batch.blocks # <<>> => /\ tx.first # 0 /\ batch.blocks[1].n = tx.first
                                   /\ Last(batch.blocks).n = Len(batch.root))
    BY <2>1, IncludedType
  <2>3. Mined(batch) /\ Accepts(l1, tx)
    BY <1>2 DEF L1Include
  <2>4. batch.blocks = BlocksOf(tx)
    BY DEF BatchOf
  <2> HIDE DEF batch
  <2>5. Continues(l1, batch)
    BY <2>1, <2>2, <2>3, <2>4, IncludedContinues
  <2> QED
    BY <2>2, <2>3, <2>5, MinedInOrder
<1>3. ASSUME NEW gap \in 0 .. MaxGap, NEW count \in 1 .. MAX_BATCH_SIZE,
             NEW ents \in 0 .. MaxEntries, NEW consumed \in 0 .. ents,
             L1ForeignBatch(ForeignBatch(l1, gap, count, ents, consumed))
      PROVE  L1Inv' /\ StaysOrIsNew
  <2> DEFINE batch == ForeignBatch(l1, gap, count, ents, consumed)
  <2>1. Mined(batch) /\ ForeignFits(l1, batch)
    BY <1>3 DEF L1ForeignBatch
  <2>2. l1 \in Chains
    BY TypeFacts DEF L1Typed
  <2>3. batch \in Batches(MaxL1, MaxReorgs, MaxEntries) /\ Consecutive(batch) /\ Continues(l1, batch)
    BY <2>1, <2>2, ForeignType
  <2> HIDE DEF batch
  <2> QED
    BY <2>1, <2>3, MinedInOrder
<1>4. ~ \E i \in 1 .. Len(l1) : L1Reorgs(i)
  BY ReorgIsCounted
<1> QED
  BY <1>1, <1>2, <1>3, <1>4 DEF L1Next

-----------------------------------------------------------------------------
(* The cursor *)

\* The entries are in order, in both coordinates.
Sorted(cursor) ==
  \A i, j \in 1 .. Len(cursor) : i < j =>
    /\ cursor[i].n < cursor[j].n
    /\ cursor[i].l1 <= cursor[j].l1

\* The entry was there at the L1 block it names, unless that block was replaced.
Recalled(chainOfL1, spent, c) ==
  /\ c.l1 \in 1 .. Len(chainOfL1) /\ c.hash <= spent
  /\ chainOfL1[c.l1].hash = c.hash => HasBlock(chainOfL1[c.l1].batch, c.n)

\* What a pipeline that has processed the L1 blocks up to b may remember.
Remembers(chainOfL1, spent, cursor, b) ==
  /\ Sorted(cursor)
  /\ \A i \in 1 .. Len(cursor) : Recalled(chainOfL1, spent, cursor[i]) /\ cursor[i].l1 <= b

\* What stays of a sorted cursor, in its old order, is sorted.
LEMMA PartsSorted ==
  ASSUME NEW cursor, NEW kept, NEW f, Sorted(cursor), Len(kept) \in Nat,
         \A k \in 1 .. Len(kept) : f[k] \in 1 .. Len(cursor) /\ kept[k] = cursor[f[k]],
         \A j, k \in 1 .. Len(kept) : j < k => f[j] < f[k]
  PROVE  Sorted(kept)
  BY DEF Sorted

\* So a retain keeps what is remembered.
LEMMA RetainRemembers ==
  ASSUME NEW M, NEW cursor \in Seq(M), NEW keep \in SUBSET (1 .. Len(cursor)),
         NEW c1, NEW spent, NEW b, Remembers(c1, spent, cursor, b)
  PROVE  /\ Remembers(c1, spent, Retain(cursor, keep), b)
         /\ \A k \in 1 .. Len(Retain(cursor, keep)) : \E i \in keep : Retain(cursor, keep)[k] = cursor[i]
<1> DEFINE kept == Retain(cursor, keep)
           f == [k \in 1 .. Len(kept) |-> Nth(keep, k)]
<1>1. /\ Len(kept) = Cardinality(keep) /\ Len(kept) \in Nat
      /\ \A k \in 1 .. Len(kept) : Nth(keep, k) \in keep /\ kept[k] = cursor[Nth(keep, k)]
  BY RetainFacts
<1>2. Len(cursor) \in Nat /\ keep \in SUBSET (0 .. Len(cursor))
  OBVIOUS
<1>3. \A j, k \in 1 .. Len(kept) : j < k => Nth(keep, j) < Nth(keep, k)
  BY <1>1, <1>2, NthIncreasing
<1> HIDE DEF kept
<1>4. \A k \in 1 .. Len(kept) : f[k] \in 1 .. Len(cursor) /\ kept[k] = cursor[f[k]]
  BY <1>1
<1>5. \A j, k \in 1 .. Len(kept) : j < k => f[j] < f[k]
  BY <1>3
<1> HIDE DEF f
<1>6. Sorted(cursor) /\ \A i \in 1 .. Len(cursor) : Recalled(c1, spent, cursor[i]) /\ cursor[i].l1 <= b
  BY DEF Remembers
<1>7. Sorted(kept)
  BY <1>1, <1>4, <1>5, <1>6, PartsSorted
<1>8. Remembers(c1, spent, kept, b)
  BY <1>4, <1>6, <1>7 DEF Remembers
<1> QED
  BY <1>1, <1>8 DEF kept

\* rollback_to: what is left is at or below the new position.
LEMMA RollbackRemembers ==
  ASSUME NEW M, NEW dv, dv.cursor \in Seq(M), NEW c1, NEW spent, NEW a, NEW b,
         Remembers(c1, spent, dv.cursor, a)
  PROVE  Remembers(c1, spent, RollbackTo(dv, b).cursor, RollbackTo(dv, b).processed)
<1> DEFINE keep == {i \in 1 .. Len(dv.cursor) : dv.cursor[i].l1 <= b}
           kept == Retain(dv.cursor, keep)
<1>1. RollbackTo(dv, b).cursor = kept /\ RollbackTo(dv, b).processed = b
  BY DEF RollbackTo, KeptUpTo
<1>2. \A i \in keep : dv.cursor[i].l1 <= b
  OBVIOUS
<1>3. keep \in SUBSET (1 .. Len(dv.cursor))
  OBVIOUS
<1> HIDE DEF keep
<1>4. /\ Remembers(c1, spent, kept, a)
      /\ \A k \in 1 .. Len(kept) : \E i \in keep : kept[k] = dv.cursor[i]
  BY <1>3, RetainRemembers
<1> HIDE DEF kept
<1>5. Remembers(c1, spent, kept, b)
  BY <1>2, <1>4 DEF Remembers
<1> QED
  BY <1>1, <1>5

\* So do the finality pruning and the cap of commit_batch.
LEMMA PruneRemembers ==
  ASSUME NEW p \in CappedPipelines, NEW finalized, NEW c1, NEW spent,
         Remembers(c1, spent, p.cursor, p.processed)
  PROVE  Remembers(c1, spent, PruneFinalized(p, finalized).cursor, PruneFinalized(p, finalized).processed)
<1> DEFINE keep == {i \in 1 .. Len(p.cursor) : p.cursor[i].l1 > finalized}
           kept == Retain(p.cursor, keep)
<1>1. PruneFinalized(p, finalized).cursor = kept /\ PruneFinalized(p, finalized).processed = p.processed
  BY DEF PruneFinalized, CappedPipelines, Pipelines
<1>2. keep \in SUBSET (1 .. Len(p.cursor)) /\ p.cursor \in Seq(Metas(MaxL1, MaxReorgs))
  BY PipelineTypes
<1> HIDE DEF keep
<1>3. Remembers(c1, spent, kept, p.processed)
  BY <1>2, RetainRemembers
<1> HIDE DEF kept
<1> QED
  BY <1>1, <1>3

\* The cap keeps the newest entries: what is left is a part of what was there.
LEMMA CappedRemembers ==
  ASSUME NEW M, NEW cursor \in Seq(M), NEW c1, NEW spent, NEW b, Remembers(c1, spent, cursor, b)
  PROVE  Remembers(c1, spent, Capped(cursor), b)
<1>1. CASE Capped(cursor) = cursor
  BY <1>1
<1>2. CASE Capped(cursor) # cursor
  <2> DEFINE n == Len(cursor)
             from == n - REORG_CHECK_DEPTH + 1
             kept == SubSeq(cursor, from, n)
             f == [k \in 1 .. REORG_CHECK_DEPTH |-> from + k - 1]
  <2>1. REORG_CHECK_DEPTH \in Nat /\ REORG_CHECK_DEPTH >= 1 /\ n \in Nat
    BY Bounds
  <2>2. ~(n <= 2 * REORG_CHECK_DEPTH) /\ Capped(cursor) = kept
    BY <1>2 DEF Capped
  <2>3. from \in 1 .. n /\ n - from + 1 = REORG_CHECK_DEPTH
    BY <2>1, <2>2
  <2> HIDE DEF n, from
  <2>4. Len(kept) = REORG_CHECK_DEPTH /\ \A k \in 1 .. REORG_CHECK_DEPTH : kept[k] = cursor[from + k - 1]
    BY <2>1, <2>3 DEF n
  <2>5. \A k \in 1 .. REORG_CHECK_DEPTH : from + k - 1 \in 1 .. n
    BY <2>1, <2>3
  <2> HIDE DEF kept
  <2>6. \A k \in 1 .. Len(kept) : f[k] \in 1 .. Len(cursor) /\ kept[k] = cursor[f[k]]
    BY <2>4, <2>5 DEF n
  <2>7. \A j, k \in 1 .. Len(kept) : j < k => f[j] < f[k]
    BY <2>1, <2>3, <2>4
  <2> HIDE DEF f
  <2>8. Sorted(cursor) /\ \A i \in 1 .. Len(cursor) : Recalled(c1, spent, cursor[i]) /\ cursor[i].l1 <= b
    BY DEF Remembers
  <2>9. Sorted(kept)
    BY <2>1, <2>4, <2>6, <2>7, <2>8, PartsSorted
  <2> QED
    BY <2>2, <2>6, <2>8, <2>9 DEF Remembers
<1> QED
  BY <1>1, <1>2

\* A replaced L1 block leaves nothing to be true of the entries made from it.
LEMMA L1Remembers ==
  ASSUME Types, StaysOrIsNew, NEW p \in CappedPipelines, Remembers(l1, used.reorgs, p.cursor, p.processed)
  PROVE  Remembers(l1', used'.reorgs, p.cursor, p.processed)
<1>1. Len(l1) \in Nat /\ used.reorgs \in Nat
  BY TypeFacts, Bounds DEF Spent
<1>2. p.cursor \in Seq(Metas(MaxL1, MaxReorgs))
  BY PipelineTypes
<1>3. ASSUME NEW i \in 1 .. Len(p.cursor) PROVE Recalled(l1', used'.reorgs, p.cursor[i])
  <2> DEFINE c == p.cursor[i]
  <2>1. Recalled(l1, used.reorgs, c)
    BY DEF Remembers
  <2>2. c.hash \in Nat
    <3>1. c \in Metas(MaxL1, MaxReorgs)
      BY <1>2
    <3> QED
      BY <3>1, Bounds DEF Metas
  <2> HIDE DEF c
  <2>3. c.l1 \in 1 .. Len(l1) /\ c.hash <= used.reorgs
        /\ (l1[c.l1].hash = c.hash => HasBlock(l1[c.l1].batch, c.n))
    BY <2>1 DEF Recalled
  <2>4. l1'[c.l1] = l1[c.l1] \/ l1'[c.l1].hash > used.reorgs
    BY <2>3 DEF StaysOrIsNew
  <2>5. /\ Len(l1') \in Nat /\ Len(l1') >= Len(l1)
        /\ used'.reorgs \in Nat /\ used'.reorgs >= used.reorgs
    BY DEF StaysOrIsNew
  <2>6. c.l1 \in 1 .. Len(l1') /\ c.hash <= used'.reorgs
    BY <1>1, <2>2, <2>3, <2>5
  <2>7. l1'[c.l1].hash = c.hash => HasBlock(l1'[c.l1].batch, c.n)
    BY <1>1, <2>2, <2>3, <2>4
  <2> QED
    BY <2>6, <2>7 DEF Recalled, c
<1> QED
  BY <1>3 DEF Remembers

-----------------------------------------------------------------------------
(* derive_next_batch *)

\* What a scan finds is on L1, and above what was processed.
LEMMA FoundOnL1 ==
  ASSUME Types, L1Inv, NEW from \in Nat, NEW to \in Nat,
         NEW c \in NewMetas(MaxL1, MaxReorgs, l1, from, to)
  PROVE  /\ c.n \in 0 .. MaxL1 /\ c.n \in Nat /\ c.l1 \in 1 .. Len(l1) /\ from <= c.l1 /\ c.l1 <= to
         /\ HasBlock(l1[c.l1].batch, c.n) /\ Recalled(l1, used.reorgs, c)
<1>1. c \in Metas(MaxL1, MaxReorgs) /\ c.l1 \in from .. to /\ c.l1 \in 1 .. Len(l1)
      /\ c.hash = HashAt(l1, c.l1) /\ HasBlock(l1[c.l1].batch, c.n)
  BY DEF NewMetas
<1>2. c.n \in 0 .. MaxL1
  BY <1>1 DEF Metas
<1>3. c.l1 # 0 /\ from <= c.l1 /\ c.l1 <= to
  BY <1>1, TypeFacts
<1>4. c.hash = l1[c.l1].hash
  BY <1>1, <1>3 DEF HashAt
<1>5. c.hash <= used.reorgs
  BY <1>1, <1>4 DEF L1Inv, HashesSpent
<1> QED
  BY <1>1, <1>2, <1>3, <1>5, Bounds DEF Recalled

\* The newest entry is on L1 as long as nothing is reorganised.
LEMMA NewestIsOnL1 ==
  ASSUME Types, L1Inv, used.reorgs = 0,
         NEW dv, dv.cursor \in Seq(Metas(MaxL1, MaxReorgs)), dv.cursor # <<>>,
         Remembers(l1, used.reorgs, dv.cursor, dv.processed)
  PROVE  LET c == dv.cursor[Len(dv.cursor)]
         IN  c.l1 \in 1 .. Len(l1) /\ c.l1 <= dv.processed /\ HasBlock(l1[c.l1].batch, c.n)
<1> DEFINE c == dv.cursor[Len(dv.cursor)]
<1>1. Len(dv.cursor) \in 1 .. Len(dv.cursor) /\ c \in Metas(MaxL1, MaxReorgs)
  OBVIOUS
<1> HIDE DEF c
<1>2. c.hash \in Nat
  BY <1>1, Bounds DEF Metas
<1>3. Recalled(l1, used.reorgs, c) /\ c.l1 <= dv.processed
  BY <1>1 DEF Remembers, c
<1>4. c.l1 \in 1 .. Len(l1) /\ c.hash <= 0 /\ (l1[c.l1].hash = c.hash => HasBlock(l1[c.l1].batch, c.n))
  BY <1>3 DEF Recalled
<1>5. l1[c.l1].hash \in Nat /\ l1[c.l1].hash <= 0
  <2>1. l1[c.l1].hash \in 0 .. MaxReorgs
    BY <1>4, L1Data, TypeFacts
  <2> QED
    BY <1>4, <2>1, Bounds DEF L1Inv, HashesSpent
<1> QED
  BY <1>2, <1>3, <1>4, <1>5 DEF c

\* The entries found, sorted by number, are sorted by L1 block as well.
LEMMA FoundSorted ==
  ASSUME Types, L1Inv, NEW from \in Nat, NEW to \in Nat,
         NEW found \in Seq(NewMetas(MaxL1, MaxReorgs, l1, from, to))
  PROVE  /\ Deduplicated(found) \in Seq(NewMetas(MaxL1, MaxReorgs, l1, from, to))
         /\ Sorted(Deduplicated(found))
<1> DEFINE N == NewMetas(MaxL1, MaxReorgs, l1, from, to)
           dd == Deduplicated(found)
           S == Numbers(found)
<1>1. \A c \in N : c.n \in 0 .. MaxL1
  BY FoundOnL1
<1>2. \A c \in N : c.n \in Nat /\ c.l1 \in 1 .. Len(l1) /\ HasBlock(l1[c.l1].batch, c.n)
  BY FoundOnL1
<1> HIDE DEF N
<1>3. found \in Seq(N) /\ MaxL1 \in Nat
  BY Bounds DEF N
<1>4. /\ S \in SUBSET (0 .. MaxL1) /\ dd \in Seq(N) /\ Len(dd) = Cardinality(S)
      /\ \A y \in 1 .. Len(dd) : dd[y].n = Nth(S, y)
  BY <1>1, <1>3, DeduplicatedFacts
<1> HIDE DEF dd, S
<1>5. ASSUME NEW i \in 1 .. Len(dd), NEW j \in 1 .. Len(dd), i < j
      PROVE  dd[i].n < dd[j].n /\ dd[i].l1 <= dd[j].l1
  <2>1. dd[i].n < dd[j].n
    <3>1. i \in 1 .. Cardinality(S) /\ j \in 1 .. Cardinality(S)
      BY <1>4
    <3>2. Nth(S, i) < Nth(S, j)
      BY <1>3, <1>4, <1>5, <3>1, NthIncreasing
    <3> QED
      BY <1>4, <3>2
  <2>2. dd[i] \in N /\ dd[j] \in N
    BY <1>4
  <2> DEFINE x == dd[i]
             y == dd[j]
  <2>3. x.n < y.n /\ x \in N /\ y \in N
    BY <2>1, <2>2
  <2> HIDE DEF x, y
  <2>4. x.l1 \in 1 .. Len(l1) /\ y.l1 \in 1 .. Len(l1) /\ x.n \in Nat /\ y.n \in Nat
        /\ HasBlock(l1[x.l1].batch, x.n) /\ HasBlock(l1[y.l1].batch, y.n) /\ Len(l1) \in Nat
    BY <1>2, <2>3, TypeFacts
  <2>5. y.l1 < x.l1 => y.n < x.n
    BY <2>4 DEF L1Inv, PostsInOrder, Ascending
  <2>6. x.l1 <= y.l1
    <3>1. x.l1 \in Nat /\ y.l1 \in Nat
      BY <2>4
    <3>2. ~(y.n < x.n)
      BY <2>3, <2>4
    <3> QED
      BY <2>5, <3>1, <3>2
  <2> QED
    BY <2>1, <2>6 DEF x, y
<1>6. Sorted(dd)
  BY <1>5 DEF Sorted
<1> QED
  BY <1>4, <1>6 DEF dd, N

\* The cursor of the next batch: the old entries, and those found above them.
LEMMA ExtendedRemembers ==
  ASSUME Types, L1Inv, used.reorgs = 0,
         NEW dv, dv.cursor \in Seq(Metas(MaxL1, MaxReorgs)), dv.processed \in Nat,
         Remembers(l1, used.reorgs, dv.cursor, dv.processed),
         NEW to \in Nat, dv.processed <= to,
         NEW dd \in Seq(NewMetas(MaxL1, MaxReorgs, l1, dv.processed + 1, to)), Sorted(dd)
  PROVE  Remembers(l1, used.reorgs, dv.cursor \o dd, to)
<1> DEFINE N == NewMetas(MaxL1, MaxReorgs, l1, dv.processed + 1, to)
           old == dv.cursor
           b == dv.processed
           w == old \o dd
           m == Len(old)
           l == Len(dd)
           M == Metas(MaxL1, MaxReorgs)
<1>1. \A c \in N : /\ c.n \in Nat /\ c.l1 \in 1 .. Len(l1) /\ b + 1 <= c.l1 /\ c.l1 <= to
                   /\ HasBlock(l1[c.l1].batch, c.n) /\ Recalled(l1, used.reorgs, c)
  <2>1. b + 1 \in Nat
    OBVIOUS
  <2> QED
    BY <2>1, FoundOnL1
<1>2. \A c \in M : c.n \in Nat /\ c.l1 \in Nat
  BY Bounds DEF Metas
<1>3. dd \in Seq(N) /\ old \in Seq(M) /\ m \in Nat /\ l \in Nat
  OBVIOUS
<1>4. \A i \in 1 .. m : Recalled(l1, used.reorgs, old[i]) /\ old[i].l1 <= b /\ old[i] \in M
  <2>1. \A i \in 1 .. m : old[i] \in M
    BY <1>3
  <2> QED
    BY <2>1 DEF Remembers
<1>5. \A i \in 1 .. l : dd[i] \in N
  BY <1>3
<1>6. Sorted(old)
  BY DEF Remembers
<1>7. m >= 1 => /\ old[m].l1 \in 1 .. Len(l1) /\ old[m].l1 <= b
                /\ HasBlock(l1[old[m].l1].batch, old[m].n)
  <2>1. m >= 1 => old # <<>>
    BY <1>3
  <2> QED
    BY <2>1, NewestIsOnL1
<1>8. Len(l1) \in Nat /\ b \in Nat
  BY TypeFacts
<1>9. /\ Len(w) = m + l /\ (\A i \in 1 .. m : w[i] = old[i])
      /\ \A i \in m + 1 .. m + l : w[i] = dd[i - m]
  <2> DEFINE E == M \cup N
  <2>1. old \in Seq(E) /\ dd \in Seq(E)
    <3> HIDE DEF M, N, old
    <3> QED
      BY <1>3
  <2> HIDE DEF E, old
  <2> QED
    BY <2>1, ConcatElements
<1> HIDE DEF N, M, w, m, l, old, b
<1>10. \A i \in 1 .. m + l : i \in 1 .. m \/ (i \in m + 1 .. m + l /\ i - m \in 1 .. l)
  BY <1>3
<1>11. \A i \in 1 .. m : \A k \in 1 .. l : old[i].n < dd[k].n /\ old[i].l1 <= dd[k].l1
  <2> SUFFICES ASSUME NEW i \in 1 .. m, NEW k \in 1 .. l
               PROVE  old[i].n < dd[k].n /\ old[i].l1 <= dd[k].l1
    OBVIOUS
  <2>1. m >= 1 /\ m \in 1 .. m
    BY <1>3
  <2> DEFINE x == old[m]
             y == dd[k]
             z == old[i]
  <2>2. /\ x.n \in Nat /\ x.l1 \in 1 .. Len(l1) /\ x.l1 <= b /\ HasBlock(l1[x.l1].batch, x.n)
    BY <1>2, <1>4, <1>7, <2>1
  <2>3. y.n \in Nat /\ y.l1 \in 1 .. Len(l1) /\ b + 1 <= y.l1 /\ HasBlock(l1[y.l1].batch, y.n)
    BY <1>1, <1>5
  <2>4. z.n \in Nat /\ z.l1 \in Nat /\ z.l1 <= b
    BY <1>2, <1>4
  <2>5. i = m \/ z.n < x.n
    <3>1. i = m \/ i < m
      BY <1>3
    <3> QED
      BY <1>6, <2>1, <3>1 DEF Sorted, m
  <2>6. i = m => z = x
    OBVIOUS
  <2> HIDE DEF x, y, z
  <2>7. x.l1 < y.l1
    BY <1>8, <2>2, <2>3
  <2>8. x.n < y.n
    BY <2>2, <2>3, <2>7 DEF L1Inv, PostsInOrder, Ascending
  <2>9. z.n < y.n
    BY <2>2, <2>3, <2>4, <2>5, <2>6, <2>8
  <2>10. z.l1 <= y.l1
    <3>1. y.l1 \in Nat
      BY <1>8, <2>3
    <3> QED
      BY <1>8, <2>3, <2>4, <3>1
  <2> QED
    BY <2>9, <2>10 DEF y, z
<1>12. ASSUME NEW i \in 1 .. m + l, NEW j \in 1 .. m + l, i < j
       PROVE  w[i].n < w[j].n /\ w[i].l1 <= w[j].l1
  <2>1. CASE j \in 1 .. m
    <3>1. i \in 1 .. m
      BY <1>3, <1>12, <2>1
    <3> QED
      BY <1>6, <1>9, <1>12, <2>1, <3>1 DEF Sorted, m
  <2>2. CASE i \in 1 .. m /\ j \in m + 1 .. m + l /\ j - m \in 1 .. l
    BY <1>9, <1>11, <2>2
  <2>3. CASE i \in m + 1 .. m + l /\ i - m \in 1 .. l /\ j \in m + 1 .. m + l /\ j - m \in 1 .. l
    <3>1. i - m < j - m
      BY <1>3, <1>12
    <3> QED
      BY <1>9, <2>3, <3>1 DEF Sorted, l
  <2>4. i \in m + 1 .. m + l => ~(j \in 1 .. m)
    BY <1>3, <1>12
  <2> QED
    BY <1>10, <2>1, <2>2, <2>3, <2>4
<1>13. ASSUME NEW i \in 1 .. m + l PROVE Recalled(l1, used.reorgs, w[i]) /\ w[i].l1 <= to
  <2>1. CASE i \in 1 .. m
    <3>1. w[i] = old[i] /\ old[i].l1 \in Nat /\ old[i].l1 <= b
      BY <1>2, <1>4, <1>9, <2>1
    <3> QED
      BY <1>4, <1>8, <2>1, <3>1 DEF b
  <2>2. CASE i \in m + 1 .. m + l /\ i - m \in 1 .. l
    BY <1>1, <1>5, <1>9, <2>2
  <2> QED
    BY <1>10, <2>1, <2>2
<1>14. Sorted(w)
  BY <1>9, <1>12 DEF Sorted
<1> QED
  BY <1>9, <1>13, <1>14 DEF Remembers, w, old

\* What a call sees of the beginning of L1: the blocks that are there, some of
\* them perhaps without their batch.
SeenOf(seen) ==
  /\ seen \in SeenChains /\ Len(seen) <= Len(l1)
  /\ \A i \in 1 .. Len(seen) : /\ seen[i].hash = l1[i].hash
                               /\ seen[i].batch = l1[i].batch \/ seen[i].batch.blocks = <<>>

\* What a scan of it finds is on L1.
LEMMA SeenIsOnL1 ==
  ASSUME NEW seen, SeenOf(seen), Len(l1) \in Nat, NEW from, NEW to
  PROVE  NewMetas(MaxL1, MaxReorgs, seen, from, to) \subseteq NewMetas(MaxL1, MaxReorgs, l1, from, to)
<1> SUFFICES ASSUME NEW c \in NewMetas(MaxL1, MaxReorgs, seen, from, to)
             PROVE  c \in NewMetas(MaxL1, MaxReorgs, l1, from, to)
  OBVIOUS
<1>1. /\ c \in Metas(MaxL1, MaxReorgs) /\ c.l1 \in from .. to /\ c.l1 \in 1 .. Len(seen)
      /\ c.hash = HashAt(seen, c.l1) /\ HasBlock(seen[c.l1].batch, c.n)
  BY DEF NewMetas
<1> DEFINE i == c.l1
<1>2. Len(seen) \in Nat /\ Len(seen) <= Len(l1)
  BY ChainReads DEF SeenOf, SeenChains
<1>3. i \in 1 .. Len(seen)
  BY <1>1
<1> HIDE DEF i
<1>4. i \in 1 .. Len(l1) /\ i # 0
  BY <1>2, <1>3
<1>5. seen[i].hash = l1[i].hash /\ (seen[i].batch = l1[i].batch \/ seen[i].batch.blocks = <<>>)
  BY <1>3 DEF SeenOf
<1>6. HashAt(seen, i) = HashAt(l1, i)
  BY <1>4, <1>5 DEF HashAt
<1>7. HasBlock(seen[i].batch, c.n) => HasBlock(l1[i].batch, c.n)
  <2>1. seen[i].batch.blocks = <<>> => 1 .. Len(seen[i].batch.blocks) = {}
    OBVIOUS
  <2> QED
    BY <1>5, <2>1 DEF HasBlock
<1> QED
  BY <1>1, <1>4, <1>6, <1>7 DEF NewMetas, i

\* derive_next_batch: what it adds is on L1, even if it is not all of it.
LEMMA DeriveRemembers ==
  ASSUME Types, L1Inv, used.reorgs = 0, Remembers(l1, used.reorgs, d.dv.cursor, d.dv.processed),
         NEW seen, SeenOf(seen)
  PROVE  LET r == DeriveNextBatch(d.dv, seen, Len(seen))
         IN  Remembers(l1, used.reorgs, r.next.cursor, r.next.processed)
<1> DEFINE dv == d.dv
           r == DeriveNextBatch(dv, seen, Len(seen))
           bound == dv.processed + MAX_LOG_RANGE
           to == IF Len(seen) <= bound THEN Len(seen) ELSE bound
           found == Scan(dv, seen, to).cursor
           S == NewMetas(MaxL1, MaxReorgs, seen, dv.processed + 1, to)
           N == NewMetas(MaxL1, MaxReorgs, l1, dv.processed + 1, to)
           w == dv.cursor \o Deduplicated(found)
<1>1. /\ dv \in Pipelines(MaxL1, MaxReorgs) /\ dv.cursor \in Seq(Metas(MaxL1, MaxReorgs))
      /\ dv.processed \in Nat /\ Len(seen) \in Nat /\ seen \in L1Chains(MaxL1, MaxReorgs, MaxEntries)
  <2>1. dv \in CappedPipelines
    BY TypeFacts, DriverFields
  <2>2. dv \in Pipelines(MaxL1, MaxReorgs)
    BY <2>1 DEF CappedPipelines
  <2>3. dv.cursor \in Seq(Metas(MaxL1, MaxReorgs)) /\ dv.processed \in L1Number
    BY <2>1, PipelineTypes
  <2>4. seen \in Chains
    BY DEF SeenOf, SeenChains
  <2>5. Len(seen) \in Nat /\ seen \in L1Chains(MaxL1, MaxReorgs, MaxEntries)
    BY <2>4, ChainReads DEF Chains
  <2>6. dv.processed \in Nat
    BY <2>3, Bounds DEF L1Number
  <2> QED
    BY <2>2, <2>3, <2>4, <2>5, <2>6
<1>2. CASE Len(seen) <= dv.processed
  <2>1. r.next = dv
    BY <1>2 DEF DeriveNextBatch
  <2> QED
    BY <2>1
<1>3. CASE ~(Len(seen) <= dv.processed)
  <2>1. to \in 0 .. Len(seen) /\ dv.processed <= to /\ to \in Nat
    BY <1>1, <1>3, PipelineAssumption
  <2>2. r.next.cursor = Capped(w) /\ r.next.processed = to
    BY <1>3 DEF DeriveNextBatch
  <2> HIDE DEF to, dv
  <2>3. found \in Seq(S)
    BY <1>1, <2>1, Bounds, ScanFindsMetas
  <2> HIDE DEF found
  <2>9. found \in Seq(N)
    <3>1. S \subseteq N
      BY TypeFacts, SeenIsOnL1
    <3> HIDE DEF S, N
    <3> QED
      BY <2>3, <3>1
  <2>4. Deduplicated(found) \in Seq(N) /\ Sorted(Deduplicated(found))
    <3>1. dv.processed + 1 \in Nat
      BY <1>1
    <3> QED
      BY <2>1, <2>9, <3>1, FoundSorted
  <2>5. Remembers(l1, used.reorgs, w, to)
    BY <1>1, <2>1, <2>4, ExtendedRemembers DEF dv
  <2>6. w \in Seq(Metas(MaxL1, MaxReorgs) \cup N)
    <3> DEFINE M == Metas(MaxL1, MaxReorgs)
               dd == Deduplicated(found)
    <3>1. dd \in Seq(N) /\ dv.cursor \in Seq(M)
      BY <1>1, <2>4
    <3> HIDE DEF M, N, dd
    <3>2. dv.cursor \o dd \in Seq(M \cup N)
      BY <3>1
    <3> QED
      BY <3>2 DEF M, dd
  <2> HIDE DEF w
  <2>7. Remembers(l1, used.reorgs, Capped(w), to)
    BY <2>5, <2>6, CappedRemembers
  <2> HIDE DEF r
  <2> QED
    BY <2>2, <2>7 DEF r, dv
<1> QED
  BY <1>2, <1>3 DEF dv

-----------------------------------------------------------------------------
(* The driver remembers nothing that was not derived *)

\* Whatever holds of what pipeline p remembers holds of what q remembers.
Forgets(q, p) ==
  \A c1, spent : Remembers(c1, spent, p.cursor, p.processed)
                   => Remembers(c1, spent, q.cursor, q.processed)

\* A step that leaves the pipeline alone, or rolls it back, prunes it, or only
\* changes the last derived block, adds nothing.
LEMMA PipelineForgets ==
  ASSUME NEW p \in CappedPipelines
  PROVE  /\ Forgets(p, p)
         /\ \A n : Forgets([p EXCEPT !.derived = n], p)
         /\ \A b \in L1Number : Forgets(RollbackTo(p, b), p)
         /\ \A b \in L1Number : \A n : Forgets([RollbackTo(p, b) EXCEPT !.derived = n], p)
         /\ \A b \in L1Number : \A n : Forgets(RollbackTo([p EXCEPT !.derived = n], b), p)
         /\ \A f : Forgets(PruneFinalized(p, f), p)
<1>1. p.cursor \in Seq(Metas(MaxL1, MaxReorgs)) /\ p \in Pipelines(MaxL1, MaxReorgs)
  BY PipelineTypes DEF CappedPipelines
<1>2. Forgets(p, p)
  BY DEF Forgets
<1>3. ASSUME NEW n
      PROVE  [p EXCEPT !.derived = n].cursor = p.cursor /\ [p EXCEPT !.derived = n].processed = p.processed
  BY <1>1 DEF Pipelines
<1>4. \A n : Forgets([p EXCEPT !.derived = n], p)
  BY <1>3 DEF Forgets
<1>5. ASSUME NEW b \in L1Number
      PROVE  Forgets(RollbackTo(p, b), p)
  BY <1>1, RollbackRemembers DEF Forgets
<1>6. ASSUME NEW b \in L1Number, NEW n
      PROVE  Forgets([RollbackTo(p, b) EXCEPT !.derived = n], p)
  <2> DEFINE r == RollbackTo(p, b)
  <2>1. r \in Pipelines(MaxL1, MaxReorgs)
    BY PipelineTypes DEF CappedPipelines
  <2>2. [r EXCEPT !.derived = n].cursor = r.cursor /\ [r EXCEPT !.derived = n].processed = r.processed
    <3> HIDE DEF r
    <3> QED
      BY <2>1 DEF Pipelines
  <2>3. Forgets(r, p)
    BY <1>5
  <2> HIDE DEF r
  <2>4. Forgets([r EXCEPT !.derived = n], p)
    BY <2>2, <2>3 DEF Forgets
  <2> QED
    BY <2>4 DEF r
<1>7. ASSUME NEW b \in L1Number, NEW n
      PROVE  Forgets(RollbackTo([p EXCEPT !.derived = n], b), p)
  <2> DEFINE r == [p EXCEPT !.derived = n]
  <2>1. r.cursor = p.cursor /\ r.processed = p.processed
    BY <1>3
  <2> HIDE DEF r
  <2>2. r.cursor \in Seq(Metas(MaxL1, MaxReorgs))
    BY <1>1, <2>1
  <2>3. Forgets(RollbackTo(r, b), p)
    BY <2>1, <2>2, RollbackRemembers DEF Forgets
  <2> QED
    BY <2>3 DEF r
<1>8. \A f : Forgets(PruneFinalized(p, f), p)
  BY PruneRemembers DEF Forgets
<1> QED
  BY <1>2, <1>4, <1>5, <1>6, <1>7, <1>8

\* set_rewind_target does not touch the pipeline.
LEMMA TargetKeepsPipeline ==
  ASSUME NEW s \in Drivers, NEW n
  PROVE  SetRewindTarget(s, n).dv = s.dv
  BY DEF SetRewindTarget, Drivers

\* The recovery operators
LEMMA ReDeriveForgets ==
  ASSUME NEW s \in Drivers, NEW target \in L2Number, NEW rollback \in L1Number
  PROVE  Forgets(RewindToReDerive(s, target, rollback).dv, s.dv)
<1> DEFINE c == ClearInternalState(s)
           p == [RollbackTo(c.dv, rollback) EXCEPT !.derived = target]
           rolled == [c EXCEPT !.dv = p, !.mode = "sync"]
<1>1. c \in Drivers /\ c.dv = s.dv /\ s.dv \in CappedPipelines
  BY ClearType, DriverFields
<1>2. p = [RollbackTo(s.dv, rollback) EXCEPT !.derived = target]
  BY <1>1
<1>3. p \in CappedPipelines /\ Forgets(p, s.dv)
  BY <1>1, <1>2, PipelineTypes, PipelineForgets
<1>4. RewindToReDerive(s, target, rollback) = SetRewindTarget(CountCycle(rolled), target)
  BY DEF RewindToReDerive
<1> HIDE DEF c, p
<1>5. rolled \in Drivers /\ rolled.dv = p
  BY <1>1, <1>3 DEF Drivers, Modes
<1> HIDE DEF rolled
<1>6. CountCycle(rolled) \in Drivers /\ CountCycle(rolled).dv = p
  BY <1>5, CountType
<1>7. SetRewindTarget(CountCycle(rolled), target).dv = p
  BY <1>6, TargetKeepsPipeline
<1> QED
  BY <1>3, <1>4, <1>7

\* apply_sibling_reorg_plan
LEMMA PlanForgets ==
  ASSUME NEW s \in Drivers, NEW n \in L2Number, NEW root \in Blocks
  PROVE  Forgets(ApplySiblingReorgPlan(s, n, root).dv, s.dv)
<1> DEFINE c == ClearInternalState(s)
           target == VerifyPlanTarget(s.anchor, n)
           p == RollbackTo([c.dv EXCEPT !.derived = target], RollbackL1(s.anchor))
           request == Request(n, root)
           planned == [c EXCEPT !.sibling = request, !.dv = p, !.mode = "sync"]
<1>1. c \in Drivers /\ c.dv = s.dv /\ s.dv \in CappedPipelines
  BY ClearType, DriverFields
<1>2. target \in L2Number /\ RollbackL1(s.anchor) \in L1Number
  BY DriverFields, RuleTypes
<1>3. p = RollbackTo([s.dv EXCEPT !.derived = target], RollbackL1(s.anchor))
  BY <1>1
<1>4. p \in CappedPipelines /\ Forgets(p, s.dv)
  <2>1. [s.dv EXCEPT !.derived = target] \in CappedPipelines
    BY <1>1, <1>2, PipelineTypes
  <2> QED
    BY <1>1, <1>2, <1>3, <2>1, PipelineTypes, PipelineForgets
<1>5. request \in Requests
  BY DEF Request, Requests
<1>6. ApplySiblingReorgPlan(s, n, root) = SetRewindTarget(planned, target)
  BY DEF ApplySiblingReorgPlan
<1> HIDE DEF c, p, request
<1>7. planned \in Drivers /\ planned.dv = p
  BY <1>1, <1>4, <1>5 DEF Drivers, Modes
<1> HIDE DEF planned
<1>8. SetRewindTarget(planned, target).dv = p
  BY <1>7, TargetKeepsPipeline
<1> QED
  BY <1>4, <1>6, <1>8

\* The generic mismatch
LEMMA GenericForgets ==
  ASSUME NEW s \in Drivers, NEW b \in DerivedAbove
  PROVE  Forgets(GenericMismatchRewind(s, b).dv, s.dv)
<1> DEFINE c == CountCycle(ClearInternalState(s))
           p == RollbackTo(c.dv, b.info.l1)
           r == [c EXCEPT !.mode = "sync", !.dv = p]
<1>1. b.info.l1 \in L1Number
  BY DEF DerivedAbove, DerivedBlocks, Infos, L1Number
<1>2. c \in Drivers /\ c.dv = s.dv /\ s.dv \in CappedPipelines
  BY ClearType, CountType, DriverFields
<1>3. p = RollbackTo(s.dv, b.info.l1)
  BY <1>2
<1>4. p \in CappedPipelines /\ Forgets(p, s.dv)
  BY <1>1, <1>2, <1>3, PipelineTypes, PipelineForgets
<1>5. GenericMismatchRewind(s, b) = SetRewindTarget(r, SaturatingPred(b.n))
  BY DEF GenericMismatchRewind
<1> HIDE DEF c, p
<1>6. r \in Drivers /\ r.dv = p
  BY <1>2, <1>4 DEF Drivers, Modes
<1> HIDE DEF r
<1> QED
  BY <1>4, <1>5, <1>6, TargetKeepsPipeline

\* classify_and_apply_verification
LEMMA VerificationForgets ==
  ASSUME NEW s \in Drivers, NEW b \in DerivedAbove
  PROVE  Forgets(Verification(s, b).d.dv, s.dv)
<1> DEFINE released == [s EXCEPT !.hold = Clear]
           deferred == [s EXCEPT !.hold = Deferred(@)]
           t == Verification(s, b).d
<1>1. b.n \in L2Number /\ b.root \in Blocks
  BY DEF DerivedAbove, DerivedBlocks, Blocks, L2Number
<1>2. SaturatingPred(b.n) \in L2Number /\ RollbackL1(s.anchor) \in L1Number
  BY <1>1, DriverFields, RuleTypes
<1>3. \/ t = s \/ t = released \/ t = deferred
      \/ t = ApplySiblingReorgPlan(s, b.n, b.root)
      \/ t = RewindToReDerive(s, SaturatingPred(b.n), RollbackL1(s.anchor))
      \/ t = GenericMismatchRewind(s, b)
  BY VerificationOutcomes
<1>4. released.dv = s.dv /\ deferred.dv = s.dv
  BY DEF Drivers
<1>5. Forgets(s.dv, s.dv)
  BY DriverFields, PipelineForgets
<1> HIDE DEF t, released, deferred
<1>6. t = s \/ t = released \/ t = deferred => Forgets(t.dv, s.dv)
  BY <1>4, <1>5
<1>7. t = ApplySiblingReorgPlan(s, b.n, b.root) => Forgets(t.dv, s.dv)
  BY <1>1, PlanForgets
<1>8. t = RewindToReDerive(s, SaturatingPred(b.n), RollbackL1(s.anchor)) => Forgets(t.dv, s.dv)
  BY <1>2, ReDeriveForgets
<1>9. t = GenericMismatchRewind(s, b) => Forgets(t.dv, s.dv)
  BY GenericForgets
<1>10. Forgets(t.dv, s.dv)
  BY <1>3, <1>6, <1>7, <1>8, <1>9
<1> QED
  BY <1>10 DEF t

\* step(), up to the dispatch on the mode
LEMMA StepForgets ==
  ASSUME Types, \/ StepRewind \/ StepRewindFails \/ Step \/ StepRefresh \/ StepRefreshFails
                \/ StepReorg \/ StepUnchanged \/ StepLogs \/ StepDerive \/ StepFails
  PROVE  Forgets(d'.dv, d.dv)
<1>1. /\ d \in Drivers /\ d.dv \in CappedPipelines /\ Forgets(d.dv, d.dv) /\ d.refresh \in L2Number
      /\ ClearInternalState(d) \in Drivers /\ ClearInternalState(d).dv = d.dv
  BY TypeFacts, DriverFields, ClearType, PipelineForgets
<1>2. CASE StepRewind
  <2> DEFINE taken == [d EXCEPT !.rewind = None, !.cool = FALSE]
             c == ClearInternalState(taken)
             raised == [c EXCEPT !.ceiling = l2_head_number]
  <2>1. d' \in {taken, c, raised}
    BY <1>2 DEF StepRewind, RewindL2Chain
  <2>2. taken \in Drivers /\ taken.dv = d.dv
    BY <1>1 DEF Drivers, Targets, Flags
  <2> HIDE DEF taken
  <2>3. c \in Drivers /\ c.dv = d.dv
    BY <2>2, ClearType
  <2> HIDE DEF c
  <2>4. raised.dv = d.dv
    BY <2>3 DEF Drivers
  <2> QED
    BY <1>1, <2>1, <2>2, <2>3, <2>4
<1>3. CASE Step
  <2>1. d' = [d EXCEPT !.cool = FALSE]
    BY <1>3 DEF Step
  <2>2. d'.dv = d.dv
    BY <1>1, <2>1 DEF Drivers
  <2> QED
    BY <1>1, <2>2
<1>4. CASE StepRefresh
  <2> DEFINE c == ClearInternalState(d)
             p == [c.dv EXCEPT !.derived = d.refresh]
             new == [c EXCEPT !.dv = p, !.pending = <<chain'>>, !.refresh = 0]
  <2>1. d' = new
    BY <1>4 DEF StepRefresh
  <2>2. p = [d.dv EXCEPT !.derived = d.refresh]
    BY <1>1
  <2>3. Forgets(p, d.dv)
    BY <1>1, <2>2, PipelineForgets
  <2> HIDE DEF p
  <2>4. d'.dv = p
    <3>1. c \in Drivers
      BY <1>1
    <3> HIDE DEF c
    <3> QED
      BY <2>1, <3>1 DEF Drivers
  <2> QED
    BY <2>3, <2>4
<1>5. CASE StepReorg
  <2> DEFINE p == RollbackTo(d.dv, ForkPoint(d.dv, l1))
             c == ClearInternalState(d)
             s == [c EXCEPT !.seen = Len(l1), !.dv = p]
             synced == [s EXCEPT !.mode = "sync"]
             raised == [synced EXCEPT !.ceiling = l2_head_number]
  <2>1. d' \in {s, synced, raised}
    BY <1>5 DEF StepReorg, RewindL2Chain
  <2>2. Forgets(p, d.dv)
    BY <1>1, PipelineTypes, PipelineForgets
  <2>3. c \in Drivers
    BY <1>1
  <2> HIDE DEF c, p
  <2>4. d'.dv = p
    BY <2>1, <2>3 DEF Drivers
  <2> QED
    BY <2>2, <2>4
<1>6. CASE StepUnchanged
  <2>1. d' = [d EXCEPT !.seen = Len(l1)]
    BY <1>6 DEF StepUnchanged, Return
  <2>2. d'.dv = d.dv
    BY <1>1, <2>1 DEF Drivers
  <2> QED
    BY <1>1, <2>2
<1>7. CASE StepRewindFails
  <2>1. d' = ClearInternalState(d)
    BY <1>7 DEF StepRewindFails, Return
  <2> QED
    BY <1>1, <2>1
<1>8. CASE StepRefreshFails \/ StepLogs \/ StepDerive \/ StepFails
  <2>1. d' = d
    BY <1>8, Derivation DEF StepRefreshFails, StepLogs, Derived, StepFails, Return
  <2> QED
    BY <1>1, <2>1
<1> QED
  BY <1>2, <1>3, <1>4, <1>5, <1>6, <1>7, <1>8

\* commit_batch takes over what was derived.
LEMMA CommitForgets ==
  ASSUME Types, NEW s \in Drivers, NEW next \in CappedPipelines, NEW save, Commit(s, next, save)
  PROVE  Forgets(d'.dv, next)
<1>1. \E p \in {next} \cup {PruneFinalized(next, f) : f \in Int} : d' = [s EXCEPT !.dv = p]
  <2> DEFINE f == IF next.processed > FINALITY_DEPTH THEN next.processed - FINALITY_DEPTH ELSE 0
  <2>1. f \in Int
    BY PipelineTypes, DriverAssumption DEF L1Number
  <2>2. d' = [s EXCEPT !.dv = next] \/ d' = [s EXCEPT !.dv = PruneFinalized(next, f)]
    BY DEF Commit
  <2> HIDE DEF f
  <2> QED
    BY <2>1, <2>2
<1>2. PICK p \in {next} \cup {PruneFinalized(next, f) : f \in Int} : d' = [s EXCEPT !.dv = p]
  BY <1>1
<1>3. Forgets(p, next)
  BY PipelineForgets
<1>4. d'.dv = p
  BY <1>2 DEF Drivers
<1> QED
  BY <1>3, <1>4

\* step_sync and verification
LEMMA FollowForgets ==
  ASSUME Types, \/ SyncRebuild \/ SyncSkip \/ SyncInsert \/ SyncCommit
                \/ VerifyBlock \/ VerifyInsert \/ VerifyCommitBuilder \/ VerifyCommitFullnode
  PROVE  Forgets(d'.dv, d.dv) \/ Forgets(d'.dv, work.next)
<1>1. /\ d \in Drivers /\ Forgets(d.dv, d.dv) /\ work.next \in CappedPipelines
      /\ ClearInternalState(d) \in Drivers
  BY TypeFacts, DriverFields, ClearType, PipelineForgets, WorkFields
<1>2. CASE SyncRebuild \/ SyncSkip \/ SyncInsert \/ VerifyInsert
  <2>1. \/ d' = d
        \/ d' = [d EXCEPT !.sibling = NoRequest, !.cycles = 0, !.mismatches = 0, !.hold = Clear]
    BY <1>2 DEF SyncRebuild, SyncSkip, SyncInsert, VerifyInsert, InsertNext, Advance, Return
  <2>2. d'.dv = d.dv
    BY <1>1, <2>1 DEF Drivers
  <2> QED
    BY <1>1, <2>2
<1>3. CASE SyncCommit
  <2> DEFINE c == ClearInternalState(d)
             mode == IF BuilderMode THEN "builder" ELSE "fullnode"
             live == [c EXCEPT !.cycles = 0, !.mode = mode]
  <2>1. c \in Drivers /\ 0 \in CycleCounts /\ mode \in Modes
    BY <1>1, Bounds DEF CycleCounts, Modes
  <2>2. d' = d \/ Commit(live, work.next, FALSE) \/ Commit(d, work.next, ~work.empty)
    BY <1>3 DEF SyncCommit
  <2> HIDE DEF c, mode
  <2>3. live \in Drivers
    BY <2>1 DEF Drivers
  <2> HIDE DEF live
  <2> QED
    BY <1>1, <2>2, <2>3, CommitForgets
<1>4. CASE VerifyBlock
  <2>1. NextBlock \in DerivedAbove
    BY <1>4, NextBlockType DEF VerifyBlock
  <2>2. d' = Verification(d, NextBlock).d
    BY <1>4 DEF VerifyBlock, Return
  <2> QED
    BY <1>1, <2>1, <2>2, VerificationForgets
<1>5. CASE VerifyCommitBuilder \/ VerifyCommitFullnode
  <2>1. d' = d \/ \E save : Commit(d, work.next, save)
    BY <1>5 DEF VerifyCommitBuilder, VerifyCommitFullnode
  <2> QED
    BY <1>1, <2>1, CommitForgets
<1> QED
  BY <1>2, <1>3, <1>4, <1>5

\* The builder's tick, and the flush up to the submission
LEMMA TickForgets ==
  ASSUME Types, \/ TickIdle \/ (\E k \in 0 .. MaxEntries : Tick(k)) \/ BuildBlock \/ BuildFails
                \/ FlushSkip \/ FlushFails \/ FlushTrim \/ FlushDispatch
                \/ FlushStale \/ FlushWaitsForRefresh \/ FlushSubmit \/ FlushSendFails
  PROVE  Forgets(d'.dv, d.dv)
<1>1. /\ d \in Drivers /\ d.dv \in CappedPipelines /\ Forgets(d.dv, d.dv)
      /\ ClearInternalState(d) \in Drivers /\ ClearInternalState(d).dv = d.dv
      /\ d.anchor \in Anchors /\ d.sibling \in Requests
  BY TypeFacts, DriverFields, ClearType, PipelineForgets
<1>2. CASE TickIdle \/ (\E k \in 0 .. MaxEntries : Tick(k)) \/ BuildBlock \/ BuildFails
  <2>1. \E p, e, m : d' \in {d, [d EXCEPT !.entries = e], [d EXCEPT !.pending = p],
                             [d EXCEPT !.mode = m, !.entries = e]}
    BY <1>2 DEF TickIdle, Tick, BuildBlock, BuildFails, Return
  <2>2. d'.dv = d.dv
    BY <1>1, <2>1 DEF Drivers
  <2> QED
    BY <1>1, <2>2
<1>3. CASE FlushSkip \/ FlushFails \/ FlushStale \/ FlushWaitsForRefresh
  <2>1. \E n : d' \in {d, [d EXCEPT !.refresh = n]}
    BY <1>3 DEF FlushSkip, FlushFails, FlushStale, FlushWaitsForRefresh, FlushReturns
  <2>2. d'.dv = d.dv
    BY <1>1, <2>1 DEF Drivers
  <2> QED
    BY <1>1, <2>2
<1>4. CASE FlushTrim
  <2>1. d' = Trimmed(d, OnChainRoot)
    BY <1>4 DEF FlushTrim
  <2>2. d'.dv = d.dv
    BY <1>1, <2>1 DEF Trimmed, Drivers
  <2> QED
    BY <1>1, <2>2
<1>5. CASE FlushDispatch
  <2> DEFINE c == ClearInternalState(d)
             target == FlushPlanTarget(d.anchor, d.sibling.target)
             p == RollbackTo([c.dv EXCEPT !.derived = target], RollbackL1(d.anchor))
             s == [c EXCEPT !.sibling = d.sibling, !.dv = p, !.mode = "sync"]
  <2>1. d' = s
    BY <1>5 DEF FlushDispatch, FlushReturns
  <2>2. RollbackL1(d.anchor) \in L1Number
    BY <1>1, RuleTypes
  <2>3. p = RollbackTo([d.dv EXCEPT !.derived = target], RollbackL1(d.anchor))
    BY <1>1
  <2>4. Forgets(p, d.dv)
    BY <1>1, <2>2, <2>3, PipelineForgets
  <2>5. c \in Drivers
    BY <1>1
  <2> HIDE DEF c, p
  <2>6. d'.dv = p
    BY <2>1, <2>5 DEF Drivers
  <2> QED
    BY <2>4, <2>6
<1>6. CASE FlushSubmit \/ FlushSendFails
  <2> DEFINE m == PreRootMatched(d)
  <2>1. m \in Drivers /\ m.dv = d.dv
    <3>1. m.dv = d.dv
      BY <1>1 DEF PreRootMatched, Drivers
    <3> QED
      BY <1>1, <3>1, MatchedType
  <2>2. \E a, b, x : d' \in {[[m EXCEPT !.hold = x] EXCEPT !.pending = a, !.entries = b],
                             [m EXCEPT !.hold = x, !.cool = b]}
    BY <1>6 DEF FlushSubmit, FlushSendFails, FlushReturns, HoldArmed
  <2> HIDE DEF m
  <2>3. d'.dv = m.dv
    BY <2>1, <2>2 DEF Drivers
  <2> QED
    BY <1>1, <2>1, <2>3
<1> QED
  BY <1>2, <1>3, <1>4, <1>5, <1>6

\* A mismatch of the pre-root
LEMMA MismatchForgets ==
  ASSUME Types, \/ FlushMismatchTransient \/ FlushMismatchSibling \/ FlushMismatchRewind
  PROVE  Forgets(d'.dv, d.dv)
<1>1. /\ d \in Drivers /\ Forgets(d.dv, d.dv) /\ d.anchor \in Anchors /\ d.mismatches \in MismatchCounts
      /\ d.pending \in Queues
  BY TypeFacts, DriverFields, PipelineForgets
<1> DEFINE m == Smaller(d.mismatches + 1, MAX_FLUSH_MISMATCHES)
           counted == [d EXCEPT !.mismatches = m]
           reset == [d EXCEPT !.mismatches = 0]
<1>2. m \in MismatchCounts /\ 0 \in MismatchCounts
  BY <1>1 DEF MismatchCounts, Smaller, MAX_FLUSH_MISMATCHES
<1>3. Mismatched = counted
  BY DEF Mismatched
<1> HIDE DEF m
<1>4. counted \in Drivers /\ counted.dv = d.dv
  BY <1>1, <1>2 DEF Drivers
<1>5. reset \in Drivers /\ reset.dv = d.dv
  BY <1>1, <1>2 DEF Drivers
<1>6. CASE FlushMismatchTransient
  <2>1. d' = counted
    BY <1>3, <1>6 DEF FlushMismatchTransient, FlushReturns
  <2> QED
    BY <1>1, <1>4, <2>1
<1>7. CASE FlushMismatchSibling
  <2>1. \E r : d' \in {reset, [reset EXCEPT !.sibling = r]}
    BY <1>7 DEF FlushMismatchSibling, FlushReturns
  <2> HIDE DEF reset
  <2>2. d'.dv = reset.dv
    BY <1>5, <2>1 DEF Drivers
  <2> QED
    BY <1>1, <1>5, <2>2
<1>8. CASE FlushMismatchRewind
  <2> DEFINE before == SaturatingPred(NumberOf(FrontBlock))
             target == IF d.anchor = NoAnchor THEN 0
                       ELSE IF d.cycles > 0 THEN before
                       ELSE Larger(before, d.anchor.l2)
             t == IF d.cycles > 0 THEN counted ELSE reset
             s == RewindToReDerive(t, target, RollbackL1(d.anchor))
  <2>1. d.pending # <<>> /\ d' = s
    BY <1>3, <1>8 DEF FlushMismatchRewind, FlushReturns, Mismatch
  <2>2. before \in L2Number
    BY <1>1, <2>1, QueueFacts, BlockFacts, RuleTypes DEF FrontBlock
  <2> HIDE DEF before
  <2>3. target \in L2Number /\ RollbackL1(d.anchor) \in L1Number
    BY <1>1, <2>2, RuleTypes, InitialValues
  <2> HIDE DEF target, counted, reset
  <2>4. t \in Drivers /\ t.dv = d.dv
    BY <1>4, <1>5
  <2> HIDE DEF t
  <2>5. Forgets(s.dv, t.dv)
    BY <2>3, <2>4, ReDeriveForgets
  <2> QED
    BY <2>1, <2>4, <2>5
<1> QED
  BY <1>6, <1>7, <1>8

\* After the submission
LEMMA OutcomeForgets ==
  ASSUME Types, \/ TriggersNotSent \/ BatchConfirmed \/ BatchPartlyConsumed
                \/ BatchNotConsumed \/ BatchReverted \/ BatchUnknown
  PROVE  Forgets(d'.dv, d.dv)
<1>1. d \in Drivers /\ Forgets(d.dv, d.dv) /\ d.anchor \in Anchors
  BY TypeFacts, DriverFields, PipelineForgets
<1> DEFINE c == Confirmed
<1>2. Landed => c \in Drivers
  BY ConfirmedType
<1>3. c.dv = d.dv
  BY <1>1 DEF Confirmed, Drivers
<1>4. CASE TriggersNotSent \/ BatchReverted
  <2>1. d' = RewindToReDerive(d, d.anchor.l2, RollbackL1(d.anchor))
    BY <1>4 DEF TriggersNotSent, BatchReverted, FlushReturns
  <2>2. d.anchor.l2 \in L2Number /\ RollbackL1(d.anchor) \in L1Number
    BY <1>1, RuleTypes
  <2> QED
    BY <1>1, <2>1, <2>2, ReDeriveForgets
<1>5. CASE BatchConfirmed
  <2>1. Landed /\ (d' = c \/ d' = [c EXCEPT !.hold = Clear])
    BY <1>5 DEF BatchConfirmed, FlushReturns
  <2> HIDE DEF c
  <2>2. d'.dv = c.dv
    BY <1>2, <2>1 DEF Drivers
  <2> QED
    BY <1>1, <1>3, <2>2
<1>6. CASE BatchPartlyConsumed
  <2>1. Landed /\ d' = RewindToReDerive(c, PartlyConsumedTarget(c), RollbackL1(c.anchor))
    BY <1>6 DEF BatchPartlyConsumed, FlushReturns
  <2>2. c \in Drivers
    BY <1>2, <2>1
  <2> HIDE DEF c
  <2>3. PartlyConsumedTarget(c) \in L2Number /\ RollbackL1(c.anchor) \in L1Number
    BY <2>2, DriverFields, RuleTypes DEF PartlyConsumedTarget, Holds
  <2>4. Forgets(d'.dv, c.dv)
    BY <2>1, <2>2, <2>3, ReDeriveForgets
  <2> QED
    BY <1>3, <2>4
<1>7. CASE BatchNotConsumed
  <2>1. Landed /\ \E r : d' \in {c, [c EXCEPT !.hold = Clear], [c EXCEPT !.hold = Clear, !.sibling = r]}
    BY <1>7 DEF BatchNotConsumed, FlushReturns, NothingConsumed
  <2> HIDE DEF c
  <2>2. d'.dv = c.dv
    BY <1>2, <2>1 DEF Drivers
  <2> QED
    BY <1>1, <1>3, <2>2
<1>8. CASE BatchUnknown
  <2>1. d' = [d EXCEPT !.hold = Clear, !.cool = TRUE, !.pending = work.blocks \o @, !.entries = Sent.ents]
    BY <1>8 DEF BatchUnknown, FlushReturns, Requeued
  <2>2. d'.dv = d.dv
    BY <1>1, <2>1 DEF Drivers
  <2> QED
    BY <1>1, <2>2
<1> QED
  BY <1>4, <1>5, <1>6, <1>7, <1>8

-----------------------------------------------------------------------------
(* The cursor is in order until a reorganisation or a restart *)

\* What the driver remembers, and what the step it is in will commit; the logs
\* it has read are still those of L1.
RememberedBy(dv) == Remembers(l1, used.reorgs, dv.cursor, dv.processed)
LogsFit == pc = "blocks" => work.logs = SubSeq(l1, 1, d.seen)
Memory == RememberedBy(d.dv) /\ RememberedBy(work.next) /\ LogsFit
MemoryInv ==
  /\ Types
  /\ used.reorgs = 0 => L1Inv /\ (used.crashes = 0 => Memory)

\* A fresh pipeline remembers nothing.
LEMMA FreshRemembers == \A c1, spent : Remembers(c1, spent, NewPipeline.cursor, NewPipeline.processed)
  BY DEF NewPipeline, Remembers, Sorted

\* step() holds a derived batch only between derivation and commit.
LEMMA NextInHand ==
  ASSUME Types, StepNext \/ FlushNext, ~StepDerive
  PROVE  work'.next \in {work.next, NewPipeline}
<1>1. work \in Works /\ NoWork.next = NewPipeline
  BY TypeFacts DEF NoWork
<1>2. \A t : [NoWork EXCEPT !.tick = t].next = NewPipeline
  BY DEF NoWork
<1>3. \A s : FlushReturns(s) => work'.next = NewPipeline
  BY <1>1, <1>2 DEF FlushReturns
<1>4. \A s : Return(s) => work'.next = NewPipeline
  BY <1>1 DEF Return
<1>5. Advance => work'.next = work.next
  BY <1>1 DEF Advance, Works
<1>6. CASE StepRewind \/ Step \/ StepRefresh \/ StepRefreshFails \/ TickIdle
  BY <1>6 DEF StepRewind, Step, StepRefresh, StepRefreshFails, TickIdle
<1>16. CASE StepUnchanged
  BY <1>4, <1>16 DEF StepUnchanged
<1>17. CASE StepLogs
  <2>1. \E c : work' = [work EXCEPT !.logs = c]
    BY <1>17 DEF StepLogs
  <2> QED
    BY <1>1, <2>1 DEF Works
<1>7. CASE StepRewindFails \/ StepFails \/ BuildFails
  BY <1>4, <1>7 DEF StepRewindFails, StepFails, BuildFails
<1>8. CASE StepReorg \/ SyncCommit \/ VerifyCommitBuilder \/ VerifyCommitFullnode
  BY <1>1, <1>8 DEF StepReorg, SyncCommit, VerifyCommitBuilder, VerifyCommitFullnode
<1>9. CASE SyncRebuild \/ SyncSkip \/ SyncInsert \/ VerifyInsert
  BY <1>4, <1>5, <1>9 DEF SyncRebuild, SyncSkip, SyncInsert, VerifyInsert, InsertNext
<1>10. CASE VerifyBlock
  BY <1>4, <1>5, <1>10 DEF VerifyBlock
<1>11. CASE \E k \in 0 .. MaxEntries : Tick(k)
  BY <1>2, <1>11 DEF Tick
<1>12. CASE BuildBlock
  <2>1. \E p, f : work' = [work EXCEPT !.tick.pushed = p, !.tick.inner = f]
    BY <1>12 DEF BuildBlock
  <2> QED
    BY <1>1, <2>1 DEF Works
<1>13. CASE FlushTrim \/ FlushSubmit
  <2>1. \/ \E r : work' = [work EXCEPT !.root = r]
        \/ \E x, b : work' = [work EXCEPT !.sent = x, !.blocks = b]
    BY <1>13 DEF FlushTrim, FlushSubmit
  <2> QED
    BY <1>1, <2>1 DEF Works
<1>14. CASE \/ FlushSkip \/ FlushFails \/ FlushDispatch \/ FlushStale \/ FlushWaitsForRefresh
            \/ FlushMismatchTransient \/ FlushMismatchSibling \/ FlushMismatchRewind
            \/ FlushSendFails
  BY <1>3, <1>14 DEF FlushSkip, FlushFails, FlushDispatch, FlushStale, FlushWaitsForRefresh,
     FlushMismatchTransient, FlushMismatchSibling, FlushMismatchRewind, FlushSendFails
<1>15. CASE \/ TriggersNotSent \/ BatchConfirmed \/ BatchPartlyConsumed
            \/ BatchNotConsumed \/ BatchReverted \/ BatchUnknown
  BY <1>3, <1>15 DEF TriggersNotSent, BatchConfirmed, BatchPartlyConsumed, BatchNotConsumed,
     BatchReverted, BatchUnknown
<1> QED
  BY <1>6, <1>7, <1>8, <1>9, <1>10, <1>11, <1>12, <1>13, <1>14, <1>15, <1>16, <1>17
     DEF StepNext, FlushNext

\* The logs are used right after they were read.
LEMMA LogsAreFresh ==
  ASSUME StepNext \/ FlushNext, pc' = "blocks"
  PROVE  StepLogs
<1>1. \A s : ~Return(s)
  BY DEF Return
<1>2. \A s : ~FlushReturns(s)
  BY DEF FlushReturns
<1>3. Advance => pc = "blocks"
  BY DEF Advance
<1>4. ~StepDerive
  BY <1>1, Derivation DEF Derived
<1>5. /\ ~StepRewind /\ ~StepRewindFails /\ ~Step /\ ~StepRefresh /\ ~StepRefreshFails
      /\ ~StepReorg /\ ~StepUnchanged /\ ~StepFails
  BY <1>1 DEF StepRewind, StepRewindFails, Step, StepRefresh, StepRefreshFails, StepReorg,
     StepUnchanged, StepFails
<1>6. /\ ~SyncRebuild /\ ~SyncSkip /\ ~SyncInsert /\ ~SyncCommit
      /\ ~VerifyBlock /\ ~VerifyInsert /\ ~VerifyCommitBuilder /\ ~VerifyCommitFullnode
  BY <1>1, <1>3 DEF SyncRebuild, SyncSkip, SyncInsert, SyncCommit, VerifyBlock, VerifyInsert,
     InsertNext, VerifyCommitBuilder, VerifyCommitFullnode
<1>7. ~TickIdle /\ ~(\E k \in 0 .. MaxEntries : Tick(k)) /\ ~BuildBlock /\ ~BuildFails
  BY <1>1 DEF TickIdle, Tick, BuildBlock, BuildFails
<1>8. ~FlushNext
  BY <1>2 DEF FlushNext, FlushSkip, FlushFails, FlushTrim, FlushDispatch, FlushStale,
     FlushWaitsForRefresh, FlushMismatchTransient, FlushMismatchSibling, FlushMismatchRewind,
     FlushSubmit, FlushSendFails, TriggersNotSent, BatchConfirmed, BatchPartlyConsumed,
     BatchNotConsumed, BatchReverted, BatchUnknown
<1> QED
  BY <1>4, <1>5, <1>6, <1>7, <1>8 DEF StepNext

\* The driver only reads L1.
LEMMA DriverReadsL1 ==
  ASSUME Types, StepNext \/ FlushNext
  PROVE  l1' = l1 /\ used'.reorgs = used.reorgs /\ used'.crashes = used.crashes
<1>1. ASSUME StepNext PROVE l1' = l1
  BY <1>1 DEF StepNext, StepRewind, StepRewindFails, Step, StepRefresh, StepRefreshFails, StepReorg,
     StepUnchanged, StepLogs, StepDerive, StepFails, SyncRebuild, SyncSkip, SyncInsert, SyncCommit,
     VerifyBlock, VerifyInsert, InsertNext, VerifyCommitBuilder, VerifyCommitFullnode, TickIdle, Tick,
     BuildBlock, BuildFails
<1>2. ASSUME FlushNext PROVE l1' = l1
  BY <1>2 DEF FlushNext, FlushSkip, FlushFails, FlushTrim, FlushDispatch, FlushStale,
     FlushWaitsForRefresh, FlushMismatchTransient, FlushMismatchSibling, FlushMismatchRewind,
     FlushSubmit, FlushSendFails, TriggersNotSent, BatchConfirmed, BatchPartlyConsumed,
     BatchNotConsumed, BatchReverted, BatchUnknown
<1>3. used' = used \/ used' = [used EXCEPT !.faults = used.faults + 1]
  <2>1. [Next]_vars
    BY DEF Next
  <2>2. Fault \/ NoFault
    BY <2>1, FaultsGrow
  <2> QED
    BY <2>2 DEF Fault, NoFault
<1>4. used \in Spent
  BY TypeFacts
<1> QED
  BY <1>1, <1>2, <1>3, <1>4 DEF Spent

\* A restart is counted; L1 goes on.
LEMMA RestartIsCounted ==
  ASSUME Types, RestartNext
  PROVE  l1' = l1 /\ used'.reorgs = used.reorgs /\ used'.crashes # 0
<1>1. l1' = l1 /\ used' = [used EXCEPT !.crashes = used.crashes + 1]
  BY DEF RestartNext, Crash, Shutdown, Restart
<1>2. used \in Spent
  BY TypeFacts
<1> QED
  BY <1>1, <1>2 DEF Spent

\* The chain a derivation works on, as long as nothing is reorganised.
LEMMA DerivationSees ==
  ASSUME Types, LogsFit, StepDerive
  PROVE  \E seen : SeenOf(seen) /\ Derived(DeriveNextBatch(d.dv, seen, Len(seen)))
<1>1. PICK missing : Derived(DeriveNextBatch(d.dv, Answered(work.logs, l1, missing), d.seen))
  BY DEF StepDerive
<1> DEFINE logs == work.logs
           n == d.seen
           seen == Answered(logs, l1, missing)
<1>2. pc = "blocks"
  BY Derivation
<1>3. /\ logs \in SeenChains /\ l1 \in Chains /\ Len(logs) = n /\ n <= Len(l1)
      /\ logs = SubSeq(l1, 1, n) /\ Len(logs) <= Len(l1)
  BY <1>2, TypeFacts, WorkFields DEF Types, LogsRead, L1Typed, LogsFit
<1>4. l1 \in Seq(L1Blocks(MaxL1, MaxReorgs, MaxEntries)) /\ n \in Nat /\ Len(l1) \in Nat
      /\ \A i \in 1 .. Len(l1) : l1[i].batch \in Batches(MaxL1, MaxReorgs, MaxEntries)
  BY TypeFacts, L1Data, DriverFields, Bounds DEF L1Number
<1> HIDE DEF logs, n
<1>5. \A i \in 1 .. n : i \in 1 .. Len(l1) /\ logs[i] = l1[i]
  <2> DEFINE E == L1Blocks(MaxL1, MaxReorgs, MaxEntries)
  <2>1. l1 \in Seq(E)
    BY <1>4
  <2> HIDE DEF E
  <2> QED
    BY <1>3, <1>4, <2>1
<1>6. seen \in SeenChains /\ Len(seen) = n
  BY <1>3, AnsweredType
<1>7. ASSUME NEW i \in 1 .. n
      PROVE  seen[i].hash = l1[i].hash /\ (seen[i].batch = l1[i].batch \/ seen[i].batch.blocks = <<>>)
  <2> DEFINE b == IF i \in missing THEN Skipped(logs[i].batch) ELSE logs[i].batch
  <2>1. seen[i] = [hash |-> l1[i].hash, batch |-> b]
    BY <1>3, <1>7 DEF Answered
  <2>2. b = l1[i].batch \/ b.blocks = <<>>
    <3>1. l1[i].batch \in Batches(MaxL1, MaxReorgs, MaxEntries) /\ logs[i] = l1[i]
      BY <1>4, <1>5
    <3>2. Skipped(l1[i].batch).blocks = <<>>
      BY <3>1, SkippedType
    <3> QED
      BY <3>1, <3>2
  <2> HIDE DEF b, seen
  <2> QED
    BY <2>1, <2>2
<1>8. Derived(DeriveNextBatch(d.dv, seen, n))
  BY <1>1 DEF logs, n
<1> HIDE DEF seen
<1>9. SeenOf(seen)
  BY <1>3, <1>6, <1>7 DEF SeenOf
<1> QED
  BY <1>6, <1>8, <1>9

\* A step of the driver keeps a sound memory sound.
LEMMA DriverRemembers ==
  ASSUME Types, L1Inv, used.reorgs = 0, Memory, StepNext \/ FlushNext
  PROVE  Memory'
<1>1. l1' = l1 /\ used'.reorgs = used.reorgs
  BY DriverReadsL1
<1>2. Forgets(d'.dv, d.dv) \/ Forgets(d'.dv, work.next)
  BY StepForgets, FollowForgets, TickForgets, MismatchForgets, OutcomeForgets DEF StepNext, FlushNext
<1>3. RememberedBy(d.dv)'
  <2>1. Remembers(l1, used.reorgs, d'.dv.cursor, d'.dv.processed)
    BY <1>2 DEF Memory, RememberedBy, Forgets
  <2> QED
    BY <1>1, <2>1 DEF RememberedBy
<1>4. LogsFit'
  <2> SUFFICES ASSUME pc' = "blocks" PROVE work'.logs = SubSeq(l1', 1, d'.seen)
    BY DEF LogsFit
  <2>1. work' = [work EXCEPT !.logs = SubSeq(l1, 1, d.seen)] /\ d' = d /\ work \in Works
    BY LogsAreFresh, TypeFacts DEF StepLogs
  <2>2. work'.logs = SubSeq(l1, 1, d.seen)
    BY <2>1 DEF Works
  <2> QED
    BY <1>1, <2>1, <2>2
<1>5. Remembers(l1, used.reorgs, work'.next.cursor, work'.next.processed)
  <2>1. CASE StepDerive
    <3>1. PICK seen : SeenOf(seen) /\ Derived(DeriveNextBatch(d.dv, seen, Len(seen)))
      BY <2>1, DerivationSees DEF Memory
    <3> DEFINE r == DeriveNextBatch(d.dv, seen, Len(seen))
               blocks == r.blocks
               next == r.next
               empty == blocks = <<>>
               derived == [NoWork EXCEPT !.todo = blocks, !.empty = empty, !.next = next]
    <3>2. Remembers(l1, used.reorgs, next.cursor, next.processed)
      BY <3>1, DeriveRemembers DEF Memory, RememberedBy
    <3>3. work' = NoWork \/ work' = derived
      BY <3>1 DEF Derived, Return
    <3> HIDE DEF blocks, next
    <3>4. derived.next = next /\ NoWork.next = NewPipeline
      BY DEF NoWork
    <3> HIDE DEF derived
    <3> QED
      BY <3>2, <3>3, <3>4, FreshRemembers
  <2>2. CASE ~StepDerive
    <3>1. work'.next = work.next \/ work'.next = NewPipeline
      BY <2>2, NextInHand
    <3> QED
      BY <3>1, FreshRemembers DEF Memory, RememberedBy
  <2> QED
    BY <2>1, <2>2
<1>6. RememberedBy(work.next)'
  BY <1>1, <1>5 DEF RememberedBy
<1> QED
  BY <1>3, <1>4, <1>6 DEF Memory

\* The initial state: L1 is empty, and so is the memory.
LEMMA InitMemory == Init => MemoryInv
<1> SUFFICES ASSUME Init PROVE MemoryInv
  OBVIOUS
<1>1. l1 = <<>> /\ d.dv = NewPipeline /\ work.next = NewPipeline /\ pc = "idle"
  BY DEF Init, FreshDriver, NoWork
<1>2. L1Inv
  BY <1>1 DEF L1Inv, PostsInOrder, Ascending, HashesSpent
<1>3. Memory
  BY <1>1, FreshRemembers DEF Memory, RememberedBy, LogsFit
<1> QED
  BY <1>2, <1>3, InitTypes DEF MemoryInv

\* What holds of L1 stays so.
LEMMA L1InvKept ==
  ASSUME Types, L1Inv, [Next]_vars, used'.reorgs = 0
  PROVE  L1Inv'
<1>1. ASSUME l1' = l1, used'.reorgs = used.reorgs PROVE L1Inv'
  BY <1>1 DEF L1Inv, PostsInOrder, Ascending, HashesSpent
<1>2. CASE StepNext \/ FlushNext
  BY <1>1, <1>2, DriverReadsL1
<1>3. CASE L1Next
  BY <1>3, L1InOrder
<1>4. CASE RestartNext
  BY <1>1, <1>4, RestartIsCounted
<1>5. CASE UNCHANGED vars
  BY <1>1, <1>5 DEF vars
<1> QED
  BY <1>2, <1>3, <1>4, <1>5 DEF Next

\* The logs a derivation has read do not change when L1 grows.
LEMMA LogsStay ==
  ASSUME Types, LogsFit, NEW batch, Mined(batch)
  PROVE  LogsFit'
<1> SUFFICES ASSUME pc = "blocks" PROVE SubSeq(l1', 1, d.seen) = SubSeq(l1, 1, d.seen)
  BY DEF LogsFit, Mined
<1> DEFINE E == L1Blocks(MaxL1, MaxReorgs, MaxEntries) \cup {[hash |-> used.reorgs, batch |-> batch]}
           b == [hash |-> used.reorgs, batch |-> batch]
           n == d.seen
<1>1. l1 \in Seq(L1Blocks(MaxL1, MaxReorgs, MaxEntries)) /\ n \in Nat /\ n <= Len(l1)
  BY TypeFacts, L1Data, DriverFields, Bounds DEF L1Number
<1>2. l1' = Append(l1, b) /\ b \in E
  BY DEF Mined
<1>3. l1 \in Seq(E)
  BY <1>1
<1> HIDE DEF E, b, n
<1>4. SubSeq(Append(l1, b), 1, n) = SubSeq(l1, 1, n)
  BY <1>1, <1>2, <1>3
<1> QED
  BY <1>2, <1>4 DEF n

\* Every step
LEMMA NextMemory == MemoryInv /\ [Next]_vars => MemoryInv'
<1> SUFFICES ASSUME MemoryInv, [Next]_vars PROVE MemoryInv'
  OBVIOUS
<1>1. Types /\ Types' /\ (used.reorgs = 0 => L1Inv /\ (used.crashes = 0 => Memory))
  BY NextTypes DEF MemoryInv
<1>2. used'.reorgs = 0 => used.reorgs = 0
  BY <1>1, ReorgsGrow
<1>3. used'.reorgs = 0 => L1Inv'
  BY <1>1, <1>2, L1InvKept
<1>4. ASSUME used'.reorgs = 0, used'.crashes = 0 PROVE Memory'
  <2>0. used.reorgs = 0 /\ L1Inv
    BY <1>1, <1>2, <1>4
  <2>1. CASE StepNext \/ FlushNext
    <3>1. used'.crashes = used.crashes
      BY <1>1, <2>1, DriverReadsL1
    <3> QED
      BY <1>1, <1>4, <2>0, <2>1, <3>1, DriverRemembers
  <2>2. CASE L1Next
    <3>1. StaysOrIsNew
      BY <1>1, <1>4, <2>0, <2>2, L1InOrder
    <3>2. UNCHANGED <<d, pc, work>>
      BY <2>2, L1Leaves
    <3>3. used'.crashes = used.crashes
      <4>1. used' = used \/ used' = [used EXCEPT !.reorgs = used.reorgs + 1]
        BY <2>2, L1Spends
      <4> QED
        BY <1>1, <4>1, TypeFacts DEF Spent
    <3>4. Memory
      BY <1>1, <1>4, <2>0, <3>3
    <3>5. d.dv \in CappedPipelines /\ work.next \in CappedPipelines
      BY <1>1, TypeFacts, DriverFields, WorkFields
    <3>6. /\ Remembers(l1', used'.reorgs, d.dv.cursor, d.dv.processed)
          /\ Remembers(l1', used'.reorgs, work.next.cursor, work.next.processed)
      BY <1>1, <3>1, <3>4, <3>5, L1Remembers DEF Memory, RememberedBy
    <3>7. LogsFit'
      <4>1. PICK batch : Mined(batch)
        BY <1>1, <1>4, <2>2, L1Cases, ReorgIsCounted
      <4> QED
        BY <1>1, <3>4, <4>1, LogsStay DEF Memory
    <3> QED
      BY <3>2, <3>6, <3>7 DEF Memory, RememberedBy
  <2>3. CASE RestartNext
    BY <1>1, <1>4, <2>3, RestartIsCounted
  <2>4. CASE UNCHANGED vars
    <3>1. l1' = l1 /\ used' = used /\ d' = d /\ work' = work /\ pc' = pc
      BY <2>4 DEF vars
    <3> QED
      BY <1>1, <1>4, <3>1 DEF Memory, RememberedBy, LogsFit
  <2> QED
    BY <2>1, <2>2, <2>3, <2>4 DEF Next
<1> QED
  BY <1>1, <1>3, <1>4 DEF MemoryInv

\* Until L1 reorganises or the node is restarted, what the driver remembers
\* fits the chain: the entries detect_reorg walks back through and rollback_to
\* cuts at are in order after every commit, cap, prune and rollback, even when a
\* batch was skipped because its transaction was not returned, and what waits
\* for submission is in the local chain unless a call failed.
THEOREM MemoryFitsChain == Spec => [](used.reorgs = 0 /\ used.crashes = 0 => RemembersChain)
<1> DEFINE Undisturbed == used.reorgs = 0 /\ used.crashes = 0
<1>1. Spec => []MemoryInv
  BY InitMemory, NextMemory, PTL DEF Spec
<1>2. MemoryInv => (Undisturbed => CursorSorted)
  BY DEF MemoryInv, Memory, RememberedBy, Remembers, Sorted, CursorSorted
<1>3. QueueIsLocal => ((Undisturbed => CursorSorted) => (Undisturbed => RemembersChain))
  BY DEF RemembersChain
<1> HIDE DEF Undisturbed
<1>4. Spec => [](Undisturbed => RemembersChain)
  BY <1>1, <1>2, <1>3, QueueFollowsChain, PTL
<1> QED
  BY <1>4 DEF Undisturbed

-----------------------------------------------------------------------------
(* What moves the anchor and the queue *)

\* The anchor stays, and the queues stay or are cleared.
Quiet(s, t) ==
  /\ s.anchor = t.anchor /\ s.seen = t.seen
  /\ \/ s.pending = t.pending /\ s.entries = t.entries
     \/ s.pending = <<>> /\ s.entries = <<>>

\* The operators that schedule a recovery leave the anchor alone.
LEMMA QuietRules ==
  ASSUME NEW s \in Drivers
  PROVE  /\ Quiet(s, s) /\ Quiet(ClearInternalState(s), s)
         /\ \A target, rollback : Quiet(RewindToReDerive(s, target, rollback), s)
         /\ \A n, root : Quiet(ApplySiblingReorgPlan(s, n, root), s)
         /\ \A b : Quiet(GenericMismatchRewind(s, b), s)
<1>1. Quiet(s, s) /\ Quiet(ClearInternalState(s), s)
  BY DEF Quiet, ClearInternalState, Drivers
<1>2. ASSUME NEW target, NEW rollback PROVE Quiet(RewindToReDerive(s, target, rollback), s)
  BY DEF Quiet, RewindToReDerive, SetRewindTarget, CountCycle, ClearInternalState, Drivers
<1>3. ASSUME NEW n, NEW root PROVE Quiet(ApplySiblingReorgPlan(s, n, root), s)
  BY DEF Quiet, ApplySiblingReorgPlan, SetRewindTarget, ClearInternalState, Drivers
<1>4. ASSUME NEW b PROVE Quiet(GenericMismatchRewind(s, b), s)
  BY DEF Quiet, GenericMismatchRewind, SetRewindTarget, CountCycle, ClearInternalState, Drivers
<1> QED
  BY <1>1, <1>2, <1>3, <1>4

\* So does verification.
LEMMA VerificationQuiet ==
  ASSUME NEW s \in Drivers, NEW b \in DerivedAbove
  PROVE  Quiet(Verification(s, b).d, s)
<1> DEFINE released == [s EXCEPT !.hold = Clear]
           deferred == [s EXCEPT !.hold = Deferred(@)]
           t == Verification(s, b).d
<1>1. \/ t = s \/ t = released \/ t = deferred
      \/ t = ApplySiblingReorgPlan(s, b.n, b.root)
      \/ t = RewindToReDerive(s, SaturatingPred(b.n), RollbackL1(s.anchor))
      \/ t = GenericMismatchRewind(s, b)
  BY VerificationOutcomes
<1>2. Quiet(released, s) /\ Quiet(deferred, s)
  BY DEF Quiet, Drivers
<1> HIDE DEF t, released, deferred
<1>3. Quiet(t, s)
  BY <1>1, <1>2, QuietRules
<1> QED
  BY <1>3 DEF t

\* step() does the same before its flush, but for the observation of L1, the
\* block of a refresh, the calls of a tick, and the blocks it builds, which are
\* queued as the last ones.
LEMMA StepQuiet ==
  ASSUME Types, StepNext
  PROVE  \/ Quiet(d', d)
         \/ /\ d'.anchor = d.anchor
            /\ \/ StepReorg /\ d'.pending = <<>> /\ d'.entries = <<>>
               \/ /\ StepUnchanged /\ d'.pending = d.pending /\ d'.entries = d.entries
                  /\ d'.seen = Len(l1)
         \/ /\ d'.anchor = d.anchor /\ d'.seen = d.seen
            /\ \/ StepRefresh /\ d'.pending = <<chain'>> /\ d'.entries = <<>>
               \/ BuildBlock /\ d'.pending = Append(d.pending, chain') /\ d'.entries = d.entries
               \/ ((\E k \in 0 .. MaxEntries : Tick(k)) \/ BuildFails) /\ d'.pending = d.pending
<1>1. d \in Drivers /\ Quiet(d, d) /\ Quiet(ClearInternalState(d), d)
  BY TypeFacts, QuietRules
<1>2. CASE StepRewind \/ StepRewindFails \/ Step
  <2>1. \E a, b : d' \in {ClearInternalState(d), [d EXCEPT !.cool = b],
                          [d EXCEPT !.rewind = a, !.cool = b],
                          ClearInternalState([d EXCEPT !.rewind = a, !.cool = b]),
                          [ClearInternalState([d EXCEPT !.rewind = a, !.cool = b])
                             EXCEPT !.ceiling = l2_head_number]}
    <3>1. CASE Step
      BY <3>1 DEF Step
    <3>2. CASE StepRewindFails
      BY <3>2 DEF StepRewindFails, Return
    <3>3. CASE StepRewind
      BY <3>3 DEF StepRewind, RewindL2Chain
    <3> QED
      BY <1>2, <3>1, <3>2, <3>3
  <2> QED
    BY <1>1, <2>1 DEF Quiet, ClearInternalState, Drivers
<1>3. CASE StepRefresh
  <2>1. \E p, r : d' = [ClearInternalState(d) EXCEPT !.dv = p, !.pending = <<chain'>>, !.refresh = r]
    <3> DEFINE c == ClearInternalState(d)
               p == [c.dv EXCEPT !.derived = d.refresh]
    <3>1. d' = [c EXCEPT !.dv = p, !.pending = <<chain'>>, !.refresh = 0]
      BY <1>3 DEF StepRefresh
    <3> HIDE DEF p
    <3> QED
      BY <3>1
  <2> QED
    BY <1>1, <1>3, <2>1 DEF ClearInternalState, Drivers
<1>4. CASE StepReorg
  <2> DEFINE c == ClearInternalState(d)
  <2>1. \E p, n, m : d' \in {[c EXCEPT !.seen = n, !.dv = p],
                          [[c EXCEPT !.seen = n, !.dv = p] EXCEPT !.mode = "sync"],
                          [[[c EXCEPT !.seen = n, !.dv = p] EXCEPT !.mode = "sync"]
                             EXCEPT !.ceiling = m]}
    BY <1>4 DEF StepReorg, RewindL2Chain
  <2>2. c \in Drivers /\ c.anchor = d.anchor /\ c.pending = <<>> /\ c.entries = <<>>
    BY <1>1, ClearType DEF ClearInternalState, Drivers
  <2> HIDE DEF c
  <2> QED
    BY <1>4, <2>1, <2>2 DEF Drivers
<1>5. CASE StepUnchanged
  <2>1. d' = [d EXCEPT !.seen = Len(l1)]
    BY <1>5 DEF StepUnchanged, Return
  <2> QED
    BY <1>1, <1>5, <2>1 DEF Drivers
<1>6. CASE StepRefreshFails \/ StepLogs \/ StepDerive \/ StepFails \/ TickIdle
  BY <1>1, <1>6, Derivation DEF StepRefreshFails, StepLogs, Derived, StepFails, TickIdle, Return
<1>7. CASE SyncRebuild \/ SyncSkip \/ SyncInsert \/ VerifyInsert
  <2>1. \/ d' = d
        \/ d' = [d EXCEPT !.sibling = NoRequest, !.cycles = 0, !.mismatches = 0, !.hold = Clear]
    BY <1>7 DEF SyncRebuild, SyncSkip, SyncInsert, VerifyInsert, InsertNext, Advance, Return
  <2> QED
    BY <1>1, <2>1 DEF Quiet, Drivers
<1>8. CASE SyncCommit \/ VerifyCommitBuilder \/ VerifyCommitFullnode
  <2>1. d' = d \/ \E p, m : d' \in {[d EXCEPT !.dv = p],
             [[ClearInternalState(d) EXCEPT !.cycles = 0, !.mode = m] EXCEPT !.dv = p]}
    BY <1>8 DEF SyncCommit, VerifyCommitBuilder, VerifyCommitFullnode, Commit
  <2> QED
    BY <1>1, <2>1 DEF Quiet, ClearInternalState, Drivers
<1>9. CASE VerifyBlock
  <2>1. NextBlock \in DerivedAbove
    BY <1>9, NextBlockType DEF VerifyBlock
  <2>2. d' = Verification(d, NextBlock).d
    BY <1>9 DEF VerifyBlock, Return
  <2> QED
    BY <1>1, <2>1, <2>2, VerificationQuiet
<1>10. CASE (\E k \in 0 .. MaxEntries : Tick(k)) \/ BuildFails
  <2>1. \E e, m : d' \in {[d EXCEPT !.entries = e], [d EXCEPT !.mode = m, !.entries = e]}
    BY <1>10 DEF Tick, BuildFails, Return
  <2>2. d'.anchor = d.anchor /\ d'.seen = d.seen /\ d'.pending = d.pending
    BY <1>1, <2>1 DEF Drivers
  <2> QED
    BY <1>10, <2>2
<1>11. CASE BuildBlock
  <2>1. d' = d \/ d' = [d EXCEPT !.pending = Append(d.pending, chain')]
    BY <1>11 DEF BuildBlock
  <2>2. CASE d' = d
    BY <1>1, <2>2
  <2>3. CASE d' = [d EXCEPT !.pending = Append(d.pending, chain')]
    BY <1>1, <1>11, <2>3 DEF Drivers
  <2> QED
    BY <2>1, <2>2, <2>3
<1> QED
  BY <1>2, <1>3, <1>4, <1>5, <1>6, <1>7, <1>8, <1>9, <1>10, <1>11 DEF StepNext

\* The flush moves them only when it trims the queue, submits it, or learns
\* what became of the batch.
LEMMA FlushQuiet ==
  ASSUME Types, FlushNext, pc # "wait", ~FlushTrim, ~FlushSubmit
  PROVE  Quiet(d', d)
<1>1. d \in Drivers /\ Quiet(d, d) /\ Quiet(ClearInternalState(d), d)
  BY TypeFacts, QuietRules
<1>2. CASE FlushSkip \/ FlushFails \/ FlushStale \/ FlushWaitsForRefresh \/ FlushSendFails
  <2>1. \E n, x, c : d' \in {d, [d EXCEPT !.refresh = n], [PreRootMatched(d) EXCEPT !.hold = x, !.cool = c]}
    BY <1>2 DEF FlushSkip, FlushFails, FlushStale, FlushWaitsForRefresh, FlushSendFails, FlushReturns
  <2> QED
    BY <1>1, <2>1 DEF Quiet, PreRootMatched, Drivers
<1>3. CASE FlushDispatch
  <2>1. \E p, x : d' = [ClearInternalState(d) EXCEPT !.sibling = x, !.dv = p, !.mode = "sync"]
    <3> DEFINE c == ClearInternalState(d)
               p == RollbackTo([c.dv EXCEPT !.derived = FlushPlanTarget(d.anchor, d.sibling.target)],
                               RollbackL1(d.anchor))
    <3>1. d' = [c EXCEPT !.sibling = d.sibling, !.dv = p, !.mode = "sync"]
      BY <1>3 DEF FlushDispatch, FlushReturns
    <3> HIDE DEF p
    <3> QED
      BY <3>1
  <2> QED
    BY <1>1, <2>1 DEF Quiet, ClearInternalState, Drivers
<1>4. CASE FlushMismatchTransient \/ FlushMismatchSibling
  <2>1. \E m, x : d' \in {[d EXCEPT !.mismatches = m], [[d EXCEPT !.mismatches = m] EXCEPT !.sibling = x]}
    BY <1>4 DEF FlushMismatchTransient, FlushMismatchSibling, Mismatched, FlushReturns
  <2> QED
    BY <1>1, <2>1 DEF Quiet, Drivers
<1>5. CASE FlushMismatchRewind
  <2> DEFINE t == IF d.cycles > 0 THEN Mismatched ELSE [d EXCEPT !.mismatches = 0]
  <2>1. \E target : d' = RewindToReDerive(t, target, RollbackL1(d.anchor))
    BY <1>5 DEF FlushMismatchRewind, FlushReturns
  <2>2. t.anchor = d.anchor /\ t.pending = d.pending /\ t.entries = d.entries /\ t.seen = d.seen
    BY <1>1 DEF Mismatched, Drivers
  <2>3. t \in Drivers
    <3>1. d.mismatches \in MismatchCounts
      BY <1>1, DriverFields
    <3>2. Smaller(d.mismatches + 1, MAX_FLUSH_MISMATCHES) \in MismatchCounts /\ 0 \in MismatchCounts
      BY <3>1 DEF MismatchCounts, Smaller, MAX_FLUSH_MISMATCHES
    <3> QED
      BY <1>1, <3>2 DEF Mismatched, Drivers
  <2> HIDE DEF t
  <2>4. Quiet(d', t)
    BY <2>1, <2>3, QuietRules
  <2> QED
    BY <2>2, <2>4 DEF Quiet
<1>6. ~(\/ TriggersNotSent \/ BatchConfirmed \/ BatchPartlyConsumed
        \/ BatchNotConsumed \/ BatchReverted \/ BatchUnknown)
  BY DEF TriggersNotSent, BatchConfirmed, BatchPartlyConsumed, BatchNotConsumed, BatchReverted, BatchUnknown
<1> QED
  BY <1>2, <1>3, <1>4, <1>5, <1>6 DEF FlushNext

\* What became of the batch: the queues stay empty, or get back what the batch
\* had taken.
LEMMA OutcomeQuiet ==
  ASSUME Types, FlushNext, pc = "wait", NoFault
  PROVE  \/ Landed /\ Quiet(d', Confirmed)
         \/ /\ Missed
            /\ \/ Quiet(d', d)
               \/ /\ d'.anchor = d.anchor /\ d'.seen = d.seen
                  /\ d'.pending = work.blocks \o d.pending /\ d'.entries = Sent.ents
<1>1. ~Fault
  BY FaultCounts
<1>2. \/ BatchConfirmed \/ BatchPartlyConsumed \/ BatchNotConsumed \/ BatchReverted
      \/ BatchUnknown
  BY <1>1 DEF FlushNext, FlushSkip, FlushFails, FlushTrim, FlushDispatch, FlushStale,
     FlushWaitsForRefresh, FlushMismatchTransient, FlushMismatchSibling, FlushMismatchRewind,
     FlushSubmit, FlushSendFails, TriggersNotSent, Proceed
<1>3. d \in Drivers /\ (Landed => Confirmed \in Drivers)
  BY TypeFacts, ConfirmedType
<1>4. CASE BatchConfirmed
  <2>1. Landed /\ \E x : d' \in {Confirmed, [Confirmed EXCEPT !.hold = x]}
    BY <1>4 DEF BatchConfirmed, FlushReturns
  <2> QED
    BY <1>3, <2>1 DEF Quiet, Drivers
<1>5. CASE BatchPartlyConsumed
  <2>1. Landed /\ \E target, rollback : d' = RewindToReDerive(Confirmed, target, rollback)
    BY <1>5 DEF BatchPartlyConsumed, FlushReturns
  <2> QED
    BY <1>3, <2>1, QuietRules
<1>6. CASE BatchNotConsumed
  <2>1. Landed /\ \E x, y : d' \in {Confirmed, [Confirmed EXCEPT !.hold = x],
                                 [Confirmed EXCEPT !.hold = x, !.sibling = y]}
    BY <1>6 DEF BatchNotConsumed, NothingConsumed, FlushReturns
  <2> QED
    BY <1>3, <2>1 DEF Quiet, Drivers
<1>7. CASE BatchReverted
  <2>1. Missed /\ \E target, rollback : d' = RewindToReDerive(d, target, rollback)
    BY <1>7 DEF BatchReverted, FlushReturns
  <2> QED
    BY <1>3, <2>1, QuietRules
<1>8. CASE BatchUnknown
  <2>1. Missed /\ d' = Requeued(d)
    BY <1>1, <1>8 DEF BatchUnknown, FlushReturns
  <2> DEFINE q == work.blocks \o d.pending
             e == Sent.ents
  <2>2. \E x, c : d' = [d EXCEPT !.hold = x, !.cool = c, !.pending = q, !.entries = e]
    BY <2>1 DEF Requeued
  <2> HIDE DEF q, e
  <2>3. d'.anchor = d.anchor /\ d'.seen = d.seen /\ d'.pending = q /\ d'.entries = e
    BY <1>3, <2>2 DEF Drivers
  <2> QED
    BY <2>1, <2>3 DEF q, e
<1> QED
  BY <1>2, <1>4, <1>5, <1>6, <1>7, <1>8

\* The points of step() an action leads to, and the transactions it adds.
LEMMA StepPhases ==
  ASSUME Types, StepNext
  PROVE  /\ mempool' = mempool /\ pc' \notin {"check", "wait"} /\ pc \notin {"check", "wait", "flush"}
         /\ pc' \in Live => BuilderMode \/ pc \in Live
<1>1. CASE \/ StepRewind \/ StepRewindFails \/ Step \/ StepRefresh \/ StepRefreshFails
           \/ StepReorg \/ StepUnchanged \/ StepLogs \/ StepDerive \/ StepFails
  <2>1. mempool' = mempool
    BY <1>1, Derivation DEF StepRewind, StepRewindFails, Step, StepRefresh, StepRefreshFails,
       StepReorg, StepUnchanged, StepLogs, StepFails
  <2>2. /\ pc' \in {"refresh", "latest", "idle", "logs", "blocks", "sync", "verify"}
        /\ pc \notin {"check", "wait", "flush"}
    BY <1>1, Derivation DEF StepRewind, StepRewindFails, Step, StepRefresh, StepRefreshFails,
       StepReorg, StepUnchanged, StepLogs, Derived, StepFails, Return
  <2> QED
    BY <2>1, <2>2 DEF Live
<1>2. CASE \/ SyncRebuild \/ SyncSkip \/ SyncInsert \/ SyncCommit
           \/ VerifyBlock \/ VerifyInsert \/ VerifyCommitFullnode
  <2>1. mempool' = mempool
    BY <1>2 DEF SyncRebuild, SyncSkip, SyncInsert, SyncCommit, VerifyBlock, VerifyInsert,
       InsertNext, VerifyCommitFullnode
  <2>2. pc' \in {pc, "idle"} /\ pc \in {"sync", "verify"}
    BY <1>2 DEF SyncRebuild, SyncSkip, SyncInsert, SyncCommit, VerifyBlock, VerifyInsert,
       InsertNext, VerifyCommitFullnode, Advance, Return
  <2> QED
    BY <2>1, <2>2 DEF Live
<1>3. CASE VerifyCommitBuilder
  BY <1>3 DEF VerifyCommitBuilder
<1>4. CASE TickIdle \/ (\E k \in 0 .. MaxEntries : Tick(k)) \/ BuildBlock \/ BuildFails
  <2>1. mempool' = mempool
    BY <1>4 DEF TickIdle, Tick, BuildBlock, BuildFails
  <2>2. pc' \in {"flush", "build", "idle"} /\ pc \in {"tick", "build"}
    BY <1>4 DEF TickIdle, Tick, BuildBlock, BuildFails, Return
  <2> QED
    BY <2>1, <2>2 DEF Live
<1> QED
  BY <1>1, <1>2, <1>3, <1>4 DEF StepNext

\* The same for the flush.
LEMMA FlushPhases ==
  ASSUME Types, FlushNext
  PROVE  /\ pc \in {"flush", "check", "wait"}
         /\ ~FlushSubmit /\ ~TriggersNotSent => mempool' = mempool
         /\ ~FlushSubmit => pc' # "wait"
         /\ ~FlushTrim => pc' # "check"
<1>1. CASE \/ FlushSkip \/ FlushFails \/ FlushTrim \/ FlushDispatch
           \/ FlushStale \/ FlushWaitsForRefresh
  BY <1>1 DEF FlushSkip, FlushFails, FlushTrim, FlushDispatch, FlushStale, FlushWaitsForRefresh, FlushReturns
<1>2. CASE \/ FlushMismatchTransient \/ FlushMismatchSibling \/ FlushMismatchRewind
           \/ FlushSubmit \/ FlushSendFails
  BY <1>2 DEF FlushMismatchTransient, FlushMismatchSibling, FlushMismatchRewind, FlushSubmit,
     FlushSendFails, Proceed, FlushReturns
<1>3. CASE \/ TriggersNotSent \/ BatchConfirmed \/ BatchPartlyConsumed
           \/ BatchNotConsumed \/ BatchReverted \/ BatchUnknown
  BY <1>3 DEF TriggersNotSent, BatchConfirmed, BatchPartlyConsumed, BatchNotConsumed, BatchReverted,
     BatchUnknown, FlushReturns
<1> QED
  BY <1>1, <1>2, <1>3 DEF FlushNext

-----------------------------------------------------------------------------
(* The queue is in the order of the blocks *)

Rising(queue) == \A i, j \in 1 .. Len(queue) : i < j => NumberOf(queue[i]) < NumberOf(queue[j])

\* Parts of a queue that is in order, and one more block.
LEMMA RisingParts ==
  ASSUME NEW q \in Seq(BuiltBlocks), Rising(q)
  PROVE  /\ Rising(<<>>) /\ \A r : Rising(<<r>>)
         /\ \A n \in 0 .. Len(q) : Rising(SubSeq(q, n + 1, Len(q)))
         /\ \A r \in Blocks : (\A i \in 1 .. Len(q) : NumberOf(q[i]) < NumberOf(r)) => Rising(Append(q, r))
         /\ \A n \in 0 .. Len(q) : SubSeq(q, 1, n) \o SubSeq(q, n + 1, Len(q)) = q
<1>1. Len(q) \in Nat
  OBVIOUS
<1>2. Rising(<<>>) /\ \A r : Rising(<<r>>)
  BY DEF Rising
<1>3. ASSUME NEW n \in 0 .. Len(q) PROVE Rising(SubSeq(q, n + 1, Len(q)))
  <2> DEFINE t == SubSeq(q, n + 1, Len(q))
             m == Len(q)
  <2>1. Len(t) = m - n /\ \A i \in 1 .. m - n : t[i] = q[n + i]
    BY <1>1
  <2>2. \A i \in 1 .. m - n : n + i \in 1 .. m
    BY <1>1
  <2>3. \A i, j \in 1 .. m - n : i < j => n + i < n + j
    BY <1>1
  <2>4. \A i, j \in 1 .. m : i < j => NumberOf(q[i]) < NumberOf(q[j])
    BY DEF Rising
  <2> HIDE DEF t, m
  <2>5. Rising(t)
    BY <2>1, <2>2, <2>3, <2>4 DEF Rising
  <2> QED
    BY <2>5 DEF t, m
<1>4. ASSUME NEW r \in Blocks, \A i \in 1 .. Len(q) : NumberOf(q[i]) < NumberOf(r)
      PROVE  Rising(Append(q, r))
  <2> DEFINE t == Append(q, r)
             m == Len(q)
  <2>1. Len(t) = m + 1 /\ t[m + 1] = r /\ \A i \in 1 .. m : t[i] = q[i]
    BY <1>1
  <2>2. \A i \in 1 .. m + 1 : i \in 1 .. m \/ i = m + 1
    BY <1>1
  <2>3. \A i, j \in 1 .. m + 1 : i < j => i \in 1 .. m
    BY <1>1
  <2>4. \A i, j \in 1 .. m : i < j => NumberOf(q[i]) < NumberOf(q[j])
    BY DEF Rising
  <2>5. \A i \in 1 .. m : NumberOf(q[i]) < NumberOf(r)
    BY <1>4
  <2> HIDE DEF t, m
  <2>6. Rising(t)
    BY <2>1, <2>2, <2>3, <2>4, <2>5 DEF Rising
  <2> QED
    BY <2>6 DEF t
<1>5. ASSUME NEW n \in 0 .. Len(q) PROVE SubSeq(q, 1, n) \o SubSeq(q, n + 1, Len(q)) = q
  <2> DEFINE a == SubSeq(q, 1, n)
             b == SubSeq(q, n + 1, Len(q))
             m == Len(q)
  <2>1. /\ a \in Seq(BuiltBlocks) /\ Len(a) = n /\ (\A i \in 1 .. n : a[i] = q[i])
        /\ b \in Seq(BuiltBlocks) /\ Len(b) = m - n /\ (\A i \in 1 .. m - n : b[i] = q[n + i])
    BY <1>1
  <2>2. n \in Nat /\ n <= m /\ m \in Nat
    BY <1>1
  <2> HIDE DEF a, b
  <2>3. /\ a \o b \in Seq(BuiltBlocks) /\ Len(a \o b) = n + (m - n)
        /\ (\A i \in 1 .. n : (a \o b)[i] = a[i])
        /\ \A i \in n + 1 .. n + (m - n) : (a \o b)[i] = b[i - n]
    <3>1. a \in Seq(BuiltBlocks) /\ b \in Seq(BuiltBlocks)
      BY <2>1
    <3>2. /\ a \o b \in Seq(BuiltBlocks) /\ Len(a \o b) = Len(a) + Len(b)
          /\ (\A i \in 1 .. Len(a) : (a \o b)[i] = a[i])
          /\ \A i \in Len(a) + 1 .. Len(a) + Len(b) : (a \o b)[i] = b[i - Len(a)]
      BY <3>1, ConcatElements
    <3> QED
      BY <2>1, <3>2
  <2> DEFINE t == a \o b
  <2>4. t \in Seq(BuiltBlocks) /\ Len(t) = m
    BY <2>2, <2>3
  <2>5. \A i \in 1 .. m : t[i] = q[i]
    <3> SUFFICES ASSUME NEW i \in 1 .. m PROVE t[i] = q[i]
      OBVIOUS
    <3>1. CASE i <= n
      BY <2>1, <2>2, <2>3, <3>1
    <3>2. CASE i > n
      <4>1. i \in n + 1 .. n + (m - n) /\ i - n \in 1 .. m - n /\ n + (i - n) = i
        BY <2>2, <3>2
      <4> QED
        BY <2>1, <2>3, <4>1
    <3>3. i <= n \/ i > n
      BY <2>2
    <3> QED
      BY <3>1, <3>2, <3>3
  <2> HIDE DEF t
  <2>6. t = q
    BY <2>4, <2>5 DEF m
  <2> QED
    BY <2>6 DEF t, a, b
<1> QED
  BY <1>2, <1>3, <1>4, <1>5

\* The later part of two.
LEMMA RisingTail ==
  ASSUME NEW p \in Seq(BuiltBlocks), NEW q \in Seq(BuiltBlocks), Rising(p \o q)
  PROVE  Rising(q)
<1> DEFINE m == Len(p)
           l == Len(q)
           t == p \o q
<1>1. m \in Nat /\ l \in Nat
  OBVIOUS
<1>2. Len(t) = m + l /\ \A i \in m + 1 .. m + l : t[i] = q[i - m]
  BY ConcatElements
<1>3. \A i, j \in 1 .. m + l : i < j => NumberOf(t[i]) < NumberOf(t[j])
  BY <1>2 DEF Rising
<1> HIDE DEF t, m
<1>4. \A i \in 1 .. l : m + i \in 1 .. m + l /\ m + i \in m + 1 .. m + l /\ (m + i) - m = i
  BY <1>1
<1>5. \A i \in 1 .. l : t[m + i] = q[i]
  BY <1>2, <1>4
<1>6. \A i, j \in 1 .. l : i < j => m + i < m + j
  BY <1>1
<1> HIDE DEF l
<1>7. \A i, j \in 1 .. l : i < j => NumberOf(q[i]) < NumberOf(q[j])
  BY <1>3, <1>4, <1>5, <1>6
<1> QED
  BY <1>7 DEF Rising, l

-----------------------------------------------------------------------------
(* The anchor without mishaps *)

\* No call failed, L1 was not reorganised, and the node was not restarted.
NoMishap == used.faults = 0 /\ used.reorgs = 0 /\ used.crashes = 0

\* The anchor is the last block of the last batch on L1.
Settled ==
  IF Posts = {} THEN d.anchor = NoAnchor
  ELSE d.anchor = [l2 |-> Top, l1 |-> LastOf(Posts)]

\* The batch in flight starts after the last confirmed block,
Ahead ==
  Sent.first # 0 =>
    Sent.first = Top + 1 /\ Sent.first <= Len(Sent.root) /\ Sent.target # 0

\* or it is the last one on L1 and its receipt has not been read.
Posted ==
  /\ Landed /\ Sent.first # 0 /\ AnchorSound
  /\ Posts # {} /\ LastOf(Posts) = Sent.target /\ Top = Len(Sent.root)

\* A builder without mishaps: only the batch it waits for can still be mined.
BuilderInv ==
  /\ pc # "wait" => Settled
  /\ pc = "wait" => (Settled /\ Ahead) \/ Posted
  /\ \A tx \in mempool : tx.target > Len(l1) => pc = "wait" /\ tx = Sent
  /\ pc = "check" => work.root = OnChainRoot
  /\ Rising(d.pending)
  /\ pc = "wait" => Rising(work.blocks \o d.pending)

\* A fullnode has no anchor.
FullnodeInv == d.anchor = NoAnchor /\ pc \notin Live

AnchorInv ==
  /\ LocalInv /\ (used.reorgs = 0 => L1Inv)
  /\ ~BuilderMode => FullnodeInv
  /\ BuilderMode /\ NoMishap => BuilderInv

\* A settled anchor is sound.
LEMMA SettledSound ==
  ASSUME Types, L1Inv, Settled
  PROVE  AnchorSound
<1> DEFINE p == LastOf(Posts)
<1>1. CASE Posts = {}
  BY <1>1 DEF Settled, AnchorSound
<1>2. CASE Posts # {}
  <2>1. p \in Posts /\ L1Typed /\ Top = Len(l1[p].batch.root)
    BY <1>2, TypeFacts, LastPost DEF Top
  <2>2. d.anchor = [l2 |-> Top, l1 |-> p]
    BY <1>2 DEF Settled
  <2>3. p \in 1 .. Len(l1) /\ l1[p].batch.blocks # <<>> /\ Len(l1) \in Nat
    BY <2>1, L1Data DEF Posts
  <2>4. Last(l1[p].batch.blocks).n = Top /\ Top \in Nat
    BY <2>1, <2>3, NumbersUpToTop DEF L1Inv, PostsInOrder, RootOfLast
  <2> HIDE DEF p
  <2>5. d.anchor.l2 = Top /\ d.anchor.l1 = p
    BY <2>2
  <2>6. p \in 1 .. Smaller(Len(l1), p)
    BY <2>3 DEF Smaller
  <2>7. l1[p].batch.blocks # <<>> /\ Last(l1[p].batch.blocks).n >= d.anchor.l2
    BY <2>3, <2>4, <2>5
  <2> QED
    BY <2>5, <2>6, <2>7 DEF AnchorSound
<1> QED
  BY <1>1, <1>2

\* It stays sound as L1 grows.
LEMMA SoundAsL1Grows ==
  ASSUME Types, AnchorSound, d' = d, NEW b, l1' = Append(l1, b)
  PROVE  AnchorSound'
<1>1. L1Typed /\ d.anchor.l1 \in Nat
  BY TypeFacts, DriverFields, Bounds DEF Anchors, L1Number
<1>2. l1 \in Seq(L1Blocks(MaxL1, MaxReorgs, MaxEntries)) /\ Len(l1) \in Nat
  BY <1>1, L1Data
<1>3. Len(l1') = Len(l1) + 1 /\ \A i \in 1 .. Len(l1) : l1'[i] = l1[i]
  BY <1>2
<1>4. \A i \in 1 .. Smaller(Len(l1), d.anchor.l1) : i \in 1 .. Len(l1) /\ i \in 1 .. Smaller(Len(l1'), d.anchor.l1)
  BY <1>1, <1>2, <1>3 DEF Smaller
<1> SUFFICES ASSUME d.anchor # NoAnchor
             PROVE  \E i \in 1 .. Smaller(Len(l1'), d.anchor.l1) :
                      l1'[i].batch.blocks # <<>> /\ Last(l1'[i].batch.blocks).n >= d.anchor.l2
  BY DEF AnchorSound
<1>5. PICK i \in 1 .. Smaller(Len(l1), d.anchor.l1) :
        l1[i].batch.blocks # <<>> /\ Last(l1[i].batch.blocks).n >= d.anchor.l2
  BY DEF AnchorSound
<1>6. l1'[i] = l1[i] /\ i \in 1 .. Smaller(Len(l1'), d.anchor.l1)
  BY <1>3, <1>4
<1> QED
  BY <1>5, <1>6

\* A block without a batch of blocks changes no post; one with such a batch is
\* the last post.
LEMMA PostsAsL1Grows ==
  ASSUME Types, NEW b, l1' = Append(l1, b)
  PROVE  /\ Len(l1') = Len(l1) + 1 /\ l1'[Len(l1) + 1] = b /\ \A i \in 1 .. Len(l1) : l1'[i] = l1[i]
         /\ b.batch.blocks = <<>> => Posts' = Posts /\ OnChainRoot' = OnChainRoot
         /\ b.batch.blocks # <<>> => /\ Posts' # {} /\ LastOf(Posts)' = Len(l1) + 1
                                     /\ OnChainRoot' = b.batch.root
<1> DEFINE m == Len(l1)
<1>1. l1 \in Seq(L1Blocks(MaxL1, MaxReorgs, MaxEntries)) /\ m \in Nat /\ L1Typed
  BY TypeFacts, L1Data
<1>2. Len(l1') = m + 1 /\ l1'[m + 1] = b /\ \A i \in 1 .. m : l1'[i] = l1[i]
  BY <1>1
<1> HIDE DEF m
<1>3. \A i \in 1 .. m + 1 : i \in 1 .. m \/ i = m + 1
  BY <1>1
<1>4. Posts' = {i \in 1 .. m + 1 : l1'[i].batch.blocks # <<>>}
  BY <1>2 DEF Posts
<1>5. Posts = {i \in 1 .. m : l1[i].batch.blocks # <<>>}
  BY DEF Posts, m
<1>6. OnChainRoot' = IF Posts' = {} THEN <<>> ELSE l1'[LastOf(Posts')].batch.root
  BY DEF OnChainRoot, ContractRoot, Posts
<1>7. OnChainRoot = IF Posts = {} THEN <<>> ELSE l1[LastOf(Posts)].batch.root
  BY DEF OnChainRoot, ContractRoot, Posts
<1>8. ASSUME b.batch.blocks = <<>> PROVE Posts' = Posts /\ OnChainRoot' = OnChainRoot
  <2>1. m + 1 \notin Posts'
    BY <1>2, <1>4, <1>8
  <2>2. \A i : i \in Posts' => i \in Posts
    BY <1>2, <1>3, <1>4, <1>5, <2>1
  <2>3. \A i : i \in Posts => i \in Posts'
    BY <1>1, <1>2, <1>4, <1>5
  <2>4. Posts' = Posts
    BY <2>2, <2>3
  <2>5. Posts # {} => LastOf(Posts) \in 1 .. m
    BY <1>1, <1>5, LastPost
  <2>6. OnChainRoot' = OnChainRoot
    BY <1>2, <1>6, <1>7, <2>4, <2>5
  <2> QED
    BY <2>4, <2>6
<1>9. ASSUME b.batch.blocks # <<>>
      PROVE  Posts' # {} /\ LastOf(Posts)' = m + 1 /\ OnChainRoot' = b.batch.root
  <2>1. m + 1 \in Posts'
    BY <1>1, <1>2, <1>4, <1>9
  <2>2. Posts' \in SUBSET (0 .. m + 1) /\ m + 1 \in Nat
    BY <1>1, <1>4
  <2> DEFINE p == LastOf(Posts')
  <2>3. p \in Posts' /\ \A i \in Posts' : i <= p
    BY <2>1, <2>2, LastOfFacts
  <2> HIDE DEF p
  <2>4. p = m + 1
    BY <1>1, <2>1, <2>2, <2>3
  <2> QED
    BY <1>2, <1>6, <2>1, <2>4 DEF p
<1> QED
  BY <1>2, <1>8, <1>9 DEF m

\* An L1 block without a batch of blocks, of its own or for another one's.
LEMMA MinedQuietly ==
  ASSUME Types, L1Inv, BuilderInv, NEW batch, Mined(batch), batch.blocks = <<>>
  PROVE  BuilderInv'
<1> DEFINE b == [hash |-> used.reorgs, batch |-> batch]
<1>1. l1' = Append(l1, b) /\ b.batch.blocks = <<>> /\ UNCHANGED <<chain, checkpoint, d, pc, work, used>>
  BY DEF Mined
<1> HIDE DEF b
<1>2. /\ Len(l1') = Len(l1) + 1 /\ (\A i \in 1 .. Len(l1) : l1'[i] = l1[i])
      /\ Posts' = Posts /\ OnChainRoot' = OnChainRoot
  BY <1>1, PostsAsL1Grows
<1>3. Len(l1) \in Nat /\ L1Typed
  BY TypeFacts
<1>4. Top' = Top /\ LastOf(Posts)' = LastOf(Posts)
  BY <1>2 DEF Top
<1>5. Settled => Settled'
  BY <1>1, <1>2, <1>4 DEF Settled
<1>6. Ahead => Ahead'
  BY <1>1, <1>4 DEF Ahead, Sent
<1>7. Posted => Posted'
  <2> SUFFICES ASSUME Posted PROVE Posted'
    OBVIOUS
  <2>1. Sent' = Sent
    BY <1>1 DEF Sent
  <2>2. Sent.target \in 1 .. Len(l1)
    <3>1. Sent.target \in Posts
      BY <1>3, LastPost DEF Posted
    <3> QED
      BY <3>1 DEF Posts
  <2>3. l1'[Sent.target] = l1[Sent.target]
    BY <1>2, <2>2
  <2>4. Len(l1') >= Sent.target
    BY <1>2, <1>3, <2>2
  <2>5. Landed'
    <3>1. /\ l1[Sent.target].batch.blocks = BlocksOf(Sent) /\ l1[Sent.target].batch.ents = Len(Sent.ents)
          /\ l1[Sent.target].batch # NoBatch
          /\ Sent.first # 0 => l1[Sent.target].batch.root = WithEntries(Sent.root, l1[Sent.target].batch.used)
      BY DEF Posted, Landed
    <3> QED
      BY <2>1, <2>3, <2>4, <3>1 DEF Landed, BlocksOf
  <2>6. AnchorSound'
    BY <1>1, SoundAsL1Grows DEF Posted
  <2> QED
    BY <1>2, <1>4, <2>1, <2>5, <2>6 DEF Posted
<1>8. \A tx \in mempool' : tx.target > Len(l1') => pc' = "wait" /\ tx = Sent'
  <2>1. \A tx \in mempool' : tx \in mempool
    BY DEF Mined
  <2>2. \A tx \in mempool : tx.target \in Nat
    <3>1. mempool \in SUBSET Txs /\ MaxL1 \in Nat
      BY TypeFacts, Bounds
    <3>2. \A tx \in Txs : tx.target \in Nat
      BY <3>1 DEF Txs
    <3> QED
      BY <3>1, <3>2
  <2>3. \A tx \in mempool : tx.target > Len(l1) + 1 => tx.target > Len(l1)
    BY <1>3, <2>2
  <2>4. Sent' = Sent
    BY <1>1 DEF Sent
  <2> QED
    BY <1>1, <1>2, <2>1, <2>3, <2>4 DEF BuilderInv
<1>9. pc' = "check" => work'.root = OnChainRoot'
  BY <1>1, <1>2 DEF BuilderInv
<1> QED
  BY <1>1, <1>5, <1>6, <1>7, <1>8, <1>9 DEF BuilderInv

\* The batch in flight is mined.
LEMMA BatchMined ==
  ASSUME Types, L1Inv, BuilderInv, NEW tx \in mempool, NEW consumed \in 0 .. Consumable(tx),
         L1Include(tx, consumed)
  PROVE  BuilderInv'
<1> DEFINE batch == BatchOf(tx, consumed)
           b == [hash |-> used.reorgs, batch |-> batch]
<1>1. tx.target = Len(l1) + 1 /\ Mined(batch)
  BY DEF L1Include, Accepts
<1>2. tx \in Txs /\ Len(l1) \in Nat /\ L1Typed
  BY TypeFacts
<1>3. pc = "wait" /\ tx = Sent
  BY <1>1, <1>2 DEF BuilderInv
<1>4. ~Posted
  <2> SUFFICES ASSUME Posted PROVE FALSE
    OBVIOUS
  <2>1. Sent.target \in Posts
    BY <1>2, LastPost DEF Posted
  <2> QED
    BY <1>1, <1>2, <1>3, <2>1 DEF Posts
<1>5. Settled /\ Ahead
  BY <1>3, <1>4 DEF BuilderInv
<1>6. CASE tx.first = 0
  <2>1. batch.blocks = <<>>
    BY <1>6 DEF BatchOf, BlocksOf
  <2> HIDE DEF batch
  <2> QED
    BY <1>1, <2>1, MinedQuietly
<1>7. CASE tx.first # 0
  <2>1. tx.root \in Blocks /\ Len(tx.root) \in Nat /\ tx.first \in Nat /\ tx.first <= Len(tx.root)
    <3>1. tx.root \in Blocks /\ tx.first \in Nat
      BY <1>2, Bounds DEF Txs, L2Number
    <3> QED
      BY <1>3, <1>5, <1>7, <3>1, BlockFacts DEF Ahead
  <2>2. BlocksOf(tx) # <<>>
    <3>1. 1 \in 1 .. (Len(tx.root) - tx.first + 1)
      BY <2>1
    <3>2. 1 \in DOMAIN BlocksOf(tx)
      BY <1>7, <3>1 DEF BlocksOf
    <3> QED
      BY <3>2
  <2>3. Len(batch.root) = Len(tx.root)
    BY <1>2, <1>7, IncludedType
  <2>4. batch.root = WithEntries(tx.root, batch.used) /\ batch.blocks = BlocksOf(tx)
        /\ batch.ents = Len(tx.ents)
    BY <1>7 DEF BatchOf
  <2> HIDE DEF batch
  <2>5. l1' = Append(l1, b) /\ b.batch = batch /\ UNCHANGED <<chain, checkpoint, d, pc, work, used>>
        /\ \A x \in mempool' : x \in mempool
    BY <1>1 DEF Mined
  <2>6. b.batch.blocks # <<>>
    BY <2>2, <2>4
  <2> HIDE DEF b
  <2>7. /\ Len(l1') = Len(l1) + 1 /\ l1'[Len(l1) + 1] = b
        /\ Posts' # {} /\ LastOf(Posts)' = Len(l1) + 1 /\ OnChainRoot' = batch.root
    BY <2>5, <2>6, PostsAsL1Grows
  <2>8. Sent' = Sent /\ tx = Sent'
    BY <1>3, <2>5 DEF Sent
  <2>9. Landed'
    <3>1. l1'[Sent.target].batch = batch /\ Len(l1') >= Sent.target
      BY <1>1, <1>2, <1>3, <2>5, <2>7
    <3>2. batch # NoBatch
      BY <2>2, <2>4 DEF NoBatch
    <3> QED
      BY <1>3, <2>4, <2>8, <3>1, <3>2 DEF Landed, BlocksOf
  <2>10. AnchorSound'
    BY <1>5, <2>5, SettledSound, SoundAsL1Grows
  <2>11. Posted'
    BY <1>1, <1>3, <1>7, <2>3, <2>7, <2>8, <2>9, <2>10 DEF Posted, Top
  <2>13. \A x \in mempool' : ~(x.target > Len(l1'))
    <3> SUFFICES ASSUME NEW x \in mempool', x.target > Len(l1') PROVE FALSE
      OBVIOUS
    <3>1. x \in mempool /\ x.target > Len(l1) + 1 /\ x \in Txs
      BY <2>5, <2>7, TypeFacts
    <3>2. x.target \in Nat
      BY <3>1, Bounds DEF Txs
    <3>3. x.target > Len(l1)
      BY <1>2, <3>1, <3>2
    <3>4. x = Sent
      BY <3>1, <3>3 DEF BuilderInv
    <3> QED
      BY <1>1, <1>2, <1>3, <3>1, <3>4
  <2> QED
    BY <1>3, <2>5, <2>11, <2>13 DEF BuilderInv
<1> QED
  BY <1>6, <1>7

\* What happens on L1
LEMMA L1Settled ==
  ASSUME Types, L1Inv, BuilderInv, BuilderMode, L1Next, used'.reorgs = 0
  PROVE  BuilderInv'
<1>1. CASE L1Mine
  <2>1. Mined(NoBatch) /\ NoBatch.blocks = <<>>
    BY <1>1 DEF L1Mine, NoBatch
  <2> QED
    BY <2>1, MinedQuietly
<1>2. CASE \E tx \in mempool : \E consumed \in 0 .. Consumable(tx) : L1Include(tx, consumed)
  BY <1>2, BatchMined
<1>3. \A batch : ~L1ForeignBatch(batch)
  BY DEF L1ForeignBatch, ForeignFits
<1>4. ~ \E i \in 1 .. Len(l1) : L1Reorgs(i)
  BY ReorgIsCounted
<1> QED
  BY <1>1, <1>2, <1>3, <1>4 DEF L1Next

\* The queued blocks the on-chain root belongs to have the anchor's number.
LEMMA TrimKeepsAnchor ==
  ASSUME Types, L1Inv, Settled
  PROVE  Trimmed(d, OnChainRoot).anchor = d.anchor
<1> DEFINE root == OnChainRoot
           hits == {i \in 1 .. Len(d.pending) : root \in RootChain(d.pending[i])}
           pos == CHOOSE i \in hits : \A h \in hits : h <= i
           n == NumberOf(d.pending[pos])
           anchor == IF d.anchor = NoAnchor \/ d.anchor.l2 < n THEN [l2 |-> n, l1 |-> d.seen] ELSE d.anchor
           t == Trimmed(d, root)
<1>1. /\ d \in Drivers /\ d.pending \in Queues /\ Len(d.pending) \in Nat
      /\ \A i \in 1 .. Len(d.pending) : d.pending[i] \in Blocks /\ d.pending[i] # <<>>
  BY TypeFacts, DriverFields, QueueFacts
<1>2. CASE hits = {}
  <2>1. t = d
    BY <1>2 DEF Trimmed
  <2> QED
    BY <2>1
<1>3. CASE hits # {}
  <2>1. hits \in SUBSET Nat /\ (\A x \in hits : x <= Len(d.pending)) /\ hits \subseteq 1 .. Len(d.pending)
    BY <1>1
  <2>2. t.anchor = anchor
    <3>1. \E x, y : t = [d EXCEPT !.sibling = x, !.pending = y, !.anchor = anchor]
      BY <1>3 DEF Trimmed
    <3> HIDE DEF t, anchor
    <3> QED
      BY <1>1, <3>1 DEF Drivers
  <2>3. \A i \in hits : root \in RootChain(d.pending[i])
    OBVIOUS
  <2> HIDE DEF hits, root
  <2>4. pos \in hits
    <3>1. \E x \in hits : \A y \in hits : y <= x
      BY <1>1, <1>3, <2>1, LargestNatural
    <3> QED
      BY <3>1
  <2> HIDE DEF pos
  <2> DEFINE b == d.pending[pos]
  <2>5. b \in Blocks /\ b # <<>> /\ root \in RootChain(b)
    BY <1>1, <2>1, <2>3, <2>4
  <2>6. n = NumberOf(b)
    OBVIOUS
  <2> HIDE DEF b, n
  <2>7. PICK k \in 0 .. b[Len(b)].k : root = WithEntries(b, k)
    BY <2>5 DEF RootChain
  <2>8. Len(root) = Len(b) /\ Len(b) \in Nat /\ Len(b) >= 1
    <3>1. b \in Seq(L2Blocks(MaxL1, MaxReorgs, MaxEntries))
      BY <2>5 DEF Blocks, Roots
    <3>2. Len(b) \in Nat /\ Len(b) >= 1 /\ DOMAIN b = 1 .. Len(b)
      BY <2>5, <3>1
    <3>3. DOMAIN root = 1 .. Len(b) /\ root \in Seq(L2Blocks(MaxL1, MaxReorgs, MaxEntries))
      <4>1. DOMAIN root = DOMAIN b
        BY <2>7 DEF WithEntries
      <4>2. root \in Blocks
        BY TypeFacts, OnChainRootType DEF root
      <4> QED
        BY <3>2, <4>1, <4>2 DEF Blocks, Roots
    <3> QED
      BY <3>2, <3>3
  <2>9. Top = n /\ n >= 1
    BY <2>6, <2>8 DEF Top, root, NumberOf
  <2>10. Posts # {}
    <3>1. Posts = {} => Len(OnChainRoot) = 0
      BY TypeFacts, LastPost
    <3> QED
      BY <2>8, <3>1 DEF root
  <2>11. d.anchor = [l2 |-> Top, l1 |-> LastOf(Posts)]
    BY <2>10 DEF Settled
  <2>12. d.anchor.l2 = n /\ n \in Nat
    BY <2>6, <2>8, <2>9, <2>11 DEF NumberOf
  <2>13. d.anchor # NoAnchor /\ ~(d.anchor.l2 < n)
    BY <2>9, <2>12 DEF NoAnchor
  <2>14. anchor = d.anchor
    BY <2>13
  <2> HIDE DEF t, anchor
  <2>15. t.anchor = d.anchor
    BY <2>2, <2>14
  <2> QED
    BY <2>15 DEF t, root
<1> QED
  BY <1>2, <1>3

\* flush_precheck reads the root that is on L1.
LEMMA TrimSettled ==
  ASSUME Types, L1Inv, BuilderInv, FlushTrim, FlushNext
  PROVE  BuilderInv'
<1>1. pc = "flush" /\ d' = Trimmed(d, OnChainRoot) /\ work' = [work EXCEPT !.root = OnChainRoot]
      /\ pc' = "check" /\ UNCHANGED <<l1, mempool, chain, checkpoint>>
  BY DEF FlushTrim
<1>2. Settled
  BY <1>1 DEF BuilderInv
<1>3. d'.anchor = d.anchor
  BY <1>1, <1>2, TrimKeepsAnchor
<1>4. Rising(d'.pending)
  <2>1. d \in Drivers /\ d.pending \in Seq(BuiltBlocks)
    BY TypeFacts, DriverFields, QueueFacts
  <2>2. PICK n \in 0 .. Len(d.pending) : d'.pending = SubSeq(d.pending, n + 1, Len(d.pending))
    BY <1>1, <2>1, TrimmedKeeps
  <2> QED
    BY <2>1, <2>2, RisingParts DEF BuilderInv
<1>5. work'.root = OnChainRoot
  <2>1. work \in Works
    BY TypeFacts
  <2> QED
    BY <1>1, <2>1 DEF Works
<1>6. Posts' = Posts /\ OnChainRoot' = OnChainRoot
  BY <1>1 DEF Posts, OnChainRoot
<1>7. Settled'
  BY <1>2, <1>3, <1>6 DEF Settled, Top
<1> QED
  BY <1>1, <1>4, <1>5, <1>6, <1>7 DEF BuilderInv

\* The batch that is sent starts after the last confirmed block.
LEMMA SubmitSettled ==
  ASSUME Types, L1Inv, BuilderInv, FlushSubmit
  PROVE  BuilderInv'
<1>1. /\ pc = "check" /\ pc' = "wait" /\ mempool' = mempool \cup {Submission} /\ ~Mismatch
      /\ UNCHANGED <<l1, chain, checkpoint>>
  BY DEF FlushSubmit, Proceed
<1>2. /\ d \in Drivers /\ d.pending \in Queues /\ work \in Works /\ Len(d.pending) \in Nat
      /\ d.pending \in Seq(BuiltBlocks) /\ BatchSize \in 0 .. Len(d.pending)
      /\ \A i \in 1 .. Len(d.pending) : d.pending[i] \in Blocks /\ d.pending[i] # <<>>
  BY TypeFacts, DriverFields, QueueFacts, BatchSizeType
<1>3. Settled /\ work.root = OnChainRoot /\ Rising(d.pending)
  BY <1>1 DEF BuilderInv
<1> DEFINE rest == SubSeq(d.pending, BatchSize + 1, Len(d.pending))
           blocks == SubSeq(d.pending, 1, BatchSize)
<1>4. d'.anchor = d.anchor /\ d'.pending = rest
  <2> DEFINE m == PreRootMatched(d)
             h == HoldArmed(m)
  <2>1. m \in Drivers /\ m.anchor = d.anchor /\ m.pending = d.pending
    <3>1. m.anchor = d.anchor
      BY <1>2 DEF PreRootMatched, Drivers
    <3> QED
      BY <1>2, <3>1, MatchedType
  <2>2. d' = [h EXCEPT !.pending = SubSeq(h.pending, BatchSize + 1, Len(h.pending)), !.entries = <<>>]
    BY DEF FlushSubmit
  <2>3. \E x : h = [m EXCEPT !.hold = x]
    BY DEF HoldArmed
  <2> HIDE DEF m, h
  <2> QED
    BY <2>1, <2>2, <2>3 DEF Drivers
<1>5. work'.sent = Submission /\ work'.blocks = blocks
  <2>1. work' = [work EXCEPT !.sent = Submission, !.blocks = blocks]
    BY DEF FlushSubmit
  <2> HIDE DEF blocks
  <2> QED
    BY <1>2, <2>1 DEF Works
<1>6. Rising(rest) /\ blocks \o rest = d.pending
  BY <1>2, <1>3, RisingParts
<1>7. Posts' = Posts /\ OnChainRoot' = OnChainRoot
  BY <1>1 DEF Posts, OnChainRoot
<1>8. Settled'
  BY <1>3, <1>4, <1>7 DEF Settled, Top
<1>9. Submission.first # 0 =>
        /\ Submission.first = Top + 1 /\ Submission.first <= Len(Submission.root)
        /\ Submission.target # 0
  <2>1. CASE BatchSize = 0
    <3>1. Submission.first = 0
      BY <2>1 DEF Submission, NoTx
    <3> QED
      BY <3>1
  <2>2. CASE BatchSize # 0
    <3> DEFINE n == BatchSize
    <3>1. n \in 1 .. Len(d.pending) /\ 1 \in 1 .. Len(d.pending) /\ d.pending # <<>>
      BY <1>2, <2>2
    <3>2. Submission.root = d.pending[n] /\ Submission.first = NumberOf(FrontBlock)
          /\ Submission.target = ContextOf(FrontBlock) + 1
      BY <2>2 DEF Submission
    <3> HIDE DEF n
    <3>3. FrontBlock = d.pending[1] /\ FrontBlock \in Blocks /\ FrontBlock # <<>> /\ d.pending[n] \in Blocks
      BY <1>2, <3>1 DEF FrontBlock
    <3>4. PreRoot(FrontBlock) = OnChainRoot
      BY <1>1, <1>3, <3>1 DEF Mismatch
    <3>5. Len(FrontBlock) \in Nat /\ Len(d.pending[n]) \in Nat /\ Len(FrontBlock) >= 1
          /\ Len(PreRoot(FrontBlock)) = Len(FrontBlock) - 1
      <4> DEFINE f == FrontBlock
      <4>1. f \in Seq(L2Blocks(MaxL1, MaxReorgs, MaxEntries)) /\ f # <<>>
        BY <3>3 DEF Blocks, Roots
      <4> HIDE DEF f
      <4>2. Len(f) \in Nat /\ Len(f) >= 1
        BY <4>1
      <4> DEFINE o == Len(f) - 1
      <4>3. o \in 0 .. Len(f)
        BY <4>2
      <4> HIDE DEF o
      <4>4. Len(SubSeq(f, 1, o)) = o
        BY <4>1, <4>2, <4>3
      <4>5. Len(PreRoot(f)) = o
        BY <4>4 DEF PreRoot, o
      <4> QED
        BY <3>3, <4>2, <4>5, BlockFacts DEF f, o
    <3>6. Top = Len(FrontBlock) - 1
      BY <3>4, <3>5 DEF Top
    <3>7. Len(FrontBlock) <= Len(d.pending[n])
      <4>1. CASE n = 1
        BY <3>3, <3>5, <4>1
      <4>2. CASE n # 1
        <5>1. 1 < n
          BY <3>1, <4>2
        <5>2. NumberOf(d.pending[1]) < NumberOf(d.pending[n])
          BY <1>3, <3>1, <5>1 DEF Rising
        <5> QED
          BY <3>3, <3>5, <5>2 DEF NumberOf
      <4> QED
        BY <4>1, <4>2
    <3>8. ContextOf(FrontBlock) + 1 # 0
      BY <3>3, BlockFacts, Bounds DEF L1Number
    <3> QED
      BY <3>2, <3>5, <3>6, <3>7, <3>8 DEF NumberOf
  <2> QED
    BY <2>1, <2>2
<1>10. Ahead'
  BY <1>5, <1>7, <1>9 DEF Ahead, Sent, Top
<1>11. \A tx \in mempool' : tx.target > Len(l1') => pc' = "wait" /\ tx = Sent'
  <2>1. \A tx \in mempool : ~(tx.target > Len(l1))
    BY <1>1 DEF BuilderInv
  <2> QED
    BY <1>1, <1>5, <2>1 DEF Sent
<1>12. Rising(work'.blocks \o d'.pending)
  BY <1>3, <1>4, <1>5, <1>6
<1> HIDE DEF rest, blocks
<1> QED
  BY <1>1, <1>4, <1>6, <1>8, <1>10, <1>11, <1>12 DEF BuilderInv

\* The anchor the receipt of the batch sets is settled.
LEMMA ReceiptSettles ==
  ASSUME Types, L1Inv, BuilderInv, pc = "wait", Landed
  PROVE  /\ Posts = {} => Confirmed.anchor = NoAnchor
         /\ Posts # {} => Confirmed.anchor = [l2 |-> Top, l1 |-> LastOf(Posts)]
<1>1. CASE Sent.first = 0
  BY <1>1 DEF BuilderInv, Posted, Settled, Confirmed
<1>2. CASE Sent.first # 0
  <2>1. d \in Drivers /\ Sent \in Txs /\ L1Typed /\ Len(l1) \in Nat
    BY TypeFacts, WorkFields DEF Sent
  <2>2. ~(Settled /\ Ahead)
    <3> SUFFICES ASSUME Ahead PROVE FALSE
      OBVIOUS
    <3>1. /\ Sent.root \in Blocks /\ Len(Sent.root) \in Nat /\ Sent.first \in Nat
          /\ Sent.first = Top + 1 /\ Sent.first <= Len(Sent.root)
      <4>1. Sent.root \in Blocks /\ Sent.first \in Nat
        BY <2>1, Bounds DEF Txs, L2Number
      <4> QED
        BY <1>2, <4>1, BlockFacts DEF Ahead
    <3>2. Sent.target \in 1 .. Len(l1) /\ l1[Sent.target].batch.blocks = BlocksOf(Sent)
      <4>1. Sent.target \in Nat /\ Sent.target # 0
        BY <1>2, <2>1, Bounds DEF Txs, Ahead
      <4> QED
        BY <2>1, <4>1 DEF Landed
    <3> DEFINE n == Sent.first
               m == Len(Sent.root) - n + 1
               blocks == [j \in 1 .. m |-> [n |-> n + j - 1, k |-> Sent.root[n + j - 1].k]]
    <3>3. BlocksOf(Sent) = blocks
      BY <1>2 DEF BlocksOf
    <3>4. m \in Nat /\ 1 \in 1 .. m /\ n \in Nat
      BY <3>1
    <3> HIDE DEF m, n
    <3>5. Len(blocks) = m /\ blocks[1].n = n
      BY <3>4
    <3> HIDE DEF blocks
    <3>6. HasBlock(l1[Sent.target].batch, n)
      BY <3>2, <3>3, <3>4, <3>5 DEF HasBlock
    <3>7. n <= Top /\ Top \in Nat
      BY <2>1, <3>2, <3>6, NumbersUpToTop DEF L1Inv
    <3> QED
      BY <3>1, <3>7 DEF n
  <2>3. Posted
    BY <2>2 DEF BuilderInv
  <2> DEFINE a == [l2 |-> NumberOf(Sent.root), l1 |-> Sent.target]
  <2>4. Confirmed = [d EXCEPT !.anchor = a]
    BY <1>2 DEF Confirmed
  <2>5. Confirmed.anchor = a
    <3> HIDE DEF a
    <3> QED
      BY <2>1, <2>4 DEF Drivers
  <2> QED
    BY <2>3, <2>5 DEF Posted, NumberOf
<1> QED
  BY <1>1, <1>2

\* A receipt that is read, or one that will never come, settles the anchor.
LEMMA OutcomeSettled ==
  ASSUME Types, L1Inv, BuilderInv, pc = "wait", FlushNext, NoFault
  PROVE  BuilderInv'
<1>1. ~Fault
  BY FaultCounts
<1>2. \/ BatchConfirmed \/ BatchPartlyConsumed \/ BatchNotConsumed \/ BatchReverted
      \/ BatchUnknown
  BY <1>1 DEF FlushNext, FlushSkip, FlushFails, FlushTrim, FlushDispatch, FlushStale,
     FlushWaitsForRefresh, FlushMismatchTransient, FlushMismatchSibling, FlushMismatchRewind,
     FlushSubmit, FlushSendFails, TriggersNotSent, Proceed
<1>3. l1' = l1 /\ mempool' = mempool /\ pc' \notin {"wait", "check"}
  BY <1>1, DriverReadsL1, FlushPhases DEF FlushSubmit, FlushTrim, Proceed, TriggersNotSent
<1>4. Landed \/ Missed
  BY <1>1, <1>2 DEF BatchConfirmed, BatchPartlyConsumed, BatchNotConsumed, BatchReverted, BatchUnknown
<1>5. /\ d \in Drivers /\ work \in Works /\ d.pending \in Seq(BuiltBlocks)
      /\ work.blocks \in Seq(BuiltBlocks)
  BY TypeFacts, WorkFields, DriverFields, QueueFacts
<1>6. Missed => Settled
  BY DEF BuilderInv, Posted, Missed
<1>7. ASSUME Landed
      PROVE  Confirmed \in Drivers /\ Confirmed.pending = d.pending
  <2>1. Confirmed \in Drivers
    BY <1>7, ConfirmedType
  <2>2. \E a : Confirmed \in {d, [d EXCEPT !.anchor = a]}
    BY DEF Confirmed
  <2> QED
    BY <1>5, <2>1, <2>2 DEF Drivers
<1>8. \/ Landed /\ d'.anchor = Confirmed.anchor /\ d'.pending \in {d.pending, <<>>}
      \/ Missed /\ d'.anchor = d.anchor /\ d'.pending \in {d.pending, <<>>, work.blocks \o d.pending}
  <2>1. Landed /\ Quiet(d', Confirmed) => d'.anchor = Confirmed.anchor /\ d'.pending \in {d.pending, <<>>}
    BY <1>7 DEF Quiet
  <2>2. Quiet(d', d) => d'.anchor = d.anchor /\ d'.pending \in {d.pending, <<>>}
    BY DEF Quiet
  <2> QED
    BY <2>1, <2>2, OutcomeQuiet
<1>9. Posts' = Posts /\ OnChainRoot' = OnChainRoot
  BY <1>3 DEF Posts, OnChainRoot
<1>10. Settled'
  <2>1. \/ d'.anchor = Confirmed.anchor /\ Landed
        \/ d'.anchor = d.anchor /\ Settled
    BY <1>6, <1>8
  <2>2. CASE d'.anchor = Confirmed.anchor /\ Landed
    <3>1. /\ Posts = {} => d'.anchor = NoAnchor
          /\ Posts # {} => d'.anchor = [l2 |-> Top, l1 |-> LastOf(Posts)]
      BY <2>2, ReceiptSettles
    <3> QED
      BY <1>9, <3>1 DEF Settled, Top
  <2>3. CASE d'.anchor = d.anchor /\ Settled
    BY <1>9, <2>3 DEF Settled, Top
  <2> QED
    BY <2>1, <2>2, <2>3
<1>11. \A tx \in mempool : ~(tx.target > Len(l1))
  <2>1. Sent.target <= Len(l1) /\ Sent.target \in Nat /\ Len(l1) \in Nat
    <3>1. Sent \in Txs /\ Len(l1) \in Nat
      BY TypeFacts, WorkFields DEF Sent
    <3> QED
      BY <1>4, <3>1, Bounds DEF Txs, Landed, Missed
  <2> QED
    BY <2>1 DEF BuilderInv
<1>12. Rising(d'.pending)
  BY <1>5, <1>8, RisingParts DEF BuilderInv
<1> QED
  BY <1>3, <1>10, <1>11, <1>12 DEF BuilderInv

\* step() moves the anchor in no way, and queues its blocks in order.
LEMMA StepSettled ==
  ASSUME Types, Types', Kept, L1Inv, BuilderInv, StepNext
  PROVE  BuilderInv'
<1>1. /\ l1' = l1 /\ mempool' = mempool /\ pc' \notin {"check", "wait"}
      /\ pc \notin {"check", "wait", "flush"}
  BY DriverReadsL1, StepPhases
<1>2. Settled /\ (\A tx \in mempool : ~(tx.target > Len(l1))) /\ Rising(d.pending)
  BY <1>1 DEF BuilderInv
<1>3. d'.anchor = d.anchor
  <2>1. Quiet(d', d) => d'.anchor = d.anchor
    BY DEF Quiet
  <2> QED
    BY <2>1, StepQuiet
<1>4. Posts' = Posts /\ OnChainRoot' = OnChainRoot
  BY <1>1 DEF Posts, OnChainRoot
<1>5. Settled'
  BY <1>2, <1>3, <1>4 DEF Settled, Top
<1>6. d.pending \in Seq(BuiltBlocks) /\ \A i \in 1 .. Len(d.pending) : d.pending[i] \in Blocks
  BY TypeFacts, DriverFields, QueueFacts
<1>7. Rising(d'.pending)
  <2>1. CASE d'.pending \in {d.pending, <<>>}
    BY <1>2, <1>6, <2>1, RisingParts
  <2>2. CASE d'.pending = <<chain'>>
    BY <1>2, <1>6, <2>2, RisingParts
  <2>3. CASE BuildBlock /\ d'.pending = Append(d.pending, chain')
    <3>1. chain' \in Blocks /\ Len(chain') = Len(chain) + 1 /\ Len(chain) \in Nat
      <4>1. \E b : chain' = Append(chain, b)
        BY <2>3 DEF BuildBlock
      <4>2. chain \in Seq(L2Blocks(MaxL1, MaxReorgs, MaxEntries)) /\ chain' \in Blocks
        BY DEF Types, Blocks, Roots
      <4> QED
        BY <4>1, <4>2
    <3>2. ASSUME NEW i \in 1 .. Len(d.pending) PROVE NumberOf(d.pending[i]) < NumberOf(chain')
      <4>1. IsPrefix(d.pending[i], chain)
        BY DEF Kept, AllOn
      <4>2. Len(d.pending[i]) <= Len(chain) /\ Len(d.pending[i]) \in Nat
        BY <1>6, <4>1, BlockFacts DEF IsPrefix
      <4> QED
        BY <3>1, <4>2 DEF NumberOf
    <3> QED
      BY <1>2, <1>6, <2>3, <3>1, <3>2, RisingParts
  <2>4. Quiet(d', d) => d'.pending \in {d.pending, <<>>}
    BY DEF Quiet
  <2> QED
    BY <2>1, <2>2, <2>3, <2>4, StepQuiet
<1> QED
  BY <1>1, <1>2, <1>5, <1>7 DEF BuilderInv

\* Every step of the flush that reports no failure
LEMMA FlushSettled ==
  ASSUME Types, L1Inv, BuilderInv, FlushNext, used'.faults = 0
  PROVE  BuilderInv'
<1>1. CASE pc = "wait"
  <2>1. NoFault
    <3>1. [Next]_vars
      BY DEF Next
    <3> QED
      BY <3>1, FaultsGrow, FaultCounts
  <2> QED
    BY <1>1, <2>1, OutcomeSettled
<1>2. CASE FlushTrim
  BY <1>2, TrimSettled
<1>3. CASE FlushSubmit
  BY <1>3, SubmitSettled
<1>4. ASSUME pc # "wait", ~FlushTrim, ~FlushSubmit PROVE BuilderInv'
  <2>1. l1' = l1 /\ mempool' = mempool /\ pc' \notin {"check", "wait"}
    BY <1>4, DriverReadsL1, FlushPhases DEF TriggersNotSent
  <2>2. Settled /\ (\A tx \in mempool : ~(tx.target > Len(l1))) /\ Rising(d.pending)
    BY <1>4 DEF BuilderInv
  <2>3. Quiet(d', d)
    BY <1>4, FlushQuiet
  <2>4. Posts' = Posts /\ OnChainRoot' = OnChainRoot
    BY <2>1 DEF Posts, OnChainRoot
  <2>5. Settled'
    BY <2>2, <2>3, <2>4 DEF Settled, Top, Quiet
  <2>6. Rising(d'.pending)
    BY <2>2, <2>3, TypeFacts, DriverFields, QueueFacts, RisingParts DEF Quiet
  <2> QED
    BY <2>1, <2>2, <2>5, <2>6 DEF BuilderInv
<1> QED
  BY <1>1, <1>2, <1>3, <1>4

\* Nothing un-happens.
LEMMA MishapsStay ==
  ASSUME Types, [Next]_vars, NoMishap'
  PROVE  NoMishap /\ ~RestartNext /\ used'.faults = 0 /\ used'.reorgs = 0
<1>1. used'.faults = 0 /\ used'.reorgs = 0 /\ used'.crashes = 0 /\ used \in Spent
  BY TypeFacts DEF NoMishap
<1>2. used.faults = 0
  BY <1>1, FaultsGrow
<1>3. ~RestartNext
  BY <1>1, RestartIsCounted
<1>4. used.reorgs = 0 /\ used.crashes = 0
  <2>1. CASE StepNext \/ FlushNext
    BY <1>1, <2>1, DriverReadsL1
  <2>2. CASE L1Next
    <3>1. used' = used \/ used' = [used EXCEPT !.reorgs = used.reorgs + 1]
      BY <2>2, L1Spends
    <3>2. used.reorgs \in Nat
      BY <1>1, Bounds DEF Spent
    <3> QED
      BY <1>1, <3>1, <3>2 DEF Spent
  <2>3. CASE UNCHANGED vars
    BY <1>1, <2>3 DEF vars
  <2> QED
    BY <1>3, <2>1, <2>2, <2>3 DEF Next
<1> QED
  BY <1>1, <1>2, <1>3, <1>4 DEF NoMishap

\* A fullnode never gets to the flush.
LEMMA FullnodeNext ==
  ASSUME Types, FullnodeInv, ~BuilderMode, [Next]_vars
  PROVE  FullnodeInv'
<1>1. CASE StepNext
  <2>1. d'.anchor = d.anchor
    BY <1>1, StepQuiet DEF Quiet
  <2> QED
    BY <1>1, <2>1, StepPhases DEF FullnodeInv
<1>2. ~FlushNext
  BY FlushPhases DEF FullnodeInv, Live
<1>3. CASE L1Next
  <2>1. UNCHANGED <<d, pc>>
    BY <1>3, L1Leaves
  <2> QED
    BY <2>1 DEF FullnodeInv
<1>4. CASE RestartNext
  <2>1. pc' = "idle" /\ \E p : d' = [FreshDriver EXCEPT !.anchor = d.anchor, !.dv = p]
    BY <1>4 DEF RestartNext, Crash, Shutdown, Restart
  <2>2. d'.anchor = d.anchor
    BY <2>1 DEF FreshDriver
  <2> QED
    BY <2>1, <2>2 DEF FullnodeInv, Live
<1>5. CASE UNCHANGED vars
  BY <1>5 DEF FullnodeInv, vars
<1> QED
  BY <1>1, <1>2, <1>3, <1>4, <1>5 DEF Next

\* The initial state: no L1 block, nothing queued, no anchor
LEMMA InitAnchor == Init => AnchorInv
<1> SUFFICES ASSUME Init PROVE AnchorInv
  OBVIOUS
<1>1. l1 = <<>> /\ mempool = {} /\ pc = "idle" /\ d.anchor = NoAnchor /\ d.pending = <<>>
  BY DEF Init, FreshDriver
<1>2. Posts = {} /\ L1Inv
  BY <1>1 DEF Posts, L1Inv, PostsInOrder, Ascending, HashesSpent
<1>3. BuilderInv
  BY <1>1, <1>2 DEF BuilderInv, Settled, Rising
<1> QED
  BY <1>1, <1>2, <1>3, InitLocal DEF AnchorInv, FullnodeInv, Live

\* Every step
LEMMA NextAnchor == AnchorInv /\ [Next]_vars => AnchorInv'
<1> SUFFICES ASSUME AnchorInv, [Next]_vars PROVE AnchorInv'
  OBVIOUS
<1>1. Types /\ Types' /\ LocalInv /\ LocalInv' /\ (used.reorgs = 0 => L1Inv)
  BY NextLocal DEF AnchorInv, LocalInv
<1>2. used'.reorgs = 0 => L1Inv'
  BY <1>1, ReorgsGrow, L1InvKept
<1>3. ~BuilderMode => FullnodeInv'
  BY <1>1, FullnodeNext DEF AnchorInv
<1>4. ASSUME BuilderMode, NoMishap' PROVE BuilderInv'
  <2>1. NoMishap /\ ~RestartNext /\ used'.faults = 0 /\ used'.reorgs = 0
    BY <1>1, <1>4, MishapsStay
  <2>2. BuilderInv /\ Kept /\ L1Inv
    BY <1>1, <1>4, <2>1 DEF AnchorInv, LocalInv, NoMishap
  <2>3. CASE StepNext
    BY <1>1, <2>2, <2>3, StepSettled
  <2>4. CASE FlushNext
    BY <1>1, <2>1, <2>2, <2>4, FlushSettled
  <2>5. CASE L1Next
    BY <1>1, <1>4, <2>1, <2>2, <2>5, L1Settled
  <2>6. CASE UNCHANGED vars
    <3>1. UNCHANGED <<l1, mempool, d, pc, work>>
      BY <2>6 DEF vars
    <3>2. Posts' = Posts /\ OnChainRoot' = OnChainRoot
      BY <3>1 DEF Posts, OnChainRoot
    <3>3. (Settled => Settled') /\ (Ahead => Ahead') /\ (Posted => Posted')
      <4>1. Settled => Settled'
        BY <3>1, <3>2 DEF Settled, Top
      <4>2. Ahead => Ahead'
        BY <3>1, <3>2 DEF Ahead, Sent, Top
      <4>3. Landed' = Landed /\ AnchorSound' = AnchorSound
        BY <3>1 DEF Landed, AnchorSound, Sent, BlocksOf
      <4>4. Posted => Posted'
        BY <3>1, <3>2, <4>3 DEF Posted, Sent, Top
      <4> QED
        BY <4>1, <4>2, <4>4
    <3>4. Sent' = Sent
      BY <3>1 DEF Sent
    <3> QED
      BY <2>2, <3>1, <3>2, <3>3, <3>4 DEF BuilderInv
  <2> QED
    BY <2>1, <2>3, <2>4, <2>5, <2>6 DEF Next
<1> QED
  BY <1>1, <1>2, <1>3, <1>4 DEF AnchorInv

\* As long as no call failed, L1 was not reorganised and the node not restarted,
\* the anchor's L1 block is not before the batch that confirmed the anchor,
\* whatever was mined, missed or partly consumed: derivation that is rolled
\* back to it loses no confirmed block. For a builder and for a fullnode.
THEOREM AnchorIsSound == Spec => [](NoMishap => AnchorSound)
<1>1. Spec => []AnchorInv
  BY InitAnchor, NextAnchor, PTL DEF Spec
<1>2. AnchorInv => (NoMishap => AnchorSound)
  <2> SUFFICES ASSUME AnchorInv, NoMishap PROVE AnchorSound
    OBVIOUS
  <2>1. CASE BuilderMode
    <3>1. Settled \/ AnchorSound
      BY <2>1 DEF AnchorInv, BuilderInv, Posted
    <3> QED
      BY <3>1, SettledSound DEF AnchorInv, LocalInv, NoMishap
  <2>2. CASE ~BuilderMode
    BY <2>2 DEF AnchorInv, FullnodeInv, AnchorSound
  <2> QED
    BY <2>1, <2>2
<1> QED
  BY <1>1, <1>2, PTL

-----------------------------------------------------------------------------
(* What a batch carries on the bundle path *)

\* The bundle path as configured: what may wait for submission fits one batch
\* and the queue.
BundleRoom ==
  /\ BundlePath
  /\ BUNDLE_PATH_PENDING_CAP \in 1 .. Smaller(MAX_BATCH_SIZE, MAX_PENDING_SUBMISSIONS)

Room == BUNDLE_PATH_PENDING_CAP

ForBlock(entries, n) == \A j \in 1 .. Len(entries) : entries[j] = n

\* A posted root is that of a block built on an earlier L1 block.
PostedLater ==
  \A p \in Posts : l1[p].batch.root # <<>> /\ ContextOf(l1[p].batch.root) < p

\* A queue that fits the room, whose first block has the oldest L1 context:
\* not after L1 block `newest`, and not before the last post.
Aligned(queue, newest) ==
  /\ Len(queue) <= Room
  /\ \A i \in 1 .. Len(queue) :
       /\ ContextOf(queue[1]) <= ContextOf(queue[i]) /\ ContextOf(queue[i]) <= newest
       /\ \A p \in Posts : p <= ContextOf(queue[i])

\* Entries whose blocks can still be submitted on their L1 context belong to
\* the last queued block, and there is no room or no L1 block for another one.
Belong(entries, queue) ==
  entries # <<>> =>
    /\ queue # <<>>
    /\ ContextOf(queue[1]) = d.seen =>
         /\ ForBlock(entries, NumberOf(queue[Len(queue)]))
         /\ Len(queue) = Room \/ Len(chain) >= d.seen

\* Building goes on to the block the drained entries are for, without a flush
\* in between.
Building ==
  LET left == work.tick.goal - Len(chain)
  IN  pc = "build" =>
        /\ work.tick.info.l1 = d.seen /\ work.tick.goal <= d.seen
        /\ left + Len(d.pending) <= Room /\ work.tick.pushed + left <= Room
        /\ work.tick.goal = d.seen \/ left + Len(d.pending) = Room
        /\ d.pending = <<>> \/ ContextOf(d.pending[1]) = d.seen =>
             ForBlock(d.entries, work.tick.goal)

\* The phases of step_builder: it works on the L1 it has seen, which may have
\* grown but has no later post, and a flush inside the loop comes after the last
\* block.
Phases ==
  /\ pc \in {"logs", "blocks", "verify", "tick", "build"} => \A p \in Posts : p <= d.seen
  /\ pc \in {"tick", "build"} => ~work.tick.inner
  /\ pc \in {"flush", "check", "wait"} /\ work.tick.inner => Len(chain) >= work.tick.goal

\* The batch in flight took both queues, and L1 has no later post but its own.
InFlight ==
  pc = "wait" =>
    /\ d.pending = <<>> /\ d.entries = <<>>
    /\ work.blocks # <<>> /\ Len(work.blocks) <= Room
    /\ \A i \in 1 .. Len(work.blocks) : ContextOf(work.blocks[i]) = d.seen
    /\ Sent.root = work.blocks[Len(work.blocks)]
    /\ Sent.target = d.seen + 1 /\ Sent.first # 0
    /\ ForBlock(Sent.ents, Len(Sent.root))
    /\ Sent.ents # <<>> => Len(work.blocks) = Room \/ Len(chain) >= d.seen
    /\ \A p \in Posts : p <= d.seen \/ (p = Sent.target /\ Landed)

\* Only the batch in flight can still be mined, and every batch that was sent
\* carries entries of its last block.
OwnMempool ==
  \A tx \in mempool :
    /\ ForBlock(tx.ents, Len(tx.root))
    /\ tx.target > Len(l1) => pc = "wait" /\ tx = Sent

Queued ==
  /\ Aligned(d.pending, IF pc = "latest" THEN Len(l1) ELSE d.seen)
  /\ pc \notin {"build", "wait"} => /\ Belong(d.entries, d.pending)
                                    /\ d.entries # <<>> => ContextOf(d.pending[1]) <= d.seen

BundleInv == PostedLater /\ Queued /\ Building /\ Phases /\ InFlight /\ OwnMempool

\* The room as a number
LEMMA RoomFacts ==
  ASSUME BundleRoom
  PROVE  /\ BundlePath /\ Room \in Nat /\ Room >= 1
         /\ Room <= MAX_BATCH_SIZE /\ Room <= MAX_PENDING_SUBMISSIONS
  BY Bounds DEF BundleRoom, Room, Smaller

\* The blocks of a queue and their contexts
LEMMA QueueContexts ==
  ASSUME NEW q \in Seq(BuiltBlocks)
  PROVE  /\ Len(q) \in Nat /\ (q # <<>> => 1 \in 1 .. Len(q) /\ Len(q) \in 1 .. Len(q))
         /\ \A i \in 1 .. Len(q) : /\ q[i] \in Blocks /\ q[i] # <<>>
                                   /\ ContextOf(q[i]) \in Nat
<1>1. Len(q) \in Nat /\ (q # <<>> => 1 \in 1 .. Len(q) /\ Len(q) \in 1 .. Len(q))
  OBVIOUS
<1>2. \A i \in 1 .. Len(q) : q[i] \in Blocks /\ q[i] # <<>>
  BY DEF BuiltBlocks
<1>3. \A i \in 1 .. Len(q) : ContextOf(q[i]) \in Nat
  BY <1>2, BlockFacts, Bounds DEF L1Number
<1> QED
  BY <1>1, <1>2, <1>3

\* The types the lemmas below use.
LEMMA BundleTypes ==
  ASSUME Types
  PROVE  /\ d \in Drivers /\ work \in Works /\ d.pending \in Seq(BuiltBlocks) /\ d.entries \in Seq(L2Number)
         /\ d.seen \in Nat /\ Len(l1) \in Nat /\ d.seen <= Len(l1) /\ Len(chain) \in Nat
         /\ work.tick.goal \in Nat /\ work.tick.pushed \in Nat /\ work.blocks \in Seq(BuiltBlocks)
         /\ Sent \in Txs /\ Posts \in SUBSET (1 .. Len(l1)) /\ \A p \in Posts : p \in Nat
<1>1. /\ d \in Drivers /\ work \in Works /\ d.seen <= Len(l1) /\ Len(l1) \in Nat /\ Len(chain) \in Nat
  BY TypeFacts
<1>2. d.pending \in Seq(BuiltBlocks) /\ d.entries \in Seq(L2Number) /\ d.seen \in Nat
  <2>1. d.pending \in Queues /\ d.entries \in Entries /\ d.seen \in L1Number
    BY <1>1, DriverFields
  <2>2. d.pending \in Seq(BuiltBlocks)
    BY <2>1, QueueFacts
  <2> QED
    BY <2>1, <2>2, Bounds DEF Entries, L1Number
<1>3. /\ work.tick.goal \in Nat /\ work.tick.pushed \in Nat /\ work.blocks \in Seq(BuiltBlocks)
      /\ Sent \in Txs
  BY <1>1, WorkFields, Bounds DEF Sent, L2Number
<1>4. Posts \in SUBSET (1 .. Len(l1)) /\ \A p \in Posts : p \in Nat
  BY <1>1 DEF Posts
<1> QED
  BY <1>1, <1>2, <1>3, <1>4

\* Entries on a block keep its number and its context.
LEMMA EntriesKeepContext ==
  ASSUME NEW r \in Blocks, r # <<>>, NEW k
  PROVE  /\ WithEntries(r, k) # <<>> /\ Len(WithEntries(r, k)) = Len(r)
         /\ ContextOf(WithEntries(r, k)) = ContextOf(r)
<1> DEFINE n == Len(r)
           v == [r[n] EXCEPT !.k = k]
           t == [r EXCEPT ![n] = v]
<1>1. r \in Seq(L2Blocks(MaxL1, MaxReorgs, MaxEntries)) /\ n \in Nat /\ n \in 1 .. n
  BY DEF Blocks, Roots
<1>2. r[n] \in L2Blocks(MaxL1, MaxReorgs, MaxEntries)
  BY <1>1
<1>3. v.ctx = r[n].ctx
  BY <1>2 DEF L2Blocks
<1> HIDE DEF v
<1>4. Len(t) = n /\ t[n] = v /\ t # <<>>
  <2> HIDE DEF n
  <2>1. DOMAIN r = 1 .. n
    BY <1>1 DEF n
  <2>2. DOMAIN t = 1 .. n /\ t[n] = v
    BY <1>1, <2>1
  <2>3. t \in [1 .. n -> {v} \cup {r[i] : i \in 1 .. n}]
    BY <2>1
  <2>4. t \in Seq({v} \cup {r[i] : i \in 1 .. n}) /\ Len(t) = n
    BY <1>1, <2>3
  <2> HIDE DEF t
  <2> QED
    BY <1>1, <2>2, <2>4
<1>5. WithEntries(r, k) = t
  BY DEF WithEntries, v
<1> HIDE DEF t
<1> QED
  BY <1>3, <1>4, <1>5 DEF ContextOf

\* Nothing queued
LEMMA EmptyAligned == (\A n : Aligned(<<>>, n)) /\ \A q : Belong(<<>>, q)
<1>1. Len(<<>>) <= Room
  BY Bounds DEF Room
<1> QED
  BY <1>1 DEF Aligned, Belong

\* A step that leaves the queues as they are, or clears them.
LEMMA QuietQueued ==
  ASSUME Types, Types', Queued, Quiet(d', d), l1' = l1,
         pc \notin {"build", "wait", "latest"}, d'.pending = <<>> \/ Len(chain') >= Len(chain)
  PROVE  Queued'
<1> DEFINE newest == IF pc' = "latest" THEN Len(l1') ELSE d'.seen
<1>1. d.seen \in Nat /\ Len(l1) \in Nat /\ d.seen <= Len(l1) /\ d.pending \in Seq(BuiltBlocks)
      /\ Len(chain) \in Nat /\ Len(chain') \in Nat
  BY BundleTypes
<1>2. d'.seen = d.seen /\ Posts' = Posts /\ newest \in {d.seen, Len(l1)}
  BY DEF Quiet, Posts
<1>3. newest \in Nat /\ d.seen <= newest
  BY <1>1, <1>2
<1> HIDE DEF newest
<1>4. /\ Aligned(d.pending, d.seen) /\ Belong(d.entries, d.pending)
      /\ d.entries # <<>> => ContextOf(d.pending[1]) <= d.seen
  BY DEF Queued
<1>5. CASE d'.pending = d.pending /\ d'.entries = d.entries
  <2> DEFINE q == d.pending
  <2>1. q \in Seq(BuiltBlocks) /\ Aligned(q, d.seen)
    BY <1>1, <1>4
  <2>2. \A i \in 1 .. Len(q) : ContextOf(q[i]) \in Nat /\ ContextOf(q[i]) <= d.seen
    BY <2>1, QueueContexts DEF Aligned
  <2>3. \A i \in 1 .. Len(q) : ContextOf(q[i]) <= newest
    BY <1>1, <1>3, <2>2
  <2>4. /\ Len(d'.pending) <= Room
        /\ \A i \in 1 .. Len(d'.pending) :
             /\ ContextOf(d'.pending[1]) <= ContextOf(d'.pending[i]) /\ ContextOf(d'.pending[i]) <= newest
             /\ \A p \in Posts' : p <= ContextOf(d'.pending[i])
    <3> HIDE DEF q
    <3>1. /\ Len(q) <= Room
          /\ \A i \in 1 .. Len(q) : ContextOf(q[1]) <= ContextOf(q[i])
                                   /\ \A p \in Posts : p <= ContextOf(q[i])
      BY <2>1 DEF Aligned
    <3>2. d'.pending = q
      BY <1>5 DEF q
    <3> QED
      BY <1>2, <2>3, <3>1, <3>2
  <2>5. d.entries # <<>> => d.pending # <<>>
    BY <1>4 DEF Belong
  <2>6. d.entries # <<>> => Len(chain') >= Len(chain)
    BY <1>5, <2>5
  <2>7. Len(chain) >= d.seen /\ Len(chain') >= Len(chain) => Len(chain') >= d.seen
    BY <1>1
  <2>8. d'.entries # <<>> =>
          /\ d'.pending # <<>> /\ ContextOf(d'.pending[1]) <= d'.seen
          /\ ContextOf(d'.pending[1]) = d'.seen =>
               /\ ForBlock(d'.entries, NumberOf(d'.pending[Len(d'.pending)]))
               /\ Len(d'.pending) = Room \/ Len(chain') >= d'.seen
    BY <1>2, <1>4, <1>5, <2>5, <2>6, <2>7 DEF Belong
  <2> QED
    BY <2>4, <2>8 DEF Queued, Aligned, Belong, newest
<1>6. CASE d'.pending = <<>> /\ d'.entries = <<>>
  BY <1>6, EmptyAligned, Bounds DEF Queued, Aligned, Belong, Room
<1> QED
  BY <1>5, <1>6 DEF Quiet

\* Blocks leave the chain only when nothing is queued, or to be replaced by the
\* refreshed block.
LEMMA ChainGrows ==
  ASSUME LocalInv, Kept, StepNext, ~StepRefresh
  PROVE  d'.pending = <<>> \/ Len(chain') >= Len(chain)
<1>1. d \in Drivers /\ chain \in Blocks /\ Len(chain) \in Nat /\ Types
  BY TypeFacts DEF LocalInv
<1>2. CASE StepRewind
  <2> DEFINE taken == [d EXCEPT !.rewind = None, !.cool = FALSE]
             c == ClearInternalState(taken)
             raised == [c EXCEPT !.ceiling = l2_head_number]
  <2>1. d.pending = <<>>
    BY <1>2, RewindFindsNothing DEF StepRewind
  <2>2. taken.pending = <<>> /\ c.pending = <<>> /\ raised.pending = <<>>
    BY <1>1, <2>1 DEF Drivers, ClearInternalState
  <2>3. d' \in {taken, c, raised}
    BY <1>2, <2>1 DEF StepRewind, RewindL2Chain
  <2> HIDE DEF taken, c, raised
  <2> QED
    BY <2>2, <2>3
<1>3. CASE StepReorg
  <2> DEFINE p == RollbackTo(d.dv, ForkPoint(d.dv, l1))
             c == ClearInternalState(d)
             s == [c EXCEPT !.seen = Len(l1), !.dv = p]
             synced == [s EXCEPT !.mode = "sync"]
             raised == [synced EXCEPT !.ceiling = l2_head_number]
  <2>1. d' \in {s, synced, raised}
    BY <1>3 DEF StepReorg, RewindL2Chain
  <2>2. c \in Drivers /\ c.pending = <<>>
    BY <1>1, ClearType DEF Drivers, ClearInternalState
  <2> HIDE DEF c, p
  <2> QED
    BY <2>1, <2>2 DEF Drivers
<1>4. CASE SyncRebuild
  <2>1. d.pending = <<>>
    BY <1>4 DEF SyncRebuild, Kept
  <2>2. \/ d' = d
        \/ d' = [d EXCEPT !.sibling = NoRequest, !.cycles = 0, !.mismatches = 0, !.hold = Clear]
    BY <1>4 DEF SyncRebuild, Return
  <2> QED
    BY <1>1, <2>1, <2>2 DEF Drivers
<1>5. CASE SyncInsert \/ VerifyInsert
  <2>1. InsertNext /\ work.todo # <<>>
    BY <1>5 DEF SyncInsert, VerifyInsert
  <2>2. CASE NextBlock.n = l2_head_number + 1
    <3>1. chain' = Append(SubSeq(chain, 1, NextBlock.n - 1), Local(NextBlock))
      BY <2>1, <2>2 DEF InsertNext, LocalChain
    <3>2. NextBlock.n - 1 = Len(chain)
      BY <1>1, <2>2 DEF l2_head_number
    <3> DEFINE E == L2Blocks(MaxL1, MaxReorgs, MaxEntries)
    <3>3. chain \in Seq(E) /\ Local(NextBlock) \in E
      BY <1>1, <2>1, NextBlockType DEF Blocks, Roots
    <3> HIDE DEF E
    <3>4. SubSeq(chain, 1, Len(chain)) = chain
      BY <3>3
    <3>5. chain' = Append(chain, Local(NextBlock))
      BY <3>1, <3>2, <3>4
    <3> QED
      BY <1>1, <3>3, <3>5
  <2>3. CASE NextBlock.n # l2_head_number + 1
    BY <1>1, <2>1, <2>3 DEF InsertNext
  <2> QED
    BY <2>2, <2>3
<1>6. CASE BuildBlock
  <2>1. \E b : chain' = Append(chain, b)
    BY <1>6 DEF BuildBlock
  <2>2. chain \in Seq(L2Blocks(MaxL1, MaxReorgs, MaxEntries))
    BY <1>1 DEF Blocks, Roots
  <2> QED
    BY <1>1, <2>1, <2>2
<1>7. CASE \/ StepRewindFails \/ Step \/ StepRefreshFails \/ StepDerive \/ StepFails
           \/ SyncSkip \/ SyncCommit \/ VerifyBlock \/ VerifyCommitBuilder \/ VerifyCommitFullnode
           \/ TickIdle \/ (\E k \in 0 .. MaxEntries : Tick(k)) \/ BuildFails
           \/ StepUnchanged \/ StepLogs
  <2>1. chain' = chain
    BY <1>7, Derivation DEF StepRewindFails, Step, StepRefreshFails, StepUnchanged, StepLogs,
       StepFails, SyncSkip, SyncCommit,
       VerifyBlock, VerifyCommitBuilder, VerifyCommitFullnode, TickIdle, Tick, BuildFails
  <2> QED
    BY <1>1, <2>1
<1> QED
  BY <1>2, <1>3, <1>4, <1>5, <1>6, <1>7 DEF StepNext

\* How step() gets to the points the invariant is about.
LEMMA StepWalk ==
  ASSUME Types, StepNext, ~Fault
  PROVE  /\ pc = "latest" => StepUnchanged \/ StepReorg
         /\ pc = "build" => BuildBlock
         /\ pc' = "latest" => pc # "latest"
         /\ pc' = "logs" => StepUnchanged
         /\ pc' = "blocks" => pc = "logs"
         /\ pc' = "verify" => pc \in {"blocks", "verify"}
         /\ pc' = "tick" => pc = "verify" /\ work' = NoWork
         /\ pc' = "build" => BuildBlock \/ \E k \in 0 .. MaxEntries : Tick(k)
         /\ pc' = "flush" => BuildBlock \/ (pc = "tick" /\ work' = work)
<1>1. CASE StepRewind \/ Step \/ StepRefresh \/ StepRefreshFails
  <2>1. pc \in {"idle", "refresh"} /\ pc' \in {"refresh", "latest"}
    BY <1>1 DEF StepRewind, Step, StepRefresh, StepRefreshFails
  <2> QED
    BY <2>1
<1>2. ~StepRewindFails /\ ~StepFails /\ ~BuildFails
  BY DEF StepRewindFails, StepFails, BuildFails
<1>3. CASE StepReorg \/ StepUnchanged
  <2>1. pc = "latest" /\ pc' \in {"idle", "logs"} /\ (StepReorg => pc' = "idle")
    BY <1>3 DEF StepReorg, StepUnchanged, Return
  <2> QED
    BY <1>3, <2>1
<1>9. CASE StepLogs
  <2>1. pc = "logs" /\ pc' = "blocks"
    BY <1>9 DEF StepLogs
  <2> QED
    BY <2>1
<1>10. CASE StepDerive
  <2>1. pc = "blocks" /\ pc' \in {"idle", "sync", "verify"}
    BY <1>10, Derivation DEF Derived, Return
  <2> QED
    BY <2>1
<1>4. CASE \/ SyncRebuild \/ SyncSkip \/ SyncInsert \/ SyncCommit
           \/ VerifyBlock \/ VerifyInsert \/ VerifyCommitFullnode
  <2>1. pc' \in {pc, "idle"} /\ pc \in {"sync", "verify"}
    BY <1>4 DEF SyncRebuild, SyncSkip, SyncInsert, SyncCommit, VerifyBlock, VerifyInsert,
       InsertNext, VerifyCommitFullnode, Advance, Return
  <2> QED
    BY <2>1
<1>5. CASE VerifyCommitBuilder
  <2>1. pc = "verify" /\ pc' \in {"idle", "tick"} /\ work' = NoWork
    BY <1>5 DEF VerifyCommitBuilder
  <2> QED
    BY <2>1
<1>6. CASE TickIdle
  <2>1. pc = "tick" /\ pc' = "flush" /\ work' = work
    BY <1>6 DEF TickIdle
  <2> QED
    BY <2>1
<1>7. CASE \E k \in 0 .. MaxEntries : Tick(k)
  <2>1. pc = "tick" /\ pc' = "build"
    BY <1>7 DEF Tick
  <2> QED
    BY <1>7, <2>1
<1>8. CASE BuildBlock
  <2>1. pc = "build" /\ pc' \in {"flush", "build"}
    BY <1>8 DEF BuildBlock
  <2> QED
    BY <1>8, <2>1
<1> QED
  BY <1>1, <1>2, <1>3, <1>4, <1>5, <1>6, <1>7, <1>8, <1>9, <1>10 DEF StepNext

\* step() touches neither L1 nor the transactions that wait for it.
LEMMA StepLeavesL1 ==
  ASSUME Types, BundleInv, StepNext
  PROVE  PostedLater' /\ InFlight' /\ OwnMempool' /\ Posts' = Posts
<1>1. l1' = l1 /\ mempool' = mempool /\ pc # "wait" /\ pc' # "wait"
  <2>1. l1' = l1
    BY DriverReadsL1
  <2>2. mempool' = mempool /\ pc' \notin {"check", "wait"} /\ pc \notin {"check", "wait", "flush"}
    BY StepPhases
  <2> QED
    BY <2>1, <2>2
<1>2. Posts' = Posts
  BY <1>1 DEF Posts
<1>3. PostedLater'
  BY <1>1, <1>2 DEF BundleInv, PostedLater
<1>4. OwnMempool'
  BY <1>1 DEF BundleInv, OwnMempool
<1> QED
  BY <1>1, <1>2, <1>3, <1>4 DEF InFlight

\* step() observes L1.
LEMMA ObservedQueued ==
  ASSUME Types, Types', BundleInv, StepUnchanged
  PROVE  Queued'
<1>1. /\ pc = "latest" /\ pc' \in {"idle", "logs"} /\ UNCHANGED <<l1, chain>>
      /\ d' = [d EXCEPT !.seen = Len(l1)]
  BY DEF StepUnchanged, Return
<1>2. /\ d \in Drivers /\ d.pending \in Seq(BuiltBlocks) /\ d.seen \in Nat /\ Len(l1) \in Nat
      /\ d.seen <= Len(l1)
  BY BundleTypes
<1>3. d'.pending = d.pending /\ d'.entries = d.entries /\ d'.seen = Len(l1)
  BY <1>1, <1>2 DEF Drivers
<1>4. Posts' = Posts
  BY <1>1 DEF Posts
<1>5. /\ Aligned(d.pending, Len(l1)) /\ Belong(d.entries, d.pending)
      /\ d.entries # <<>> => ContextOf(d.pending[1]) <= d.seen
  BY <1>1 DEF BundleInv, Queued
<1>6. Aligned(d.pending, d.seen)'
  BY <1>3, <1>4, <1>5 DEF Aligned
<1>7. d.entries # <<>> => d.pending # <<>> /\ ContextOf(d.pending[1]) \in Nat
  BY <1>2, <1>5, QueueContexts DEF Belong
<1>8. d.entries # <<>> /\ ContextOf(d.pending[1]) = Len(l1) => d.seen = Len(l1)
  BY <1>2, <1>5, <1>7
<1>9. d.entries # <<>> => ContextOf(d.pending[1]) <= Len(l1)
  BY <1>2, <1>5, <1>7
<1>10. Belong(d.entries, d.pending)'
  BY <1>1, <1>3, <1>5, <1>8 DEF Belong
<1> QED
  BY <1>1, <1>3, <1>6, <1>9, <1>10 DEF Queued

\* The refreshed block is on the newest L1 block and alone in the queue.
LEMMA RefreshQueued ==
  ASSUME BundleRoom, Types, Types', BundleInv, StepRefresh
  PROVE  Queued'
<1> DEFINE b == [ctx |-> Len(l1), hash |-> HashAt(l1, Len(l1)), k |-> 0]
           low == SubSeq(chain, 1, d.refresh - 1)
<1>1. /\ pc = "refresh" /\ pc' = "latest" /\ UNCHANGED l1 /\ chain' = Append(low, b)
      /\ d.refresh <= Len(chain) + 1
  BY DEF StepRefresh, l2_head_number
<1>2. d'.pending = <<chain'>> /\ d'.entries = <<>>
  <2>1. d'.pending = <<chain'>> /\ d'.entries = <<>>
    <3> DEFINE c == ClearInternalState(d)
               p == [c.dv EXCEPT !.derived = d.refresh]
    <3>1. d' = [c EXCEPT !.dv = p, !.pending = <<chain'>>, !.refresh = 0]
      BY DEF StepRefresh
    <3>2. c \in Drivers /\ c.entries = <<>>
      BY BundleTypes, ClearType DEF ClearInternalState, Drivers
    <3> HIDE DEF c, p
    <3> QED
      BY <3>1, <3>2 DEF Drivers
  <2> QED
    BY <2>1
<1>3. ContextOf(chain') = Len(l1)
  <2>1. chain \in Blocks /\ Len(chain) \in Nat /\ d.refresh \in Nat
    BY TypeFacts, DriverFields, Bounds DEF L2Number
  <2> DEFINE n == d.refresh - 1
  <2>2. n \in Int /\ n <= Len(chain)
    BY <1>1, <2>1
  <2> HIDE DEF n
  <2>3. SubSeq(chain, 1, n) \in Blocks
    BY <2>1, <2>2, BlockFacts
  <2>4. low \in Blocks
    BY <2>3 DEF n
  <2> DEFINE E == L2Blocks(MaxL1, MaxReorgs, MaxEntries)
  <2>5. low \in Seq(E)
    BY <2>4 DEF Blocks, Roots
  <2> HIDE DEF E, b, low
  <2>6. Len(Append(low, b)) = Len(low) + 1 /\ Append(low, b)[Len(low) + 1] = b /\ Len(low) \in Nat
    BY <2>5
  <2>7. chain'[Len(chain')] = b
    BY <1>1, <2>6
  <2> QED
    BY <2>7 DEF ContextOf, b
<1>4. Len(l1) \in Nat /\ Posts \in SUBSET (1 .. Len(l1)) /\ Posts' = Posts
  BY <1>1, BundleTypes DEF Posts
<1> DEFINE q == <<chain'>>
<1>5. Len(q) = 1 /\ q[1] = chain' /\ \A i \in 1 .. 1 : i = 1
  OBVIOUS
<1> HIDE DEF q
<1>6. \A p \in Posts : p <= Len(l1)
  BY <1>4
<1>7. /\ Len(q) <= Room
      /\ \A i \in 1 .. Len(q) :
           /\ ContextOf(q[1]) <= ContextOf(q[i]) /\ ContextOf(q[i]) <= Len(l1)
           /\ \A p \in Posts : p <= ContextOf(q[i])
  <2>1. Room \in Nat /\ Room >= 1
    BY RoomFacts
  <2> SUFFICES ASSUME NEW i \in 1 .. Len(q)
               PROVE  /\ ContextOf(q[1]) <= ContextOf(q[i]) /\ ContextOf(q[i]) <= Len(l1)
                      /\ \A p \in Posts : p <= ContextOf(q[i])
    BY <1>5, <2>1
  <2>2. i = 1
    BY <1>5
  <2>3. ContextOf(q[i]) = Len(l1) /\ ContextOf(q[1]) = Len(l1)
    BY <1>3, <1>5, <2>2
  <2> QED
    BY <1>4, <1>6, <2>3
<1>8. d'.pending = q
  BY <1>2 DEF q
<1>9. Aligned(d.pending, Len(l1))'
  BY <1>1, <1>4, <1>7, <1>8 DEF Aligned
<1> QED
  BY <1>1, <1>2, <1>9 DEF Queued, Belong

\* The tick drains calls only for a block that can still be queued with the
\* others, and the last one it builds.
LEMMA TickBundle ==
  ASSUME BundleRoom, Types, Types', BundleInv, NEW k \in 0 .. MaxEntries, Tick(k)
  PROVE  Queued' /\ Building' /\ Phases'
<1> DEFINE goal == EffectiveTarget
           q == d.pending
           new == d.entries \o [j \in 1 .. k |-> goal]
           tick == [NoTick EXCEPT !.goal = goal, !.info = InfoAt(l1, d.seen),
                                  !.k = k, !.base = Len(d.entries)]
<1>1. /\ pc = "tick" /\ pc' = "build" /\ UNCHANGED <<l1, chain>> /\ Len(chain) < goal
      /\ d' = [d EXCEPT !.entries = new] /\ work' = [NoWork EXCEPT !.tick = tick]
  BY DEF Tick, MayBuild, l2_head_number
<1>2. /\ d \in Drivers /\ q \in Seq(BuiltBlocks) /\ d.seen \in Nat /\ Len(l1) \in Nat
      /\ Len(chain) \in Nat /\ Len(q) \in Nat
  BY BundleTypes
<1>3. /\ Aligned(q, d.seen) /\ Belong(d.entries, q) /\ Len(q) <= Room
      /\ \A p \in Posts : p <= d.seen
  BY <1>1 DEF BundleInv, Queued, Phases, Aligned
<1>4. BundlePath /\ Room \in Nat /\ Room = BUNDLE_PATH_PENDING_CAP
  BY RoomFacts DEF Room
<1>5. goal = Smaller(d.seen, Len(chain) + (IF Len(q) < Room THEN Room - Len(q) ELSE 0))
  BY <1>4 DEF EffectiveTarget, l2_head_number
<1> HIDE DEF goal
<1>6. /\ goal \in Nat /\ goal <= d.seen /\ Len(q) < Room /\ (goal - Len(chain)) + Len(q) <= Room
      /\ goal - Len(chain) <= Room /\ (goal = d.seen \/ (goal - Len(chain)) + Len(q) = Room)
  <2> DEFINE n == Len(q)
             h == Len(chain)
  <2>1. n \in Nat /\ h \in Nat /\ n <= Room /\ h < goal
        /\ goal = Smaller(d.seen, h + (IF n < Room THEN Room - n ELSE 0))
    BY <1>1, <1>2, <1>3, <1>5
  <2> HIDE DEF n, h
  <2>2. n < Room
    BY <1>2, <1>4, <2>1 DEF Smaller
  <2>3. goal = IF d.seen <= h + (Room - n) THEN d.seen ELSE h + (Room - n)
    BY <1>2, <1>4, <2>1, <2>2 DEF Smaller
  <2>4. /\ goal \in Nat /\ goal <= d.seen /\ (goal - h) + n <= Room
        /\ goal - h <= Room /\ (goal = d.seen \/ (goal - h) + n = Room)
    BY <1>2, <1>4, <2>1, <2>2, <2>3
  <2> QED
    BY <2>2, <2>4 DEF n, h
<1>7. /\ d'.pending = q /\ d'.entries = new /\ d'.seen = d.seen
  <2> HIDE DEF new
  <2> QED
    BY <1>1, <1>2 DEF Drivers
<1>8. work'.tick = tick /\ tick.goal = goal /\ tick.info.l1 = d.seen /\ tick.pushed = 0 /\ ~tick.inner
  <2>1. work'.tick = tick
    <3> HIDE DEF tick
    <3> QED
      BY <1>1 DEF NoWork
  <2>2. InfoAt(l1, d.seen).l1 = d.seen
    BY DEF InfoAt
  <2> QED
    BY <2>1, <2>2 DEF NoTick
<1>9. q = <<>> \/ ContextOf(q[1]) = d.seen => ForBlock(new, goal)
  <2> SUFFICES ASSUME q = <<>> \/ ContextOf(q[1]) = d.seen PROVE ForBlock(new, goal)
    OBVIOUS
  <2>1. d.entries = <<>>
    <3>1. ~(Len(chain) >= d.seen) /\ Len(q) # Room
      BY <1>1, <1>2, <1>4, <1>6
    <3> QED
      BY <1>3, <3>1 DEF Belong
  <2> DEFINE f == [j \in 1 .. k |-> goal]
  <2>2. k \in Nat /\ f \in Seq(Nat) /\ Len(f) = k /\ \A j \in 1 .. k : f[j] = goal
    BY <1>6, Bounds
  <2> HIDE DEF f
  <2>3. new = f
    BY <2>1, <2>2 DEF f
  <2> QED
    BY <2>2, <2>3 DEF ForBlock
<1> HIDE DEF new, tick
<1>10. Posts' = Posts
  BY <1>1 DEF Posts
<1>11. Queued'
  <2>1. Aligned(d.pending, d.seen)'
    BY <1>3, <1>7, <1>10 DEF Aligned
  <2> QED
    BY <1>1, <2>1 DEF Queued
<1>12. Building'
  <2>1. /\ work'.tick.goal = goal /\ work'.tick.info.l1 = d'.seen /\ work'.tick.pushed = 0
    BY <1>7, <1>8
  <2>2. Len(chain') = Len(chain)
    BY <1>1
  <2>3. 0 + (goal - Len(chain)) <= Room
    BY <1>2, <1>6
  <2> QED
    BY <1>6, <1>7, <1>9, <2>1, <2>2, <2>3 DEF Building
<1>13. Phases'
  BY <1>1, <1>3, <1>7, <1>8, <1>10 DEF Phases
<1> QED
  BY <1>11, <1>12, <1>13

\* Every block is queued, on the L1 block of the tick; the last one is the one
\* the entries are for, and the batch is not full before it.
LEMMA BuildBundle ==
  ASSUME BundleRoom, Types, Types', BundleInv, BuildBlock
  PROVE  Queued' /\ Building' /\ Phases'
<1> DEFINE h == Len(chain)
           goal == work.tick.goal
           q == d.pending
           n == Len(q)
           last == h + 1 >= goal
           queued == n < MAX_PENDING_SUBMISSIONS
           pushed == work.tick.pushed + (IF queued THEN 1 ELSE 0)
           full == pushed >= MAX_BATCH_SIZE
           info == work.tick.info
           b == [ctx |-> info.l1, hash |-> info.hash, k |-> IF last THEN work.tick.k ELSE 0]
<1>1. /\ pc = "build" /\ UNCHANGED l1 /\ chain' = Append(chain, b)
      /\ d' = IF queued THEN [d EXCEPT !.pending = Append(q, chain')] ELSE d
      /\ work' = [work EXCEPT !.tick.pushed = pushed, !.tick.inner = full]
      /\ pc' = IF full \/ last THEN "flush" ELSE "build"
  BY DEF BuildBlock, l2_head_number
<1>2. /\ d \in Drivers /\ work \in Works /\ q \in Seq(BuiltBlocks) /\ d.seen \in Nat /\ Len(l1) \in Nat
      /\ h \in Nat /\ n \in Nat /\ goal \in Nat /\ work.tick.pushed \in Nat
      /\ Posts \in SUBSET (1 .. Len(l1)) /\ (\A p \in Posts : p \in Nat)
  BY BundleTypes
<1>3. h < goal
  BY <1>1 DEF Types
<1>4. /\ info.l1 = d.seen /\ goal <= d.seen /\ (goal - h) + n <= Room
      /\ work.tick.pushed + (goal - h) <= Room /\ (goal = d.seen \/ (goal - h) + n = Room)
      /\ q = <<>> \/ ContextOf(q[1]) = d.seen => ForBlock(d.entries, goal)
      /\ (\A p \in Posts : p <= d.seen) /\ Aligned(q, d.seen)
  BY <1>1 DEF BundleInv, Building, Phases, Queued
<1>5. /\ Room \in Nat /\ Room <= MAX_BATCH_SIZE /\ Room <= MAX_PENDING_SUBMISSIONS
      /\ MAX_BATCH_SIZE \in Nat /\ MAX_PENDING_SUBMISSIONS \in Nat
  BY RoomFacts, Bounds
<1>6. Len(chain') = h + 1 /\ chain' # <<>> /\ ContextOf(chain') = d.seen
  <2> DEFINE E == L2Blocks(MaxL1, MaxReorgs, MaxEntries)
  <2>1. chain \in Seq(E)
    BY DEF Types, Blocks, Roots
  <2>2. b.ctx = d.seen
    BY <1>4
  <2> HIDE DEF E, b
  <2>3. Len(Append(chain, b)) = Len(chain) + 1 /\ Append(chain, b)[Len(chain) + 1] = b
        /\ Append(chain, b) # <<>>
    BY <2>1
  <2> QED
    BY <1>1, <2>2, <2>3 DEF ContextOf
<1> DEFINE r == Append(q, chain')
<1>7. /\ Len(r) = n + 1 /\ r[n + 1] = chain' /\ r # <<>> /\ (\A i \in 1 .. n : r[i] = q[i])
      /\ (\A i \in 1 .. n + 1 : i \in 1 .. n \/ i = n + 1)
  BY <1>2
<1> HIDE DEF h, goal, n
<1>8. n < Room /\ queued /\ pushed = work.tick.pushed + 1 /\ (full => last)
  <2>1. n < Room
    BY <1>2, <1>3, <1>4, <1>5
  <2>2. queued
    BY <1>2, <1>5, <2>1
  <2>3. pushed = work.tick.pushed + 1
    BY <2>2
  <2>4. full => work.tick.pushed + 1 >= work.tick.pushed + (goal - h)
    BY <1>2, <1>3, <1>4, <1>5, <2>3
  <2>5. full => last
    BY <1>2, <1>3, <2>4
  <2> QED
    BY <2>1, <2>2, <2>3, <2>5
<1>9. d'.pending = r /\ d'.entries = d.entries /\ d'.seen = d.seen
  <2>1. d' = [d EXCEPT !.pending = r]
    BY <1>1, <1>8
  <2> HIDE DEF r
  <2> QED
    BY <1>2, <2>1 DEF Drivers
<1>10. /\ work'.tick.goal = goal /\ work'.tick.info = info /\ work'.tick.pushed = pushed
       /\ work'.tick.inner = full
  <2>1. work.tick \in Ticks
    BY <1>2, WorkFields
  <2> HIDE DEF pushed, full
  <2> QED
    BY <1>1, <1>2, <2>1 DEF Works, Ticks, goal, info
<1>11. pc' = IF last THEN "flush" ELSE "build"
  BY <1>1, <1>8
<1>12. Posts' = Posts /\ \A p \in Posts : p <= d.seen
  BY <1>1, <1>4 DEF Posts
<1>13. /\ \A i \in 1 .. n : /\ ContextOf(q[1]) <= ContextOf(q[i]) /\ ContextOf(q[i]) <= d.seen
                           /\ \A p \in Posts : p <= ContextOf(q[i])
       /\ \A i \in 1 .. n : ContextOf(q[i]) \in Nat
  BY <1>2, <1>4, QueueContexts DEF Aligned, n
<1>14. ContextOf(r[1]) <= d.seen /\ ContextOf(r[1]) \in Nat
       /\ (ContextOf(r[1]) = d.seen => q = <<>> \/ ContextOf(q[1]) = d.seen)
  <2>1. CASE n = 0
    <3>1. r[1] = chain' /\ q = <<>>
      BY <1>2, <1>7, <2>1 DEF n
    <3> QED
      BY <1>2, <1>6, <3>1
  <2>2. CASE n # 0
    <3>1. 1 \in 1 .. n
      BY <1>2, <2>2
    <3> QED
      BY <1>7, <1>13, <3>1
  <2> QED
    BY <2>1, <2>2
<1>15. Aligned(d.pending, d.seen)'
  <2> SUFFICES ASSUME NEW i \in 1 .. n + 1
               PROVE  /\ ContextOf(r[1]) <= ContextOf(r[i]) /\ ContextOf(r[i]) <= d.seen
                      /\ \A p \in Posts : p <= ContextOf(r[i])
    <3>1. n + 1 <= Room
      BY <1>2, <1>5, <1>8
    <3> HIDE DEF r
    <3> QED
      BY <1>7, <1>9, <1>12, <3>1 DEF Aligned
  <2>1. CASE i \in 1 .. n
    <3>1. 1 \in 1 .. n
      BY <1>2, <2>1
    <3> QED
      BY <1>7, <1>13, <2>1, <3>1
  <2>2. CASE i = n + 1
    BY <1>2, <1>6, <1>7, <1>12, <1>14, <2>2
  <2> QED
    BY <1>7, <2>1, <2>2
<1> HIDE DEF r
<1>16. last => h + 1 = goal
  BY <1>2, <1>3
<1>17. Queued'
  <2>1. pc' # "latest" /\ pc' # "wait" /\ (pc' # "build" => last)
    BY <1>11
  <2>2. ASSUME last PROVE Belong(d.entries, d.pending)'
    <3>1. h + 1 = goal /\ NumberOf(r[Len(r)]) = goal /\ Len(chain') = goal
      BY <1>6, <1>7, <1>16, <2>2 DEF NumberOf
    <3>2. Len(r) = Room \/ Len(chain') >= d.seen
      BY <1>2, <1>4, <1>5, <1>7, <3>1
    <3> QED
      BY <1>4, <1>7, <1>9, <1>14, <3>1, <3>2 DEF Belong
  <2> QED
    BY <1>9, <1>14, <1>15, <2>1, <2>2 DEF Queued
<1>18. Building'
  <2> SUFFICES ASSUME ~last
               PROVE  /\ work'.tick.info.l1 = d'.seen /\ work'.tick.goal <= d'.seen
                      /\ (work'.tick.goal - Len(chain')) + Len(d'.pending) <= Room
                      /\ work'.tick.pushed + (work'.tick.goal - Len(chain')) <= Room
                      /\ \/ work'.tick.goal = d'.seen
                         \/ (work'.tick.goal - Len(chain')) + Len(d'.pending) = Room
                      /\ d'.pending = <<>> \/ ContextOf(d'.pending[1]) = d'.seen =>
                           ForBlock(d'.entries, work'.tick.goal)
    <3>1. pc' = "build" => ~last
      BY <1>11
    <3> QED
      BY <3>1 DEF Building
  <2>1. (goal - (h + 1)) + (n + 1) = (goal - h) + n
        /\ (work.tick.pushed + 1) + (goal - (h + 1)) = work.tick.pushed + (goal - h)
    <3> DEFINE u == work.tick.pushed
    <3>1. u \in Nat /\ h \in Nat /\ goal \in Nat /\ n \in Nat
      BY <1>2
    <3> HIDE DEF u
    <3>2. (goal - (h + 1)) + (n + 1) = (goal - h) + n /\ (u + 1) + (goal - (h + 1)) = u + (goal - h)
      BY <3>1
    <3> QED
      BY <3>2 DEF u
  <2>2. d'.pending = <<>> \/ ContextOf(d'.pending[1]) = d'.seen => ForBlock(d'.entries, goal)
    BY <1>4, <1>7, <1>9, <1>14
  <2> QED
    BY <1>4, <1>6, <1>7, <1>8, <1>9, <1>10, <2>1, <2>2
<1>19. Phases'
  <2>1. /\ pc' \in {"flush", "build"} /\ (pc' = "build" => ~last)
        /\ (full => Len(chain') >= goal)
    BY <1>2, <1>6, <1>8, <1>11
  <2> QED
    BY <1>1, <1>4, <1>8, <1>9, <1>10, <1>12, <2>1 DEF Phases
<1> QED
  BY <1>17, <1>18, <1>19

\* step(), up to the flush
LEMMA StepBundle ==
  ASSUME BundleRoom, LocalInv, Kept, Types', BundleInv, StepNext, ~Fault
  PROVE  BundleInv'
<1>1. Types
  BY DEF LocalInv
<1>2. PostedLater' /\ InFlight' /\ OwnMempool' /\ Posts' = Posts
  BY <1>1, StepLeavesL1
<1>3. CASE \E k \in 0 .. MaxEntries : Tick(k)
  <2>1. Queued' /\ Building' /\ Phases'
    BY <1>1, <1>3, TickBundle
  <2> QED
    BY <1>2, <2>1 DEF BundleInv
<1>4. CASE BuildBlock
  <2>1. Queued' /\ Building' /\ Phases'
    BY <1>1, <1>4, BuildBundle
  <2> QED
    BY <1>2, <2>1 DEF BundleInv
<1>5. ASSUME ~BuildBlock, ~ \E k \in 0 .. MaxEntries : Tick(k)
      PROVE  BundleInv'
  <2>1. /\ pc = "latest" => StepUnchanged \/ StepReorg
        /\ pc # "build" /\ pc' # "build" /\ (pc' = "latest" => pc # "latest")
        /\ (pc' = "logs" => StepUnchanged)
        /\ (pc' = "blocks" => pc = "logs")
        /\ (pc' = "verify" => pc \in {"blocks", "verify"})
        /\ (pc' = "tick" => pc = "verify" /\ work' = NoWork)
        /\ (pc' = "flush" => pc = "tick" /\ work' = work)
        /\ pc' \notin {"check", "wait"} /\ pc # "wait"
    BY <1>1, <1>5, StepWalk, StepPhases
  <2>2. l1' = l1 /\ d.seen <= Len(l1)
    BY <1>1, DriverReadsL1, BundleTypes
  <2>3. Building'
    BY <2>1 DEF Building
  <2>4. CASE StepUnchanged
    <3>1. /\ pc' \in {"idle", "logs"} /\ d'.seen = Len(l1)
      <4>1. d' = [d EXCEPT !.seen = Len(l1)] /\ d \in Drivers
        BY <1>1, <2>4, BundleTypes DEF StepUnchanged, Return
      <4> QED
        BY <2>4, <4>1 DEF StepUnchanged, Return, Drivers
    <3>2. \A p \in Posts' : p <= d'.seen
      BY <1>1, <1>2, <3>1, BundleTypes
    <3>3. Phases'
      BY <3>1, <3>2 DEF Phases
    <3> QED
      BY <1>1, <1>2, <2>3, <2>4, <3>3, ObservedQueued DEF BundleInv
  <2>5. CASE StepReorg
    <3>1. pc' = "idle"
      BY <2>5 DEF StepReorg
    <3>2. d'.pending = <<>> /\ d'.entries = <<>>
      <4> DEFINE p == RollbackTo(d.dv, ForkPoint(d.dv, l1))
                 c == ClearInternalState(d)
                 s == [c EXCEPT !.seen = Len(l1), !.dv = p]
                 synced == [s EXCEPT !.mode = "sync"]
                 raised == [synced EXCEPT !.ceiling = l2_head_number]
      <4>1. d' \in {s, synced, raised}
        BY <2>5 DEF StepReorg, RewindL2Chain
      <4>2. c \in Drivers /\ c.pending = <<>> /\ c.entries = <<>>
        BY <1>1, BundleTypes, ClearType DEF Drivers, ClearInternalState
      <4> HIDE DEF c, p
      <4> QED
        BY <4>1, <4>2 DEF Drivers
    <3>3. Queued'
      BY <3>1, <3>2, EmptyAligned, Bounds DEF Queued, Aligned, Belong, Room
    <3>4. Phases'
      BY <3>1 DEF Phases
    <3> QED
      BY <1>2, <2>3, <3>3, <3>4 DEF BundleInv
  <2>6. CASE StepRefresh
    <3>1. pc' = "latest"
      BY <2>6 DEF StepRefresh
    <3>2. Phases'
      BY <3>1 DEF Phases
    <3> QED
      BY <1>1, <1>2, <2>3, <2>6, <3>2, RefreshQueued DEF BundleInv
  <2>7. ASSUME ~StepUnchanged, ~StepReorg, ~StepRefresh PROVE BundleInv'
    <3>1. Quiet(d', d)
      <4>1. ~BuildFails
        BY DEF BuildFails
      <4> QED
        BY <1>1, <1>5, <2>7, <4>1, StepQuiet
    <3>2. d'.pending = <<>> \/ Len(chain') >= Len(chain)
      BY <2>7, ChainGrows
    <3>3. pc # "latest"
      BY <2>1, <2>7
    <3>4. Queued'
      BY <1>1, <2>1, <2>2, <3>1, <3>2, <3>3, QuietQueued DEF BundleInv
    <3>5. d'.seen = d.seen
      BY <3>1 DEF Quiet
    <3>6. ~NoWork.tick.inner
      BY DEF NoWork, NoTick
    <3>7. Phases'
      <4>1. ASSUME pc' \in {"logs", "blocks", "verify", "tick", "build"}
            PROVE  pc \in {"logs", "blocks", "verify"}
        BY <2>1, <2>7, <4>1
      <4>2. Phases
        BY DEF BundleInv
      <4>3. pc' \in {"logs", "blocks", "verify", "tick", "build"} => \A p \in Posts' : p <= d'.seen
        BY <1>2, <3>5, <4>1, <4>2 DEF Phases
      <4>4. /\ pc' \in {"tick", "build"} => ~work'.tick.inner
            /\ pc' \in {"flush", "check", "wait"} /\ work'.tick.inner => Len(chain') >= work'.tick.goal
        BY <2>1, <3>6, <4>2 DEF Phases
      <4> QED
        BY <4>3, <4>4 DEF Phases
    <3> QED
      BY <1>2, <2>3, <3>4, <3>7 DEF BundleInv
  <2> QED
    BY <2>4, <2>5, <2>6, <2>7
<1> QED
  BY <1>3, <1>4, <1>5

\* The root on L1 belongs to no queued block: those are on later L1 blocks.
LEMMA TrimsNothing ==
  ASSUME Types, PostedLater, Aligned(d.pending, d.seen)
  PROVE  Trimmed(d, OnChainRoot) = d
<1> DEFINE hits == {i \in 1 .. Len(d.pending) : OnChainRoot \in RootChain(d.pending[i])}
<1>1. ASSUME NEW i \in 1 .. Len(d.pending), OnChainRoot \in RootChain(d.pending[i]) PROVE FALSE
  <2> DEFINE b == d.pending[i]
  <2>1. b \in Blocks /\ b # <<>> /\ ContextOf(b) \in Nat
    BY BundleTypes, QueueContexts
  <2>2. PICK k : OnChainRoot = WithEntries(b, k)
    BY <1>1 DEF RootChain
  <2> HIDE DEF b
  <2>3. OnChainRoot # <<>> /\ ContextOf(OnChainRoot) = ContextOf(b)
    BY <2>1, <2>2, EntriesKeepContext
  <2>4. L1Typed
    BY TypeFacts
  <2> DEFINE p == LastOf(Posts)
  <2>5. p \in Posts /\ OnChainRoot = l1[p].batch.root
    BY <2>3, <2>4, LastPost
  <2> HIDE DEF p
  <2>6. ContextOf(OnChainRoot) < p
    BY <2>5 DEF PostedLater
  <2>7. p <= ContextOf(b) /\ p \in Nat
    BY <1>1, <2>5, BundleTypes DEF Aligned, b
  <2> QED
    BY <2>1, <2>3, <2>6, <2>7
<1>2. hits = {}
  BY <1>1
<1> QED
  BY <1>2 DEF Trimmed

\* What can be submitted on its L1 context is submitted whole.
LEMMA WholeBatch ==
  ASSUME BundleRoom, Types, Aligned(d.pending, d.seen), d.pending # <<>>, ~FrontIsStale
  PROVE  /\ \A i \in 1 .. Len(d.pending) : ContextOf(d.pending[i]) = d.seen
         /\ BatchSize = Len(d.pending)
<1> DEFINE q == d.pending
           n == Len(q)
           Run(m) == \A i \in 1 .. m : ContextOf(q[i]) = ContextOf(FrontBlock)
           most == Smaller(n, MAX_BATCH_SIZE)
           sizes == {m \in 0 .. most : Run(m)}
<1>1. q \in Seq(BuiltBlocks) /\ n \in Nat /\ d.seen \in Nat /\ 1 \in 1 .. n
      /\ \A i \in 1 .. n : ContextOf(q[i]) \in Nat
  BY BundleTypes, QueueContexts
<1>2. FrontBlock = q[1] /\ ~(ContextOf(q[1]) + 1 <= d.seen)
  BY DEF FrontIsStale, FrontBlock
<1>3. n <= Room /\ \A i \in 1 .. n : ContextOf(q[1]) <= ContextOf(q[i]) /\ ContextOf(q[i]) <= d.seen
  BY DEF Aligned
<1>4. BatchSize = CHOOSE m \in sizes : \A o \in sizes : o <= m
  BY DEF BatchSize
<1>5. BatchSize \in 0 .. n
  BY BatchSizeType
<1> HIDE DEF q, n
<1>6. \A i \in 1 .. n : ContextOf(q[i]) = d.seen
  BY <1>1, <1>2, <1>3
<1>7. Run(n)
  BY <1>1, <1>2, <1>6
<1>8. most = n
  BY <1>1, <1>3, RoomFacts, Bounds DEF Smaller
<1>9. n \in sizes /\ \A o \in sizes : o \in Nat /\ o <= n
  BY <1>1, <1>7, <1>8
<1> HIDE DEF sizes
<1>10. \A o \in sizes : o <= BatchSize
  BY <1>4, <1>9
<1>11. BatchSize = n
  BY <1>1, <1>5, <1>9, <1>10
<1> QED
  BY <1>6, <1>11 DEF q, n

\* The flush leaves the chain alone, and builds no further block.
LEMMA FlushWalk ==
  ASSUME Types, Phases, FlushNext
  PROVE  /\ chain' = chain /\ pc' \in {"idle", "flush", "check", "wait"}
         /\ ~FlushTrim /\ ~FlushSubmit => pc' # "flush" \/ ~work'.tick.inner
<1>1. chain' = chain
  BY DEF FlushNext, FlushSkip, FlushFails, FlushTrim, FlushDispatch, FlushStale,
     FlushWaitsForRefresh, FlushMismatchTransient, FlushMismatchSibling, FlushMismatchRewind,
     FlushSubmit, FlushSendFails, TriggersNotSent, BatchConfirmed, BatchPartlyConsumed,
     BatchNotConsumed, BatchReverted, BatchUnknown
<1>2. CASE FlushTrim \/ FlushSubmit
  BY <1>1, <1>2 DEF FlushTrim, FlushSubmit
<1>3. ASSUME ~FlushTrim, ~FlushSubmit
      PROVE  pc' \in {"idle", "flush"} /\ (pc' # "flush" \/ ~work'.tick.inner)
  <2>1. \E s : FlushReturns(s)
    BY <1>3 DEF FlushNext, FlushSkip, FlushFails, FlushDispatch, FlushStale,
       FlushWaitsForRefresh, FlushMismatchTransient, FlushMismatchSibling, FlushMismatchRewind,
       FlushSendFails, TriggersNotSent, BatchConfirmed, BatchPartlyConsumed,
       BatchNotConsumed, BatchReverted, BatchUnknown
  <2>2. pc \in {"flush", "check", "wait"}
    BY FlushPhases
  <2>3. \/ pc' = "idle"
        \/ /\ work.tick.inner /\ pc' = (IF Len(chain) < work.tick.goal THEN "build" ELSE "flush")
           /\ work' = [NoWork EXCEPT !.tick = [work.tick EXCEPT !.pushed = 0, !.inner = FALSE]]
    BY <2>1 DEF FlushReturns, l2_head_number
  <2>4. CASE pc' = "idle"
    BY <2>4
  <2>5. CASE pc' # "idle"
    <3>1. Len(chain) >= work.tick.goal /\ Len(chain) \in Nat /\ work.tick.goal \in Nat
      BY <2>2, <2>3, <2>5, BundleTypes DEF Phases
    <3>2. pc' = "flush"
      BY <2>3, <2>5, <3>1
    <3>3. work'.tick.inner = FALSE
      <4>1. work.tick \in Ticks
        BY BundleTypes, WorkFields
      <4> DEFINE t == [work.tick EXCEPT !.pushed = 0, !.inner = FALSE]
      <4>2. t.inner = FALSE
        BY <4>1 DEF Ticks
      <4>3. work' = [NoWork EXCEPT !.tick = t]
        BY <2>3, <2>5
      <4> HIDE DEF t
      <4>4. work'.tick = t
        BY <4>3 DEF NoWork
      <4> QED
        BY <4>2, <4>4
    <3> QED
      BY <3>2, <3>3
  <2> QED
    BY <2>4, <2>5
<1> QED
  BY <1>1, <1>2, <1>3

\* While L1 and the transactions that wait for it stand still, and none of them
\* can be mined any more
LEMMA L1StandsStill ==
  ASSUME PostedLater, OwnMempool, l1' = l1, mempool' = mempool,
         \A tx \in mempool : ~(tx.target > Len(l1))
  PROVE  PostedLater' /\ OwnMempool' /\ Posts' = Posts
<1>1. Posts' = Posts
  BY DEF Posts
<1>2. PostedLater'
  BY <1>1 DEF PostedLater
<1>3. OwnMempool'
  BY DEF OwnMempool
<1> QED
  BY <1>1, <1>2, <1>3

\* The flush skips, gives up or schedules a recovery.
LEMMA QuietFlushBundle ==
  ASSUME Types, Types', BundleInv, FlushNext, pc # "wait", ~FlushTrim, ~FlushSubmit
  PROVE  BundleInv'
<1>1. /\ l1' = l1 /\ mempool' = mempool /\ chain' = chain /\ pc \in {"flush", "check"}
      /\ pc' \in {"idle", "flush"} /\ (pc' = "flush" => ~work'.tick.inner)
  BY DriverReadsL1, FlushPhases, FlushWalk DEF BundleInv, TriggersNotSent
<1>2. PostedLater' /\ OwnMempool'
  <2>1. \A tx \in mempool : ~(tx.target > Len(l1))
    BY DEF BundleInv, OwnMempool
  <2> QED
    BY <1>1, <2>1, L1StandsStill DEF BundleInv
<1>3. Queued'
  <2>1. Quiet(d', d)
    BY FlushQuiet
  <2>2. Len(chain') >= Len(chain)
    BY <1>1, BundleTypes
  <2> QED
    BY <1>1, <2>1, <2>2, QuietQueued DEF BundleInv
<1>4. Building' /\ Phases' /\ InFlight'
  BY <1>1 DEF Building, Phases, InFlight
<1> QED
  BY <1>2, <1>3, <1>4 DEF BundleInv

\* The trim finds nothing to confirm.
LEMMA TrimBundle ==
  ASSUME Types, BundleInv, FlushTrim
  PROVE  BundleInv'
<1>1. /\ pc = "flush" /\ pc' = "check" /\ UNCHANGED <<l1, mempool, chain>>
      /\ d' = Trimmed(d, OnChainRoot) /\ work' = [work EXCEPT !.root = OnChainRoot]
  BY DEF FlushTrim
<1>2. Queued /\ PostedLater /\ OwnMempool /\ Phases /\ Aligned(d.pending, d.seen)
  BY <1>1 DEF BundleInv, Queued
<1>3. d' = d
  BY <1>1, <1>2, TrimsNothing
<1>4. work'.tick = work.tick
  BY <1>1, BundleTypes DEF Works
<1>5. PostedLater' /\ OwnMempool' /\ Posts' = Posts
  <2>1. \A tx \in mempool : ~(tx.target > Len(l1))
    BY <1>1, <1>2 DEF OwnMempool
  <2> QED
    BY <1>1, <1>2, <2>1, L1StandsStill
<1>6. Queued'
  <2>1. Aligned(d.pending, d.seen)'
    BY <1>2, <1>3, <1>5 DEF Aligned
  <2>2. Belong(d.entries, d.pending)'
    BY <1>1, <1>2, <1>3 DEF Queued, Belong
  <2> QED
    BY <1>1, <1>2, <1>3, <2>1, <2>2 DEF Queued
<1>7. Building' /\ Phases' /\ InFlight'
  BY <1>1, <1>2, <1>4 DEF Building, Phases, InFlight
<1> QED
  BY <1>5, <1>6, <1>7 DEF BundleInv

\* The batch takes the whole queue and every entry, which its last block is for.
LEMMA SubmitBundle ==
  ASSUME BundleRoom, Types, BundleInv, FlushSubmit
  PROVE  BundleInv'
<1> DEFINE q == d.pending
           n == Len(q)
<1>1. /\ pc = "check" /\ pc' = "wait" /\ mempool' = mempool \cup {Submission}
      /\ UNCHANGED <<l1, chain>> /\ ~FrontIsStale /\ ~NothingToFlush
  BY DEF FlushSubmit, Proceed
<1>2. /\ d \in Drivers /\ work \in Works /\ q \in Seq(BuiltBlocks) /\ d.entries \in Seq(L2Number)
      /\ d.seen \in Nat /\ n \in Nat
  BY BundleTypes
<1>3. /\ Aligned(q, d.seen) /\ Belong(d.entries, q) /\ PostedLater /\ OwnMempool /\ Phases
  BY <1>1 DEF BundleInv, Queued
<1>4. q # <<>>
  BY <1>1, <1>3 DEF NothingToFlush, Belong
<1>5. /\ \A i \in 1 .. n : q[i] \in Blocks /\ q[i] # <<>> /\ ContextOf(q[i]) = d.seen
      /\ BatchSize = n /\ n <= Room
  BY <1>1, <1>2, <1>3, <1>4, WholeBatch, QueueContexts DEF Aligned
<1>6. n # 0 /\ 1 \in 1 .. n /\ n \in 1 .. n /\ SubSeq(q, 1, n) = q /\ SubSeq(q, n + 1, n) = <<>>
  BY <1>2, <1>4
<1>7. /\ Submission.root = q[n] /\ Submission.first = Len(q[1]) /\ Submission.ents = d.entries
      /\ Submission.target = d.seen + 1
  BY <1>5, <1>6 DEF Submission, FrontBlock, NumberOf
<1>8. Len(q[1]) # 0
  <2>1. q[1] \in Seq(L2Blocks(MaxL1, MaxReorgs, MaxEntries)) /\ q[1] # <<>>
    BY <1>5, <1>6 DEF Blocks, Roots
  <2> QED
    BY <2>1
<1>9. d'.pending = <<>> /\ d'.entries = <<>> /\ d'.seen = d.seen
  <2> DEFINE m == PreRootMatched(d)
             h == HoldArmed(m)
  <2>1. m \in Drivers /\ m.seen = d.seen /\ m.pending = q
    <3>1. m.seen = d.seen
      BY <1>2 DEF PreRootMatched, Drivers
    <3> QED
      BY <1>2, <3>1, MatchedType
  <2>2. d' = [h EXCEPT !.pending = SubSeq(h.pending, BatchSize + 1, Len(h.pending)), !.entries = <<>>]
    BY DEF FlushSubmit
  <2>3. \E x : h = [m EXCEPT !.hold = x]
    BY DEF HoldArmed
  <2> HIDE DEF m, h
  <2>4. h.pending = q /\ h.seen = d.seen
    BY <2>1, <2>3 DEF Drivers
  <2>5. SubSeq(h.pending, BatchSize + 1, Len(h.pending)) = <<>>
    BY <1>5, <1>6, <2>4
  <2>6. d' = [h EXCEPT !.pending = <<>>, !.entries = <<>>]
    BY <2>2, <2>5
  <2> QED
    BY <2>1, <2>3, <2>4, <2>6 DEF Drivers
<1>10. work'.sent = Submission /\ work'.blocks = q /\ work'.tick = work.tick
  <2>1. work' = [work EXCEPT !.sent = Submission, !.blocks = q]
    BY <1>5, <1>6 DEF FlushSubmit
  <2> QED
    BY <1>2, <2>1 DEF Works
<1>11. Posts' = Posts /\ PostedLater' /\ \A p \in Posts : p <= d.seen
  <2>1. Posts' = Posts
    BY <1>1 DEF Posts
  <2>2. PostedLater'
    BY <1>1, <1>3, <2>1 DEF PostedLater
  <2> QED
    BY <1>3, <1>5, <1>6, <2>1, <2>2 DEF Aligned
<1>12. /\ ForBlock(d.entries, Len(q[n]))
       /\ d.entries # <<>> => n = Room \/ Len(chain) >= d.seen
  <2>1. ContextOf(q[1]) = d.seen
    BY <1>5, <1>6
  <2>2. CASE d.entries # <<>>
    BY <1>3, <2>1, <2>2 DEF Belong, NumberOf
  <2>3. CASE d.entries = <<>>
    BY <2>3 DEF ForBlock
  <2> QED
    BY <2>2, <2>3
<1> HIDE DEF q, n
<1>13. InFlight'
  BY <1>1, <1>4, <1>5, <1>7, <1>8, <1>9, <1>10, <1>11, <1>12 DEF InFlight, Sent, n
<1>14. OwnMempool'
  <2>1. \A tx \in mempool : ForBlock(tx.ents, Len(tx.root)) /\ ~(tx.target > Len(l1))
    BY <1>1, <1>3 DEF OwnMempool
  <2>2. ForBlock(Submission.ents, Len(Submission.root))
    BY <1>7, <1>12
  <2>3. Sent' = Submission
    BY <1>10 DEF Sent
  <2> QED
    BY <1>1, <2>1, <2>2, <2>3 DEF OwnMempool
<1>15. Queued' /\ Building' /\ Phases'
  <2>1. Queued'
    BY <1>1, <1>9, Bounds DEF Queued, Aligned, Room
  <2> QED
    BY <1>1, <1>3, <1>10, <2>1 DEF Building, Phases
<1> QED
  BY <1>11, <1>13, <1>14, <1>15 DEF BundleInv

\* The batch is on L1, or missed its block and goes back to the queues whole.
LEMMA OutcomeBundle ==
  ASSUME Types, BundleInv, pc = "wait", FlushNext, NoFault
  PROVE  BundleInv'
<1>1. ~Fault
  BY FaultCounts
<1>2. /\ l1' = l1 /\ mempool' = mempool /\ chain' = chain /\ pc' \in {"idle", "flush"}
      /\ (pc' = "flush" => ~work'.tick.inner)
  BY <1>1, DriverReadsL1, FlushPhases, FlushWalk
     DEF BundleInv, TriggersNotSent, FlushTrim, FlushSubmit, Proceed
<1>3. /\ d \in Drivers /\ work.blocks \in Seq(BuiltBlocks) /\ Sent \in Txs /\ Sent.target \in Nat
      /\ Len(l1) \in Nat /\ d.seen \in Nat
  BY BundleTypes, Bounds DEF Txs
<1>4. InFlight /\ PostedLater /\ OwnMempool
  BY DEF BundleInv
<1>5. Sent.target <= Len(l1)
  BY <1>3, OutcomeQuiet DEF Landed, Missed
<1>6. PostedLater' /\ OwnMempool' /\ Posts' = Posts
  <2>1. \A tx \in mempool : ~(tx.target > Len(l1))
    BY <1>3, <1>4, <1>5 DEF OwnMempool
  <2> QED
    BY <1>2, <1>4, <2>1, L1StandsStill
<1>7. \/ d'.pending = <<>> /\ d'.entries = <<>>
      \/ Missed /\ d'.pending = work.blocks /\ d'.entries = Sent.ents /\ d'.seen = d.seen
  <2>1. d.pending = <<>> /\ d.entries = <<>>
    BY <1>4 DEF InFlight
  <2>2. Confirmed.pending = <<>> /\ Confirmed.entries = <<>>
    <3>1. \E a : Confirmed \in {d, [d EXCEPT !.anchor = a]}
      BY DEF Confirmed
    <3> QED
      BY <1>3, <2>1, <3>1 DEF Drivers
  <2>3. work.blocks \o <<>> = work.blocks
    BY <1>3
  <2> QED
    BY <2>1, <2>2, <2>3, OutcomeQuiet DEF Quiet
<1>8. Queued'
  <2>1. CASE d'.pending = <<>> /\ d'.entries = <<>>
    BY <2>1, EmptyAligned, Bounds DEF Queued, Aligned, Belong, Room
  <2>2. CASE Missed /\ d'.pending = work.blocks /\ d'.entries = Sent.ents /\ d'.seen = d.seen
    <3> DEFINE q == work.blocks
               n == Len(q)
    <3>1. /\ q # <<>> /\ n <= Room /\ (\A i \in 1 .. n : ContextOf(q[i]) = d.seen)
          /\ (Sent.ents # <<>> => ForBlock(Sent.ents, NumberOf(q[n])) /\ (n = Room \/ Len(chain) >= d.seen))
          /\ (\A p \in Posts : p <= d.seen)
      BY <1>4, <2>2 DEF InFlight, Missed, NumberOf
    <3>2. 1 \in 1 .. n
      BY <1>3, <3>1
    <3> HIDE DEF q, n
    <3>3. d'.pending = q /\ Len(q) = n
      BY <2>2 DEF q, n
    <3>4. Aligned(d.pending, d.seen)'
      BY <1>3, <1>6, <2>2, <3>1, <3>2, <3>3 DEF Aligned
    <3>5. Belong(d.entries, d.pending)' /\ ContextOf(d'.pending[1]) <= d'.seen
      BY <1>2, <1>3, <2>2, <3>1, <3>2, <3>3 DEF Belong
    <3> QED
      BY <1>2, <3>4, <3>5 DEF Queued
  <2> QED
    BY <1>7, <2>1, <2>2
<1>9. Building' /\ Phases' /\ InFlight'
  BY <1>2 DEF Building, Phases, InFlight
<1> QED
  BY <1>6, <1>8, <1>9 DEF BundleInv

\* flush_to_l1, without a failure
LEMMA FlushBundle ==
  ASSUME BundleRoom, Types, Types', BundleInv, FlushNext, ~Fault
  PROVE  BundleInv'
<1>1. CASE pc = "wait"
  <2>1. NoFault
    <3>1. [Next]_vars
      BY DEF Next
    <3> QED
      BY <3>1, FaultsGrow
  <2> QED
    BY <1>1, <2>1, OutcomeBundle
<1>2. CASE FlushTrim
  BY <1>2, TrimBundle
<1>3. CASE FlushSubmit
  BY <1>3, SubmitBundle
<1>4. CASE pc # "wait" /\ ~FlushTrim /\ ~FlushSubmit
  BY <1>4, QuietFlushBundle
<1> QED
  BY <1>1, <1>2, <1>3, <1>4

\* L1 moves: the batches on it stay or go, or the one in flight is posted.
LEMMA L1Moves ==
  ASSUME Types, Types', BundleInv, UNCHANGED <<chain, d, pc, work>>,
         Len(l1') >= Len(l1), \A tx \in mempool' : tx \in mempool,
         \A p \in Posts' :
           \/ p \in Posts /\ l1'[p].batch = l1[p].batch
           \/ /\ pc = "wait" /\ p = Sent.target /\ Landed'
              /\ l1'[p].batch.root # <<>> /\ ContextOf(l1'[p].batch.root) < p
  PROVE  BundleInv'
<1>1. /\ Sent' = Sent /\ d.seen \in Nat /\ Len(l1) \in Nat /\ Len(l1') \in Nat
      /\ d.pending \in Seq(BuiltBlocks)
  BY BundleTypes DEF Sent
<1>2. Queued /\ Phases /\ InFlight /\ OwnMempool /\ PostedLater
  BY DEF BundleInv
<1>3. PostedLater'
  BY <1>2 DEF PostedLater
<1>4. OwnMempool'
  <2>1. \A tx \in mempool : tx.target > Len(l1') => tx.target > Len(l1)
    <3>1. \A tx \in mempool : tx.target \in Nat
      BY TypeFacts, Bounds DEF Txs
    <3>2. Len(l1) \in Nat /\ Len(l1') \in Nat
      BY BundleTypes
    <3> QED
      BY <3>1, <3>2
  <2> QED
    BY <1>1, <1>2, <2>1 DEF OwnMempool
<1>5. Queued'
  <2> DEFINE newest == IF pc = "latest" THEN Len(l1) ELSE d.seen
             after == IF pc' = "latest" THEN Len(l1') ELSE d'.seen
             q == d.pending
  <2>1. newest \in Nat /\ after \in Nat /\ newest <= after
    BY <1>1
  <2>2. Aligned(q, newest) /\ \A i \in 1 .. Len(q) : ContextOf(q[i]) \in Nat
    BY <1>1, <1>2, QueueContexts DEF Queued
  <2> HIDE DEF newest, after
  <2>3. Len(q) <= Room /\ \A i \in 1 .. Len(q) : ContextOf(q[1]) <= ContextOf(q[i])
    BY <2>2 DEF Aligned
  <2>4. \A i \in 1 .. Len(q) : ContextOf(q[i]) <= after
    BY <2>1, <2>2 DEF Aligned
  <2>5. \A i \in 1 .. Len(q) : \A p \in Posts' : p <= ContextOf(q[i])
    <3>1. CASE pc = "wait"
      <4>1. Len(q) = 0
        BY <1>2, <3>1 DEF InFlight
      <4> QED
        BY <4>1
    <3>2. CASE pc # "wait"
      BY <2>2, <3>2 DEF Aligned
    <3> QED
      BY <3>1, <3>2
  <2>6. d'.pending = q
    OBVIOUS
  <2> HIDE DEF q
  <2>7. /\ Len(d'.pending) <= Room
        /\ \A i \in 1 .. Len(d'.pending) :
             /\ ContextOf(d'.pending[1]) <= ContextOf(d'.pending[i]) /\ ContextOf(d'.pending[i]) <= after
             /\ \A p \in Posts' : p <= ContextOf(d'.pending[i])
    BY <2>3, <2>4, <2>5, <2>6
  <2>8. Belong(d.entries, d.pending)' = Belong(d.entries, d.pending)
    BY DEF Belong
  <2> QED
    BY <1>2, <2>7, <2>8 DEF Queued, Aligned, after
<1>6. Building' /\ Phases'
  <2>1. Building'
    BY <1>2 DEF BundleInv, Building
  <2>2. pc # "wait" => \A p \in Posts' : p \in Posts
    OBVIOUS
  <2>3. Phases'
    BY <1>2, <2>2 DEF Phases
  <2> QED
    BY <2>1, <2>3
<1>7. InFlight'
  <2> SUFFICES ASSUME pc = "wait"
               PROVE  \A p \in Posts' : p <= d.seen \/ (p = Sent.target /\ Landed')
    BY <1>1, <1>2 DEF InFlight
  <2>1. ASSUME NEW p \in Posts, p = Sent.target, Landed, l1'[p].batch = l1[p].batch PROVE Landed'
    <3>1. Len(l1') >= Sent.target
      BY <2>1, BundleTypes DEF Posts
    <3>2. l1'[Sent.target].batch = l1[Sent.target].batch
      BY <2>1
    <3>3. /\ l1[Sent.target].batch.blocks = BlocksOf(Sent) /\ l1[Sent.target].batch.ents = Len(Sent.ents)
          /\ l1[Sent.target].batch # NoBatch
          /\ Sent.first # 0 => l1[Sent.target].batch.root = WithEntries(Sent.root, l1[Sent.target].batch.used)
      BY <2>1 DEF Landed
    <3> QED
      BY <1>1, <3>1, <3>2, <3>3 DEF Landed, BlocksOf
  <2> QED
    BY <1>2, <2>1 DEF InFlight
<1> QED
  BY <1>3, <1>4, <1>5, <1>6, <1>7 DEF BundleInv

\* An L1 block without a batch
LEMMA MineBundle ==
  ASSUME Types, Types', BundleInv, L1Mine
  PROVE  BundleInv'
<1> DEFINE b == [hash |-> used.reorgs, batch |-> NoBatch]
<1>1. /\ l1' = Append(l1, b) /\ b.batch.blocks = <<>> /\ UNCHANGED <<chain, d, pc, work>>
      /\ \A tx \in mempool' : tx \in mempool
  BY DEF L1Mine, Mined, NoBatch
<1> HIDE DEF b
<1>2. /\ Len(l1') = Len(l1) + 1 /\ (\A i \in 1 .. Len(l1) : l1'[i] = l1[i]) /\ Posts' = Posts
      /\ Len(l1) \in Nat /\ Posts \in SUBSET (1 .. Len(l1))
  BY <1>1, PostsAsL1Grows, BundleTypes
<1>3. \A p \in Posts' : p \in Posts /\ l1'[p].batch = l1[p].batch
  BY <1>2
<1>4. Len(l1') >= Len(l1)
  BY <1>2
<1> QED
  BY <1>1, <1>3, <1>4, L1Moves

\* The batch in flight, with the L1 context of its blocks one L1 block below it
LEMMA IncludeBundle ==
  ASSUME Types, Types', BundleInv, NEW tx \in mempool, NEW consumed \in 0 .. Consumable(tx),
         L1Include(tx, consumed)
  PROVE  BundleInv'
<1> DEFINE batch == BatchOf(tx, consumed)
           b == [hash |-> used.reorgs, batch |-> batch]
           m == Len(l1)
<1>1. /\ tx.target = m + 1 /\ l1' = Append(l1, b) /\ UNCHANGED <<chain, d, pc, work>>
      /\ \A x \in mempool' : x \in mempool
  BY DEF L1Include, Accepts, Mined
<1>2. m \in Nat /\ d.seen \in Nat /\ Posts \in SUBSET (1 .. m)
      /\ work.blocks \in Seq(BuiltBlocks)
  BY BundleTypes
<1>3. pc = "wait" /\ tx = Sent
  BY <1>1, <1>2 DEF BundleInv, OwnMempool
<1>4. /\ Sent.first # 0 /\ Sent.target = d.seen + 1
      /\ Sent.root \in Blocks /\ Sent.root # <<>> /\ ContextOf(Sent.root) = d.seen
  <2>1. /\ Sent.first # 0 /\ Sent.target = d.seen + 1 /\ work.blocks # <<>>
        /\ Sent.root = work.blocks[Len(work.blocks)]
        /\ \A i \in 1 .. Len(work.blocks) : ContextOf(work.blocks[i]) = d.seen
    BY <1>3 DEF BundleInv, InFlight
  <2>2. Len(work.blocks) \in 1 .. Len(work.blocks)
    BY <1>2, <2>1, QueueContexts
  <2> QED
    BY <1>2, <2>1, <2>2, QueueContexts
<1>5. batch.root # <<>> /\ ContextOf(batch.root) = d.seen
  BY <1>3, <1>4, EntriesKeepContext DEF BatchOf
<1>6. /\ batch.blocks = BlocksOf(Sent) /\ batch.ents = Len(Sent.ents)
      /\ batch.root = WithEntries(Sent.root, batch.used)
  BY <1>3, <1>4 DEF BatchOf
<1> HIDE DEF batch
<1>7. b.batch = batch
  OBVIOUS
<1> HIDE DEF b
<1>8. Len(l1') = m + 1 /\ l1'[m + 1] = b /\ \A i \in 1 .. m : l1'[i] = l1[i]
  BY <1>1, PostsAsL1Grows
<1>9. ASSUME NEW p \in Posts', p # m + 1 PROVE p \in Posts /\ l1'[p].batch = l1[p].batch
  <2>1. p \in 1 .. m /\ l1'[p].batch.blocks # <<>>
    BY <1>2, <1>8, <1>9 DEF Posts
  <2> QED
    BY <1>8, <2>1 DEF Posts
<1>10. ASSUME NEW p \in Posts', p = m + 1
       PROVE  /\ pc = "wait" /\ p = Sent.target /\ Landed'
              /\ l1'[p].batch.root # <<>> /\ ContextOf(l1'[p].batch.root) < p
  <2>1. p = Sent.target /\ l1'[p].batch = batch /\ batch.blocks # <<>>
    BY <1>1, <1>3, <1>7, <1>8, <1>10 DEF Posts
  <2>2. Landed'
    <3>1. Sent' = Sent /\ Len(l1') >= Sent.target /\ l1'[Sent.target].batch = batch
      BY <1>1, <1>2, <1>8, <1>10, <2>1 DEF Sent
    <3>2. batch # NoBatch
      BY <2>1 DEF NoBatch
    <3> QED
      BY <1>6, <3>1, <3>2 DEF Landed, BlocksOf
  <2> QED
    BY <1>2, <1>3, <1>4, <1>5, <2>1, <2>2
<1>11. Len(l1') >= Len(l1)
  BY <1>2, <1>8
<1> HIDE DEF m
<1> QED
  BY <1>1, <1>9, <1>10, <1>11, L1Moves

\* What happens on L1
LEMMA L1Bundle ==
  ASSUME Types, Types', BundleInv, BuilderMode, L1Next, used'.reorgs = 0
  PROVE  BundleInv'
<1>1. \A batch : ~L1ForeignBatch(batch)
  BY DEF L1ForeignBatch, ForeignFits
<1>2. ~ \E i \in 1 .. Len(l1) : L1Reorgs(i)
  BY ReorgIsCounted
<1> QED
  BY <1>1, <1>2, MineBundle, IncludeBundle DEF L1Next

\* A fullnode submits nothing; a builder on the bundle path keeps BundleInv as
\* long as nothing went wrong.
EntriesInv ==
  /\ AnchorInv
  /\ ~BuilderMode => mempool = {}
  /\ BundleRoom /\ BuilderMode /\ NoMishap => BundleInv

\* The initial state: nothing queued, nothing on L1
LEMMA InitEntries == Init => EntriesInv
<1> SUFFICES ASSUME Init PROVE EntriesInv
  OBVIOUS
<1>1. l1 = <<>> /\ mempool = {} /\ pc = "idle" /\ d.pending = <<>> /\ d.entries = <<>>
  BY DEF Init, FreshDriver
<1>2. Posts = {}
  BY <1>1 DEF Posts
<1>3. BundleInv
  BY <1>1, <1>2, EmptyAligned
     DEF BundleInv, PostedLater, Queued, Building, Phases, InFlight, OwnMempool
<1> QED
  BY <1>1, <1>3, InitAnchor DEF EntriesInv

\* Every step
LEMMA NextEntries == EntriesInv /\ [Next]_vars => EntriesInv'
<1> SUFFICES ASSUME EntriesInv, [Next]_vars PROVE EntriesInv'
  OBVIOUS
<1>1. AnchorInv /\ AnchorInv'
  BY NextAnchor DEF EntriesInv
<1>2. Types /\ Types' /\ LocalInv
  BY <1>1 DEF AnchorInv, LocalInv
<1>3. ASSUME ~BuilderMode PROVE mempool' = {}
  <2>1. mempool = {} /\ ~FlushNext
    BY <1>1, <1>2, <1>3, FlushPhases DEF EntriesInv, AnchorInv, FullnodeInv, Live
  <2>2. CASE StepNext
    BY <1>2, <2>1, <2>2, StepPhases
  <2>3. CASE L1Next
    <3>1. \A tx \in mempool' : tx \in mempool
      <4>1. CASE \E batch : Mined(batch)
        BY <4>1 DEF Mined
      <4>2. CASE \E i \in 1 .. Len(l1) : L1Reorgs(i)
        BY <4>2, ReorgCases DEF L1Reorg
      <4> QED
        BY <2>3, <4>1, <4>2, L1Cases
    <3> QED
      BY <2>1, <3>1
  <2>4. CASE RestartNext
    BY <2>1, <2>4 DEF RestartNext, Crash, Shutdown, Restart
  <2>5. CASE UNCHANGED vars
    BY <2>1, <2>5 DEF vars
  <2> QED
    BY <2>1, <2>2, <2>3, <2>4, <2>5 DEF Next
<1>4. ASSUME BundleRoom, BuilderMode, NoMishap' PROVE BundleInv'
  <2>1. NoMishap /\ ~RestartNext /\ used'.reorgs = 0 /\ ~Fault
    BY <1>2, <1>4, MishapsStay, FaultCounts
  <2>2. BundleInv /\ Kept
    BY <1>2, <1>4, <2>1 DEF EntriesInv, LocalInv, NoMishap
  <2>3. CASE StepNext
    BY <1>2, <1>4, <2>1, <2>2, <2>3, StepBundle
  <2>4. CASE FlushNext
    BY <1>2, <1>4, <2>1, <2>2, <2>4, FlushBundle
  <2>5. CASE L1Next
    BY <1>2, <1>4, <2>1, <2>2, <2>5, L1Bundle
  <2>6. CASE UNCHANGED vars
    <3>1. UNCHANGED <<l1, mempool, chain, d, pc, work>>
      BY <2>6 DEF vars
    <3>2. Posts' = Posts /\ Sent' = Sent
      BY <3>1 DEF Posts, Sent
    <3>3. Landed' = Landed
      BY <3>1, <3>2 DEF Landed, BlocksOf
    <3>4. PostedLater' /\ Building' /\ Phases' /\ OwnMempool'
      BY <2>2, <3>1, <3>2 DEF BundleInv, PostedLater, Building, Phases, OwnMempool
    <3>5. Queued'
      BY <2>2, <3>1, <3>2 DEF BundleInv, Queued, Aligned, Belong
    <3>6. InFlight'
      BY <2>2, <3>1, <3>2, <3>3 DEF BundleInv, InFlight
    <3> QED
      BY <3>4, <3>5, <3>6 DEF BundleInv
  <2> QED
    BY <2>1, <2>3, <2>4, <2>5, <2>6 DEF Next
<1> QED
  BY <1>1, <1>3, <1>4 DEF EntriesInv

\* On the bundle path as configured, a batch carries only entries of its own
\* last block, as long as no call failed, L1 was not reorganised and the node not
\* restarted: whatever was missed and queued again, partly consumed, rewound or
\* refreshed, with L1 growing at any point of the step.  flush_to_l1 sends every
\* queued entry with the front blocks that share an L1 context; that those are
\* all the blocks, and that building stops or goes on at the block the entries
\* are for, is what the pending cap and the batch size bring about.  (A bundle
\* that was taken for missed and lands in the sibling of its block ends it.)
THEOREM EntriesStayWithBlock == Spec => [](BundleRoom /\ NoMishap => EntriesWithTheirBlock)
<1>1. Spec => []EntriesInv
  BY InitEntries, NextEntries, PTL DEF Spec
<1>2. EntriesInv => (BundleRoom /\ NoMishap => EntriesWithTheirBlock)
  <2> SUFFICES ASSUME EntriesInv, BundleRoom, NoMishap PROVE EntriesWithTheirBlock
    OBVIOUS
  <2>1. CASE BuilderMode
    BY <2>1 DEF EntriesInv, BundleInv, OwnMempool, ForBlock, EntriesWithTheirBlock
  <2>2. CASE ~BuilderMode
    BY <2>2 DEF EntriesInv, EntriesWithTheirBlock
  <2> QED
    BY <2>1, <2>2
<1> QED
  BY <1>1, <1>2, PTL
=============================================================================
