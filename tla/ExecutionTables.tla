---------------------------- MODULE ExecutionTables ----------------------------
(***************************************************************************)
(* The execution tables of one user transaction: table_builder.rs and the  *)
(* entry builders of cross_chain.rs.  From the cross-chain calls that the  *)
(* composer detected, the builder makes two tables.  The L2 table is       *)
(* loaded into CrossChainManagerL2; the L1 table is posted with the batch. *)
(* Each entry says: when the action with this hash is met, go on with that *)
(* action.  Two actions have the same hash iff they are equal, so the hash *)
(* of an action is the action itself.                                      *)
(***************************************************************************)
EXTENDS Integers, Sequences, FiniteSets, SequencesExt

Mainnet == 0
Our     == 1                       \* our_rollup_id

Nobody == "nobody"                 \* Address::ZERO
Root   == <<>>                     \* ScopePath::root()
Empty  == 0                        \* empty return data; other data are positive

(***************************************************************************)
(* Actions.  A destination stands for the contract and the calldata sent   *)
(* to it; source_rollup is implied by the type and the target rollup.      *)
(***************************************************************************)
Action(type, rollup, dest, src, value, data, failed, scope) ==
    [type |-> type, rollup |-> rollup, dest |-> dest, src |-> src,
     value |-> value, data |-> data, failed |-> failed, scope |-> scope]

Call(rollup, dest, src, value, scope) ==
    Action("CALL", rollup, dest, src, value, Empty, FALSE, scope)

Result(rollup, data, failed) ==
    Action("RESULT", rollup, Nobody, Nobody, 0, data, failed, Root)

ResultVoid(rollup) == Result(rollup, Empty, FALSE)

L2Tx(tx) == Action("L2TX", Our, Nobody, Nobody, 0, tx, FALSE, Root)   \* the raw transaction is its data

RevertAction(scope) == Action("REVERT", Our, Nobody, Nobody, 0, Empty, FALSE, scope)

RevertContinue == Action("REVERT_CONTINUE", Our, Nobody, Nobody, 0, Empty, TRUE, Root)

Scoped(act, scope) == [act EXCEPT !.scope = scope]

\* The fallback taken where a detected call carries no scope of its own.
ScopeOr(scope, index) == IF scope = Root THEN <<index>> ELSE scope

NoRoot == <<>>                     \* B256::ZERO, a root not assigned yet

Entry(hash, next, ether) ==
    [hash |-> hash, next |-> next, ether |-> ether, cur |-> NoRoot, new |-> NoRoot]

(***************************************************************************)
(* Solidity removes a consumed entry by moving the last one into its place *)
(* (_consumeExecution), so the entries of one hash are laid out            *)
(* E0, E(N-1), ..., E1.  The groups are sorted by hash value, an order     *)
(* that says nothing about the entries: they are taken here in order of    *)
(* their first entry.                                                      *)
(***************************************************************************)
GroupOf(entries, i) == SelectSeq(entries, LAMBDA e : e.hash = entries[i].hash)

\* Mutant: the group is left as it was made.
RotatedNot(group) == group

Rotated(group) ==
    IF Len(group) < 3 THEN group ELSE <<Head(group)>> \o Reverse(Tail(group))

ReorderForSwapAndPop(entries) ==
    LET first(i) == \A j \in 1..(i - 1) : entries[j].hash # entries[i].hash
        multi == SetToSortSeq({i \in DOMAIN entries : first(i) /\ Len(GroupOf(entries, i)) >= 2}, <)
        single == SetToSortSeq({i \in DOMAIN entries : Len(GroupOf(entries, i)) = 1}, <)
    IN  IF \E i \in DOMAIN entries : Len(GroupOf(entries, i)) >= 3
        THEN FlattenSeq([k \in DOMAIN multi |-> Rotated(GroupOf(entries, multi[k]))])
             \o [k \in DOMAIN single |-> entries[single[k]]]
        ELSE entries

-----------------------------------------------------------------------------
(***************************************************************************)
(* Detected calls: `parent` is 0 for a root, else the index of the call    *)
(* during whose execution this one is made.                                *)
(***************************************************************************)
Children(calls, i) == SetToSortSeq({j \in DOMAIN calls : calls[j].parent = i}, <)

L2Result(c)       == Result(Our, c.l2ret, c.failed)
DeliveryResult(c) == Result(Mainnet, c.delivery, c.failed)

\* analyze_continuation_calls.  An L2->L1 child names L1 as its target and has a parent.
AnalyzeContinuationCalls(found) ==
    [i \in DOMAIN found |->
        LET c == found[i]
            child == c.toL1 /\ c.parent # 0
        IN  [l1ToL2   |-> ~child,
             act      |-> Call(IF child THEN Mainnet ELSE Our, c.dest, c.src, c.value, Root),
             parent   |-> IF child THEN c.parent ELSE 0,
             depth    |-> IF child THEN 1 ELSE c.depth,
             delivery |-> IF child THEN c.ret ELSE Empty,
             l2ret    |-> IF child THEN Empty ELSE c.ret,
             failed   |-> ~c.ok,
             scope    |-> IF child THEN c.scope ELSE Root,
             reverted |-> c.reverted]]

L1ToL2Calls(calls) == SetToSortSeq({i \in DOMAIN calls : calls[i].l1ToL2}, <)

HasPartialRevert(calls) ==
    LET top == {i \in DOMAIN calls : calls[i].l1ToL2}
    IN  /\ \E i \in top : calls[i].reverted
        /\ \E i \in top : ~calls[i].reverted
        /\ \A i \in top : \A j \in DOMAIN calls : calls[j].parent = i => calls[j].l1ToL2

\* Each L1->L2 call strictly deeper in the L1 trace than the one before.
IsReentrant(calls) ==
    LET top == L1ToL2Calls(calls)
    IN  /\ Len(top) > 1
        /\ \A k \in 1..(Len(top) - 1) : calls[top[k + 1]].depth > calls[top[k]].depth

\* Reentrant model, L2: first every child, then the results from the innermost call out.
ReentrantL2Entries(calls) ==
    LET top == L1ToL2Calls(calls)
        n == Len(top)
        childNext(pos, c) == IF pos < n THEN Scoped(calls[top[pos + 1]].act, <<0>>)
                                        ELSE DeliveryResult(c)
        children(pos) == LET ch == Children(calls, top[pos])
                         IN  [k \in DOMAIN ch |->
                                Entry(calls[ch[k]].act, childNext(pos, calls[ch[k]]), 0)]
        outer(pos) == LET ch == Children(calls, top[pos - 1])
                      IN  IF ch = <<>> THEN ResultVoid(Our) ELSE DeliveryResult(calls[ch[1]])
        unwind(pos) == LET r == L2Result(calls[top[pos]])
                       IN  Entry(r, IF pos = 1 THEN r ELSE outer(pos), 0)
    IN  FlattenSeq([pos \in 1..n |-> children(pos)]) \o [k \in 1..n |-> unwind(n + 1 - k)]

\* Continuation model, L2: per call its children, then its result leads to the next call.
ContinuationL2Entries(calls) ==
    LET top == L1ToL2Calls(calls)
        n == Len(top)
        children(pos) == LET ch == Children(calls, top[pos])
                         IN  [k \in DOMAIN ch |->
                                Entry(calls[ch[k]].act, DeliveryResult(calls[ch[k]]), 0)]
        result(pos) == LET r == L2Result(calls[top[pos]])
                       IN  Entry(r, IF pos = n THEN r ELSE calls[top[pos + 1]].act, 0)
    IN  FlattenSeq([pos \in 1..n |-> children(pos) \o <<result(pos)>>])

\* The position of the first element that satisfies P, 0 if there is none.
Position(s, P(_)) == IF \E i \in DOMAIN s : P(s[i])
                     THEN CHOOSE i \in DOMAIN s : P(s[i]) /\ \A j \in 1..(i - 1) : ~P(s[j])
                     ELSE 0

\* The entry that leads to the first call kept now reverts the scope of the
\* calls before it; REVERT_CONTINUE leads to that call, in its own scope.
PartialRevertL2(entries, calls) ==
    LET top == L1ToL2Calls(calls)
        kept == Position(top, LAMBDA i : ~calls[i].reverted)
        gone == Position(top, LAMBDA i : calls[i].reverted)
        act == calls[top[kept]].act
        idx == Position(entries, LAMBDA e : /\ e.next.type = "CALL"
                                            /\ e.next.dest = act.dest
                                            /\ e.next.src = act.src)
        new == InsertAt([entries EXCEPT ![idx].next = RevertAction(<<gone - 1>>)], idx + 1,
                        Entry(RevertContinue, Scoped(entries[idx].next, <<kept - 1>>), 0))
    IN  IF idx = 0 THEN entries
        ELSE IF Last(new).next.type = "RESULT"
             THEN [new EXCEPT ![Len(new)].next.data = Empty]
             ELSE new

\* Mutant: a call that calls back moves no ether.
L1CallEntryChildNoEther(calls, i) ==
    LET ch == Children(calls, i)
        c == calls[ch[1]]
    IN  IF ch = <<>> THEN Entry(calls[i].act, L2Result(calls[i]), calls[i].act.value)
        ELSE Entry(calls[i].act, Scoped(c.act, ScopeOr(c.scope, 0)), 0)

\* The first entry of an L1->L2 call, and one resolution per L2->L1 child.
\* Only the first child is the next action: the L1 side runs no other.
L1CallEntry(calls, i) ==
    LET ch == Children(calls, i)
        c == calls[ch[1]]
    IN  Entry(calls[i].act,
              IF ch = <<>> THEN L2Result(calls[i])
                           ELSE Scoped(c.act, ScopeOr(c.scope, 0)),
              calls[i].act.value)

L1Resolutions(calls, i) ==
    LET ch == Children(calls, i)
    IN  [k \in DOMAIN ch |->
            Entry(Result(calls[ch[k]].act.rollup, calls[ch[k]].delivery, calls[ch[k]].failed),
                  L2Result(calls[i]), 0)]

ContinuationL1Entries(calls) ==
    LET top == L1ToL2Calls(calls)
        n == Len(top)
    IN  IF IsReentrant(calls)
        THEN [k \in 1..n |-> L1CallEntry(calls, top[k])]
             \o FlattenSeq([k \in 1..n |-> L1Resolutions(calls, top[n + 1 - k])])
        ELSE FlattenSeq([k \in 1..n |->
                 <<L1CallEntry(calls, top[k])>> \o L1Resolutions(calls, top[k])])

\* build_continuation_entries: the tables of a transaction sent on L1.
BuildContinuationEntries(calls) ==
    LET plain == IF IsReentrant(calls) THEN ReentrantL2Entries(calls)
                                       ELSE ContinuationL2Entries(calls)
        l2 == IF HasPartialRevert(calls) THEN PartialRevertL2(plain, calls) ELSE plain
    IN  [l2 |-> ReorderForSwapAndPop(l2),
         l1 |-> ContinuationL1Entries(calls),
         independent |-> HasPartialRevert(calls)]

-----------------------------------------------------------------------------
(***************************************************************************)
(* Transactions sent on L2.  The detected L2->L1 calls are the roots, each *)
(* L1->L2 return call is a child of the root whose delivery makes it.      *)
(***************************************************************************)
AnalyzeL2ToL1Calls(l2calls, returns) ==
    [i \in DOMAIN l2calls |->
        LET c == l2calls[i]
        IN  [act |-> Call(Mainnet, c.dest, c.src, c.value, Root), parent |-> 0,
             delivery |-> c.ret, l2ret |-> Empty, failed |-> ~c.ok,
             scope |-> c.scope, reverted |-> c.reverted]]
    \o
    [i \in DOMAIN returns |->
        LET c == returns[i]
        IN  [act |-> Call(Our, c.dest, c.src, c.value, Root),
             parent |-> IF c.parent = 0 THEN Len(l2calls) ELSE c.parent,
             delivery |-> Empty, l2ret |-> c.ret, failed |-> ~c.ok,
             scope |-> c.scope, reverted |-> FALSE]]

\* CallOrientation: a return call keeps its addresses, an L2->L1 call swaps them.
IsReturn(c) == c.act.rollup = Our
ProxyDest(c) == IF IsReturn(c) THEN c.act.dest ELSE c.act.src
ProxySrc(c)  == IF IsReturn(c) THEN c.act.src ELSE c.act.dest

\* generate_l2_entries_recursive: entry i of the function is for call i and all below it.
L2EntriesOf(calls) ==
    LET back(c, k) == Call(Our, ProxyDest(c), ProxySrc(c), 0, ScopeOr(c.scope, k - 1))
        gen[i \in DOMAIN calls] ==
            LET ch == Children(calls, i)
                n == Len(ch)
            IN  IF ch = <<>> THEN <<Entry(calls[i].act, DeliveryResult(calls[i]), 0)>>
                ELSE <<Entry(calls[i].act, back(calls[ch[1]], 1), 0)>>
                     \o [k \in 1..(n - 1) |->
                           Entry(L2Result(calls[ch[k]]), back(calls[ch[k + 1]], k + 1), 0)]
                     \o <<Entry(L2Result(calls[ch[n]]), DeliveryResult(calls[i]), 0)>>
                     \o FlattenSeq([k \in 1..n |-> IF Children(calls, ch[k]) = <<>>
                                                   THEN <<>> ELSE gen[ch[k]]])
    IN  gen

\* push_reentrant_child_entries: the entries of everything below call i.
ReentrantChildEntries(calls) ==
    LET trigger(c) == Call(Our, ProxyDest(c), ProxySrc(c), c.act.value, Root)
        result(c) == IF IsReturn(c) THEN L2Result(c) ELSE DeliveryResult(c)
        execution(c) == Call(Mainnet, c.act.dest, c.act.src, c.act.value, ScopeOr(c.scope, 0))
        push[i \in DOMAIN calls] ==
            LET ch == Children(calls, i)
                one(c, j) == IF Children(calls, j) = <<>>
                             THEN <<Entry(trigger(c), result(c), 0)>>
                             ELSE <<Entry(trigger(c), execution(c), 0)>> \o push[j]
                                  \o <<Entry(result(c), ResultVoid(Our), 0)>>
            IN  FlattenSeq([k \in DOMAIN ch |-> one(calls[ch[k]], ch[k])])
    IN  push

L2ToL1Roots(calls) == Children(calls, 0)

AnyReverted(calls) ==
    LET roots == L2ToL1Roots(calls)
    IN  /\ \E k \in DOMAIN roots : calls[roots[k]].reverted
        /\ \E k \in DOMAIN roots : ~calls[roots[k]].reverted

L2TableEntries(calls) ==
    LET roots == SelectSeq(L2ToL1Roots(calls),
                           LAMBDA i : ~(AnyReverted(calls) /\ calls[i].reverted))
        gen == L2EntriesOf(calls)
    IN  FlattenSeq([k \in DOMAIN roots |-> gen[roots[k]]])

\* Sibling scopes route between simple calls; none are used when a call has children.
UseSiblingScopes(calls) ==
    LET roots == L2ToL1Roots(calls)
    IN  Len(roots) > 1 /\ \A k \in DOMAIN roots : Children(calls, roots[k]) = <<>>

SiblingScope(c, k) == IF c.scope = Root THEN <<k - 1>> ELSE Front(c.scope) \o <<k - 1>>

FirstDeliveryScope(calls) ==
    LET c == calls[L2ToL1Roots(calls)[1]]
        nested == \E k \in DOMAIN L2ToL1Roots(calls) :
                     Children(calls, L2ToL1Roots(calls)[k]) # <<>>
    IN  IF UseSiblingScopes(calls) THEN SiblingScope(c, 1)
        ELSE IF nested THEN Root ELSE c.scope

\* One chain from the L2TX trigger through every delivery to the void terminal.
L1DeliveryChain(calls, tx) ==
    LET roots == L2ToL1Roots(calls)
        n == Len(roots)
        delivery(k, scope) == Scoped(calls[roots[k]].act, scope)
        next(k) == IF k = n THEN ResultVoid(Our)
                   ELSE delivery(k + 1, IF UseSiblingScopes(calls) THEN <<k>> ELSE Root)
        below == ReentrantChildEntries(calls)
    IN  <<Entry(L2Tx(tx), delivery(1, FirstDeliveryScope(calls)), 0)>>
        \o FlattenSeq([k \in 1..n |->
              below[roots[k]]
              \o <<Entry(DeliveryResult(calls[roots[k]]), next(k), -calls[roots[k]].act.value)>>])

\* tx_outcome = Revert: the terminal becomes REVERT, REVERT_CONTINUE leads to the terminal.
RevertTerminal(entries) ==
    LET last == Last(entries).next
    IN  IF last.type = "RESULT" /\ last.rollup = Our
        THEN Append([entries EXCEPT ![Len(entries)].next = RevertAction(<<0>>)],
                    Entry(RevertContinue, last, 0))
        ELSE entries

PartialRevertL1(entries, calls) ==
    LET roots == L2ToL1Roots(calls)
        kept == Position(roots, LAMBDA i : ~calls[i].reverted)
        idx == Position(entries, LAMBDA e :
                  e.next.type = "CALL" /\ e.next.scope = SiblingScope(calls[roots[kept]], kept))
    IN  IF idx = 0 THEN entries
        ELSE InsertAt([entries EXCEPT ![idx].next = RevertAction(<<0>>)], idx + 1,
                      Entry(RevertContinue, entries[idx].next, 0))

\* build_l2_to_l1_continuation_entries: the tables of a transaction sent on L2.
BuildL2ToL1ContinuationEntries(calls, tx, txReverts) ==
    LET chain == L1DeliveryChain(calls, tx)
        ended == IF txReverts THEN RevertTerminal(chain) ELSE chain
        l1 == IF AnyReverted(calls) THEN PartialRevertL1(ended, calls) ELSE ended
    IN  [l2 |-> ReorderForSwapAndPop(L2TableEntries(calls)),
         l1 |-> ReorderForSwapAndPop(l1), independent |-> FALSE]

-----------------------------------------------------------------------------
(***************************************************************************)
(* The tables of a single call without children, from cross_chain.rs.      *)
(***************************************************************************)
BuildCrossChainCallEntries(c) ==
    LET call == Call(Our, c.dest, c.src, c.value, Root)
        result == Result(Our, c.ret, ~c.ok)
    IN  <<Entry(call, call, 0), Entry(result, result, 0)>>

\* build_execution_table queues the trigger of the first call and the continuation
\* entries; the RESULT entry made with the trigger is dropped.
BuildExecutionTable(found) ==
    LET tables == BuildContinuationEntries(AnalyzeContinuationCalls(found))
    IN  [tables EXCEPT !.l2 = <<BuildCrossChainCallEntries(found[1])[1]>> \o @]

\* build_l2_to_l1_execution_table
BuildL2ToL1ExecutionTable(l2calls, returns, tx, txReverts) ==
    BuildL2ToL1ContinuationEntries(AnalyzeL2ToL1Calls(l2calls, returns), tx, txReverts)

BuildL2ToL1CallEntries(c, tx, txReverts) ==
    LET result == Result(Mainnet, c.ret, ~c.ok)
        scope == IF txReverts THEN ScopeOr(c.scope, 0) ELSE c.scope
        start == Entry(L2Tx(tx), Call(Mainnet, c.dest, c.src, c.value, scope), 0)
        done(next) == Entry(result, next, -c.value)
    IN  [l2 |-> <<Entry(Call(Mainnet, c.dest, c.src, c.value, Root), result, 0),
                  Entry(result, result, 0)>>,
         l1 |-> IF txReverts
                THEN <<start, done(RevertAction(<<0>>)),
                       Entry(RevertContinue, ResultVoid(Our), 0)>>
                ELSE <<start, done(ResultVoid(Our))>>,
         independent |-> FALSE]

-----------------------------------------------------------------------------
(***************************************************************************)
(* The block: the L2 entries of all groups go into one table, the L1       *)
(* entries get the state roots they move between.                          *)
(***************************************************************************)
IsTrigger(e) == e.next.type = "CALL" /\ e.next.rollup = Our /\ e.hash = e.next

TableEntries(entries)   == SelectSeq(entries, LAMBDA e : ~IsTrigger(e))
TriggerEntries(entries) == SelectSeq(entries, IsTrigger)

\* Mutant: triggers start at the root scope also when the table reverts a scope.
TriggerActionsUnscoped(entries) ==
    LET triggers == TriggerEntries(entries) IN [k \in DOMAIN triggers |-> triggers[k].next]

\* build_builder_protocol_txs: a table that reverts a scope has its triggers start below it.
TriggerActions(entries) ==
    LET table == TableEntries(entries)
        lens == {Len(table[i].next.scope) : i \in {j \in DOMAIN table : table[j].next.type = "REVERT"}}
        longest == CHOOSE m \in lens : \A l \in lens : l <= m
        triggers == TriggerEntries(entries)
    IN  [k \in DOMAIN triggers |->
            IF lens = {} THEN triggers[k].next
            ELSE Scoped(triggers[k].next, [j \in 1..(longest + 1) |-> 0])]

\* The rollup's state root after the first k trigger transactions of the block, and the
\* synthetic roots in between.
BlockRoot(k) == <<k>>
SyntheticRoot(pre, post, j) == <<pre, post, j>>

\* Mutant: no second root for a block without triggers.
IntermediateRootsOnly(triggers) == [k \in 1..(triggers + 1) |-> BlockRoot(k - 1)]

\* compute_intermediate_roots: a transaction without ExecutionConsumed events, as one that
\* reverts, is no trigger and has no root of its own.
IntermediateRoots(triggers) ==
    IF triggers = 0 THEN <<BlockRoot(0), BlockRoot(0)>>
    ELSE [k \in 1..(triggers + 1) |-> BlockRoot(k - 1)]

\* Mutant: the last entry of a group ends in a synthetic root.
AttachDeltasShort(entries, roots, k) ==
    LET at(j) == IF j = 0 THEN roots[k] ELSE SyntheticRoot(roots[k], roots[k + 1], j)
    IN  IF k + 1 > Len(roots) THEN entries
        ELSE [i \in DOMAIN entries |-> [entries[i] EXCEPT !.cur = at(i - 1), !.new = at(i)]]

\* attach_generic_state_deltas on group k of the block.
AttachGenericStateDeltas(entries, roots, k) ==
    LET n == Len(entries)
        reverts == \E i \in 1..n : entries[i].next.type = "REVERT"
        at(j) == IF j = 0 THEN roots[k]
                 ELSE IF j = n \/ (reverts /\ j >= n - 1) THEN roots[k + 1]
                 ELSE SyntheticRoot(roots[k], roots[k + 1], j)
    IN  IF k + 1 > Len(roots) THEN entries
        ELSE [i \in 1..n |-> [entries[i] EXCEPT !.cur = at(i - 1), !.new = at(i)]]

\* finalize_block_entries: the entries of an independent group all start from its first root.
FinalizeGroup(entries, roots, k, independent) ==
    LET attached == AttachGenericStateDeltas(entries, roots, k)
    IN  IF independent /\ k <= Len(roots)
        THEN [i \in DOMAIN attached |-> [attached[i] EXCEPT !.cur = roots[k]]]
        ELSE attached

-----------------------------------------------------------------------------
(***************************************************************************)
(* Derivation: which posted entries took place, and where they lead.       *)
(* `spent` are the hashes of the ExecutionConsumed events on L1.           *)
(***************************************************************************)
CountOf(s, x) == Cardinality({i \in DOMAIN s : s[i] = x})

\* Mutant: a hash that was consumed once stands for all its entries.
ConsumedEntriesByHash(posted, spent) ==
    SelectSeq(posted, LAMBDA e : CountOf(spent, e.hash) > 0)

\* The k-th entry with a hash is deferred iff the hash was consumed k times or more.
ConsumedEntries(posted, spent) ==
    LET nth(i) == Cardinality({j \in 1..i : posted[j].hash = posted[i].hash})
        kept == SetToSortSeq({i \in DOMAIN posted : nth(i) <= CountOf(spent, posted[i].hash)}, <)
    IN  [k \in DOMAIN kept |-> posted[kept[k]]]

HasRevert(entries) ==
    \E i \in DOMAIN entries : entries[i].next.type \in {"REVERT", "REVERT_CONTINUE"}

\* effective_state_root: the batch's own root moved along the consumed entries; a batch
\* with a revert, in its entries or in the block's table, keeps its own root.
EffectiveStateRoot(posted, l2table, spent) ==
    IF HasRevert(posted) \/ HasRevert(l2table) THEN BlockRoot(0)
    ELSE FoldLeft(LAMBDA r, e : IF e.cur = r THEN e.new ELSE r,
                  BlockRoot(0), ConsumedEntries(posted, spent))

\* Mutant: one consumed action serves every entry with its hash, and only the first.
ConvertFirstOnly(entries, spent) ==
    FlattenSeq([i \in DOMAIN entries |->
        IF \E j \in 1..(i - 1) : entries[j].hash = entries[i].hash THEN <<entries[i]>>
        ELSE <<Entry(entries[i].hash, entries[i].hash, 0), Entry(entries[i].next, entries[i].next, 0)>>])

\* convert_l1_entries_to_l2_pairs: the L2 entries of the calls from L1 that took place.
ConvertL1EntriesToL2Pairs(entries, spent) ==
    LET continued == \E i \in DOMAIN entries : entries[i].next.type = "CALL"
        nth(i) == Cardinality({j \in 1..i : /\ entries[j].hash = entries[i].hash
                                            /\ entries[j].next.type = "RESULT"})
        pair(i) ==
            LET e == entries[i]
            IN  IF e.next.type # "RESULT" THEN <<>>
                ELSE IF nth(i) > CountOf(spent, e.hash) THEN <<e>>
                ELSE IF ~continued THEN <<Entry(e.hash, e.hash, e.ether), Entry(e.next, e.next, 0)>>
                ELSE IF e.hash.type = "CALL" THEN <<Entry(e.hash, e.hash, e.ether)>>
                ELSE <<>>
    IN  FlattenSeq([i \in DOMAIN entries |-> pair(i)])
=============================================================================
