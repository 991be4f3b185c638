------------------------------ MODULE TableReplay ------------------------------
(***************************************************************************)
(* What the execution tables are for.  User transactions whose cross-chain *)
(* calls form a tree are turned into one block: one L2 table, one list of  *)
(* L1 entries.  The block is then replayed on both chains the way the      *)
(* contracts do it: on L2 CrossChainManagerL2 takes the first entry with   *)
(* the hash it meets and closes the gap with the last one; on L1 Rollups   *)
(* takes an entry whose hash and currentState both match and moves the     *)
(* state root.  The contracts are not part of the repository; they are     *)
(* modelled from what its code, tests and documents say of them.           *)
(***************************************************************************)
EXTENDS ExecutionTables

CONSTANTS
    Targets,    \* contracts a call can be sent to
    Returns,    \* what a call can return, 0 is empty
    MaxTxs,     \* user transactions in the block
    MaxCalls    \* calls in all of them

ASSUME ReplayAssumption ==
    /\ Returns \subseteq Nat
    /\ MaxTxs \in Nat \ {0} /\ MaxCalls \in Nat \ {0}

VARIABLES
    txs,       \* the user transactions: <<[up, fails, calls]>>
    phase,     \* "write" the programs, replay on "L2", on "L1", "done"
    tables,    \* the tables of each transaction
    table,     \* the entries still on the chain being replayed
    root,      \* the rollup's state root on L1
    turn,      \* the transaction being replayed
    stack,     \* its frames, the innermost last
    ran,       \* the calls that ran on either chain, and whether they were undone
    got,       \* what each caller received: <<chain, tx, call, data>>
    spent,     \* hashes in the order of the ExecutionConsumed events on L1
    ether,     \* sum of the ether deltas applied on L1
    stuck      \* a lookup found no entry: the transaction reverts

vars == <<txs, phase, tables, table, root, turn, stack, ran, got, spent, ether, stuck>>

User == "user"                 \* the contract the user calls, on either chain

(***************************************************************************)
(* Programs.  Call i of a transaction is made by call `parent`, by the     *)
(* user's own contract if that is 0; it runs on the other chain.  `tried`  *)
(* marks a root inside a try block that reverts.                           *)
(***************************************************************************)
Kids(calls, i) == SetToSortSeq({j \in DOMAIN calls : calls[j].parent = i}, <)

Level(calls, i) == IF calls[i].parent = 0 THEN 1
                   ELSE IF calls[calls[i].parent].parent = 0 THEN 2 ELSE 3

\* The chain call i runs on.
ChainOf(tx, i) == IF (Level(tx.calls, i) % 2 = 1) = tx.up THEN "L1" ELSE "L2"

Caller(calls, i) == IF calls[i].parent = 0 THEN User ELSE calls[calls[i].parent].to

\* Calls that leave the user's own chain carry ether, calls back do not.
ValueOf(tx, i) == Level(tx.calls, i) % 2

(***************************************************************************)
(* What the composer hands to the builder for a program.                   *)
(***************************************************************************)
Found(tx, i) == [dest |-> tx.calls[i].to, src |-> Caller(tx.calls, i), value |-> ValueOf(tx, i),
                 ret |-> tx.calls[i].ret, ok |-> TRUE, scope |-> Root, parent |-> tx.calls[i].parent,
                 reverted |-> tx.calls[i].tried]

FoundOnL1(tx) == [i \in DOMAIN tx.calls |->
                    Found(tx, i) @@ [toL1 |-> Level(tx.calls, i) = 2, depth |-> Level(tx.calls, i)]]

\* The L2->L1 calls in the order of discovery: those of the transaction itself, then
\* those found when the return calls are simulated.
L2Calls(tx) == SetToSortSeq({i \in DOMAIN tx.calls : Level(tx.calls, i) = 1}, <)
               \o SetToSortSeq({i \in DOMAIN tx.calls : Level(tx.calls, i) = 3}, <)

FoundOnL2(tx) == [k \in DOMAIN L2Calls(tx) |-> Found(tx, L2Calls(tx)[k])]

FoundReturns(tx) ==
    LET back == SetToSortSeq({i \in DOMAIN tx.calls : Level(tx.calls, i) = 2}, <)
        at(i) == CHOOSE k \in DOMAIN L2Calls(tx) : L2Calls(tx)[k] = i
    IN  [k \in DOMAIN back |-> [Found(tx, back[k]) EXCEPT !.parent = at(tx.calls[back[k]].parent)]]

TablesOf(n) ==
    LET tx == txs[n]
    IN  IF ~tx.up THEN BuildExecutionTable(FoundOnL1(tx))
        ELSE IF Len(tx.calls) = 1
             THEN BuildL2ToL1CallEntries(Found(tx, 1), n, tx.fails)
             ELSE BuildL2ToL1ExecutionTable(FoundOnL2(tx), FoundReturns(tx), n, FALSE)

(***************************************************************************)
(* The programs the builder has a layout for: calls from L1 one after the  *)
(* other with at most one call back each, or each made from the call back  *)
(* of the one before; a try block only around the first of two plain calls *)
(* from L1; a transaction that reverts on L2 only with a single call.      *)
(***************************************************************************)
Shaped(tx) ==
    LET calls == tx.calls
        nested == \E i \in DOMAIN calls : Level(calls, i) = 3
        tried == \E i \in DOMAIN calls : calls[i].tried
    IN  /\ calls # <<>>
        /\ tx.fails => tx.up /\ Len(calls) = 1
        /\ tried => /\ ~tx.up /\ Len(calls) = 2
                    /\ \A i \in {1, 2} : calls[i].parent = 0 /\ calls[i].tried = (i = 1)
        /\ ~tx.up => /\ \A i \in DOMAIN calls : Len(Kids(calls, i)) <= 1
                     /\ nested => Len(Kids(calls, 0)) = 1

-----------------------------------------------------------------------------
TypeOK ==
    /\ phase \in {"write", "L2", "L1", "done"}
    /\ Len(txs) \in 0..MaxTxs
    /\ \A n \in DOMAIN txs : \A i \in DOMAIN txs[n].calls :
          txs[n].calls[i] \in [parent : 0..(i - 1), to : Targets, ret : Returns, tried : BOOLEAN]
    /\ turn \in 0..(MaxTxs + 1) /\ stuck \in BOOLEAN /\ ether \in Int
    /\ \A k \in DOMAIN stack : stack[k].kind \in {"run", "nav"}
    /\ \A k \in DOMAIN table : table[k].cur # NoRoot <=> phase \in {"L1", "done"}

Init ==
    /\ txs = <<>> /\ phase = "write" /\ tables = <<>> /\ table = <<>>
    /\ root = BlockRoot(0) /\ turn = 0 /\ stack = <<>> /\ ran = <<>> /\ got = {}
    /\ spent = <<>> /\ ether = 0 /\ stuck = FALSE

CallCount == FoldFunction(LAMBDA t, n : Len(t.calls) + n, 0, txs)

NewTx(up, fails) ==
    /\ phase = "write" /\ Len(txs) < MaxTxs /\ (fails => up)
    \* Calls from L1 are drained before calls from L2.
    /\ txs # <<>> => Shaped(Last(txs)) /\ (Last(txs).up => up)
    /\ txs' = Append(txs, [up |-> up, fails |-> fails, calls |-> <<>>])
    /\ UNCHANGED <<phase, tables, table, root, turn, stack, ran, got, spent, ether, stuck>>

\* The frames open after the last call: the user's contract, that call and its caller.
Open(calls) ==
    LET n == Len(calls)
    IN  IF n = 0 THEN {0}
        ELSE {0} \cup {i \in {n, calls[n].parent} \ {0} : Level(calls, i) < 3}

NewCall(to, ret, tried) ==
    /\ phase = "write" /\ txs # <<>> /\ CallCount < MaxCalls
    /\ tried => ~Last(txs).up /\ Last(txs).calls = <<>>
    /\ \E parent \in Open(Last(txs).calls) :
          txs' = [txs EXCEPT ![Len(txs)].calls =
                    Append(@, [parent |-> parent, to |-> to, ret |-> ret, tried |-> tried])]
    /\ UNCHANGED <<phase, tables, table, root, turn, stack, ran, got, spent, ether, stuck>>

AllL2Entries(built) == FlattenSeq([n \in DOMAIN built |-> built[n].l2])

\* A lookup by hash cannot go wrong: entries with one hash are interchangeable, or
\* they are the whole table of the only transaction, laid out in the order they are wanted.
NoCollision(entries) ==
    \/ \A i, j \in DOMAIN entries :
          entries[i].hash = entries[j].hash => entries[i].next = entries[j].next
    \/ Len(txs) = 1 /\ \A i, j \in DOMAIN entries : entries[i].hash = entries[j].hash

\* The blocks the layouts are made for: no collision in the L2 table; L1 entries left in
\* the order of their roots, or told apart by their hashes if all start from one root; a
\* transaction that reverts alone in its block.
Fits(built) ==
    /\ NoCollision(TableEntries(AllL2Entries(built)))
    /\ \A n \in DOMAIN built : \A i \in DOMAIN built[n].l1 :
          Len(GroupOf(built[n].l1, i)) <= IF built[n].independent THEN 1 ELSE 2
    /\ (\E n \in DOMAIN txs : txs[n].fails) => Len(txs) = 1

\* The block is built: drained groups become one table, the L1 entries get their roots.
Build ==
    /\ phase = "write" /\ txs # <<>> /\ Shaped(Last(txs))
    /\ LET built == [n \in DOMAIN txs |-> TablesOf(n)]
       IN  /\ Fits(built)
           /\ tables' = built
           /\ table' = TableEntries(AllL2Entries(built))
    /\ phase' = "L2" /\ turn' = 1
    /\ UNCHANGED <<txs, root, stack, ran, got, spent, ether, stuck>>

-----------------------------------------------------------------------------
(***************************************************************************)
(* The two managers.  A frame of the stack is a contract that runs call i  *)
(* and has had k of its own calls answered, or a manager that navigates:   *)
(* `act` is the action it is at, `scope` the scope of the last call it     *)
(* made, `for` the call whose caller waits for it.                         *)
(***************************************************************************)
World == [table |-> table, root |-> root, ran |-> ran, spent |-> spent, ether |-> ether]

Run(i) == [kind |-> "run", i |-> i, k |-> 0, start |-> World, mark |-> World]
Nav(act, world, for) == [kind |-> "nav", act |-> act, scope |-> Root, for |-> for, mark |-> world]

Top == Last(stack)

\* _consumeExecution on L2, _findAndApplyExecution on L1; 0 is ExecutionNotFound.
Lookup(world, hash) ==
    Position(world.table, LAMBDA e : e.hash = hash /\ (phase = "L1" => e.cur = world.root))

SwapAndPop(s, i) == Front([s EXCEPT ![i] = Last(s)])

Consumed(world, i) ==
    LET e == world.table[i]
    IN  IF phase = "L2" THEN [world EXCEPT !.table = SwapAndPop(@, i)]
        ELSE [world EXCEPT !.table = RemoveAt(@, i), !.root = e.new,
                           !.spent = Append(@, e.hash), !.ether = @ + e.ether]

Become(world) ==
    /\ table' = world.table /\ root' = world.root /\ ran' = world.ran
    /\ spent' = world.spent /\ ether' = world.ether

\* A revert takes the world back to a mark; the calls made since then are undone.
Undo(mark) ==
    [mark EXCEPT !.ran = [k \in DOMAIN ran |->
        IF k <= Len(mark.ran) THEN ran[k] ELSE [ran[k] EXCEPT !.kept = FALSE]]]

NotFound == /\ stuck' = TRUE
            /\ UNCHANGED <<txs, phase, tables, table, root, turn, stack, ran, got, spent, ether>>

\* Look the action up; go on with the frames Then makes of the entry and the world after it.
Follow(hash, Then(_, _)) ==
    LET i == Lookup(World, hash)
    IN  IF i = 0 THEN NotFound
        ELSE /\ Become(Consumed(World, i))
             /\ stack' = Then(table[i].next, Consumed(World, i))
             /\ UNCHANGED <<txs, phase, tables, turn, got, stuck>>

Replaying == phase \in {"L2", "L1"} /\ ~stuck
Between == Replaying /\ stack = <<>> /\ turn <= Len(txs)

\* The user's transaction runs on the chain it was sent on.
UserTx ==
    /\ Between /\ txs[turn].up = (phase = "L2")
    /\ stack' = <<Run(0)>>
    /\ UNCHANGED <<txs, phase, tables, table, root, turn, ran, got, spent, ether, stuck>>

\* On L2 the builder's protocol transaction triggers a call that came from L1.
ExecuteIncomingCrossChainCall ==
    /\ Between /\ phase = "L2" /\ ~txs[turn].up
    /\ stack' = <<Nav(TriggerActions(AllL2Entries(tables))[turn], World, 0)>>
    /\ UNCHANGED <<txs, phase, tables, table, root, turn, ran, got, spent, ether, stuck>>

\* On L1 the builder triggers the deliveries of a transaction sent on L2.
ExecuteL2TX ==
    /\ Between /\ phase = "L1" /\ txs[turn].up
    /\ Follow(L2Tx(turn), LAMBDA next, world : <<Nav(next, world, 0)>>)

\* A running contract calls a proxy of the other chain.
ExecuteCrossChainCall ==
    /\ Replaying /\ stack # <<>> /\ Top.kind = "run"
    /\ LET tx == txs[turn]
           kids == Kids(tx.calls, Top.i)
           j == kids[Top.k + 1]
       IN  /\ Top.k < Len(kids)
           /\ Follow(Call(IF phase = "L1" THEN Our ELSE Mainnet, tx.calls[j].to,
                          Caller(tx.calls, j), ValueOf(tx, j), Root),
                     LAMBDA next, world : Append([stack EXCEPT ![Len(stack)].mark = World],
                                                 Nav(next, world, j)))

\* The calls of the program that an action can mean: same target and caller, not run yet.
Meant(act) == {i \in DOMAIN txs[turn].calls :
                 /\ ChainOf(txs[turn], i) = phase
                 /\ txs[turn].calls[i].to = act.dest /\ Caller(txs[turn].calls, i) = act.src
                 /\ ~\E r \in DOMAIN ran : ran[r].tx = turn /\ ran[r].call = i}

\* The manager runs the call it is at, at the scope the action names.
ProcessCallAtScope ==
    /\ Replaying /\ stack # <<>> /\ Top.kind = "nav" /\ Top.act.type = "CALL"
    /\ LET scope == Top.act.scope
           fresh == scope # Root /\ (Top.scope = Root \/ Head(scope) # Head(Top.scope))
           nav == [Top EXCEPT !.scope = scope, !.mark = IF fresh THEN World ELSE @]
           i == Min(Meant(Top.act))
       IN  IF Meant(Top.act) = {} THEN NotFound
           ELSE /\ ran' = Append(ran, [chain |-> phase, tx |-> turn, call |-> i, kept |-> TRUE])
                /\ stack' = Front(stack) \o <<nav, Run(i)>>
                /\ UNCHANGED <<txs, phase, tables, table, root, turn, got, spent, ether, stuck>>

\* The call has run: its RESULT is looked up.
CallReturns ==
    /\ Replaying /\ stack # <<>> /\ Top.kind = "run" /\ Top.i # 0
    /\ Top.k = Len(Kids(txs[turn].calls, Top.i))
    /\ LET nav == stack[Len(stack) - 1]
       IN  Follow(Result(nav.act.rollup, txs[turn].calls[Top.i].ret, FALSE),
                  LAMBDA next, world : Append(SubSeq(stack, 1, Len(stack) - 2),
                                              [nav EXCEPT !.act = next]))

\* REVERT: the continuation is looked up, the scope is undone, the root of that moment stays.
HandleScopeRevert ==
    /\ Replaying /\ stack # <<>> /\ Top.kind = "nav" /\ Top.act.type = "REVERT"
    /\ LET i == Lookup(World, RevertContinue)
       IN  IF i = 0 \/ Top.scope = Root \/ Head(Top.scope) # Head(Top.act.scope) THEN NotFound
           ELSE /\ Become([Undo(Top.mark) EXCEPT !.root = root])
                /\ stack' = [stack EXCEPT ![Len(stack)].act = table[i].next,
                                          ![Len(stack)].scope = Root]
                /\ UNCHANGED <<txs, phase, tables, turn, got, stuck>>

\* A RESULT ends the navigation: its data goes to the caller.  A try block that
\* reverts undoes what the call did on the caller's chain.
ResolveScopes ==
    /\ Replaying /\ stack # <<>> /\ Top.kind = "nav" /\ Top.act.type = "RESULT"
    /\ IF Top.for = 0
       THEN /\ stack' = <<>> /\ turn' = turn + 1
            /\ UNCHANGED <<txs, phase, tables, table, root, ran, got, spent, ether, stuck>>
       ELSE LET caller == stack[Len(stack) - 1]
            IN  /\ got' = got \cup {<<phase, turn, Top.for, Top.act.data>>}
                /\ stack' = Append(SubSeq(stack, 1, Len(stack) - 2), [caller EXCEPT !.k = @ + 1])
                /\ Become(IF txs[turn].calls[Top.for].tried THEN Undo(caller.mark) ELSE World)
                /\ UNCHANGED <<txs, phase, tables, turn, stuck>>

\* The user's contract ends; a transaction that fails takes everything back.
UserTxEnds ==
    /\ Replaying /\ stack # <<>> /\ Top.kind = "run" /\ Top.i = 0
    /\ Top.k = Len(Kids(txs[turn].calls, 0))
    /\ Become(IF txs[turn].fails THEN Undo(Top.start) ELSE World)
    /\ stack' = <<>> /\ turn' = turn + 1
    /\ UNCHANGED <<txs, phase, tables, got, stuck>>

Triggers(n) == Cardinality({m \in 1..n : ~txs[m].fails})

Posted ==
    FlattenSeq([n \in DOMAIN txs |->
        FinalizeGroup(tables[n].l1, IntermediateRoots(Triggers(Len(txs))), n, tables[n].independent)])

\* The batch is posted with every group's entries, in order.
PostBatch ==
    /\ phase = "L2" /\ ~stuck /\ stack = <<>> /\ turn > Len(txs)
    /\ phase' = "L1" /\ turn' = 1 /\ table' = Posted
    /\ UNCHANGED <<txs, tables, root, stack, ran, got, spent, ether, stuck>>

\* The remaining transactions do not land on L1, or there are none.
Settle ==
    /\ phase = "L1" /\ ~stuck /\ stack = <<>>
    /\ phase' = "done"
    /\ UNCHANGED <<txs, tables, table, root, turn, stack, ran, got, spent, ether, stuck>>

\* Nothing more happens: the block is settled, or no block was made of the programs.
Rest == (phase \in {"write", "done"} \/ stuck) /\ UNCHANGED vars

Next ==
    \/ \E up, fails \in BOOLEAN : NewTx(up, fails)
    \/ \E to \in Targets, ret \in Returns, tried \in BOOLEAN : NewCall(to, ret, tried)
    \/ Build
    \/ UserTx \/ ExecuteIncomingCrossChainCall \/ ExecuteL2TX
    \/ ExecuteCrossChainCall \/ ProcessCallAtScope \/ CallReturns
    \/ HandleScopeRevert \/ ResolveScopes \/ UserTxEnds
    \/ PostBatch \/ Settle \/ Rest

Spec == Init /\ [][Next]_vars

-----------------------------------------------------------------------------
(***************************************************************************)
(* What the tables promise.                                                *)
(***************************************************************************)

\* Every action a manager meets has an entry, on both chains, whatever the order in which
\* the entries before it were consumed: no transaction ends in ExecutionNotFound.
NeverStuck == ~stuck

\* The transactions that are over on a chain.
Landed(chain) ==
    {n \in DOMAIN txs : \/ phase = chain /\ n < turn
                        \/ phase = "L1" /\ chain = "L2"
                        \/ phase = "done" /\ (chain = "L2" \/ n < turn)}

(***************************************************************************)
(* The replay implements synchronous calls: what is visible after each     *)
(* transaction is what one step of that specification makes visible.       *)
(***************************************************************************)
Wanted(tx, c) ==
    [takeEffect |-> {i \in DOMAIN tx.calls : ChainOf(tx, i) = c /\ ~tx.fails /\ ~tx.calls[i].tried},
     answers |-> {<<i, tx.calls[i].ret>> : i \in {j \in DOMAIN tx.calls : ChainOf(tx, j) # c}}]

Effects == {<<r.chain, r.tx, r.call>> : r \in {q \in ToSet(ran) : q.kept /\ q.tx \in Landed(q.chain)}}

Chain == {"L2", "L1"}

Sync == INSTANCE SynchronousCalls WITH
    plan    <- [n \in DOMAIN txs |-> [c \in Chain |-> Wanted(txs[n], c)]],
    landed  <- [c \in Chain |-> Cardinality(Landed(c))],
    effects <- Effects,
    answers <- {g \in got : g[2] \in Landed(g[1])}

\* Each call of a transaction takes effect exactly once, on its own chain and with its own
\* transaction, what is reverted leaves nothing behind, and each caller gets the data its
\* call returns, though the answer was written into the table before the call ran.
ImplementsSynchronousCalls == Sync!Spec

\* After each transaction the root on L1 is the block's root after as many triggers: the
\* chain of deltas ends where the next group's begins.
RootReached == phase = "L1" /\ stack = <<>> /\ ~stuck => root = BlockRoot(Triggers(turn - 1))

Flow(n) ==
    LET tx == txs[n]
        total == Cardinality({i \in DOMAIN tx.calls : ValueOf(tx, i) = 1 /\ ~tx.calls[i].tried})
    IN  IF tx.fails THEN 0 ELSE IF tx.up THEN -total ELSE total

\* The ether the rollup holds on L1 is what came from L1 less what went back.
EtherBalanced ==
    phase \in {"L1", "done"} /\ stack = <<>> /\ ~stuck =>
        ether = MapThenSumSet(Flow, Landed("L1"))

BlockTable == TableEntries(AllL2Entries(tables))

\* A node that only sees the batch and the events finds the root L1 is at, also when the
\* last transactions did not land or entries of several transactions share a hash.
DerivedRoot ==
    phase = "done" /\ ~HasRevert(BlockTable) => EffectiveStateRoot(Posted, BlockTable, spent) = root

Pairs(entries) == [k \in DOMAIN entries |-> <<entries[k].hash, entries[k].next>>]

\* From the L1 entries of plain calls and the events a node reconstructs the L2 entries the
\* builder made for the calls that landed.
PairsReconstructed ==
    phase = "done" /\ (\A n \in DOMAIN txs : ~txs[n].up /\ Len(txs[n].calls) = 1) =>
        Pairs(ConvertL1EntriesToL2Pairs(ConsumedEntries(Posted, spent), spent))
            = Pairs(AllL2Entries(SubSeq(tables, 1, turn - 1)))
=============================================================================
