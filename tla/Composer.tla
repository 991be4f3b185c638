------------------------------- MODULE Composer -------------------------------
(***************************************************************************)
(* The composer RPC: a proxy in front of each chain's node that receives a *)
(* user's transaction, finds out by simulation which cross-chain calls it  *)
(* will make, what each returns and which calls these make in turn, queues *)
(* all of that at the builder and holds the transaction back; if it finds  *)
(* nothing, or the builder refuses, the transaction goes to the node as it *)
(* is.  A simulation answers from what is known so far: a call that is not *)
(* in the table fails and hides what comes after it, so the transaction is *)
(* traced again with what was found until nothing new appears.             *)
(*                                                                         *)
(* Nodes and contracts are not in the repository.  A contract is what it   *)
(* does to the composer: the one call it makes back to the other chain     *)
(* (Reply), whether it returns data (Void), and a counter: its k-th        *)
(* execution in a transaction returns k.                                   *)
(***************************************************************************)
EXTENDS Integers, SequencesExt, Positions

CONSTANTS
    Entry,       \* contracts of the other chain a transaction calls
    Targets,     \* these and the ones called in turn
    None,        \* no call
    Reply,       \* the call a contract makes to the other chain, or None
    Void,        \* contracts that return no data
    Alone,       \* those of Entry called by no transaction that makes other calls
    MaxSteps,    \* calls a transaction makes itself
    MAX_DISCOVERY_ITERATIONS,   \* retraces, of each of the two loops
    MAX_RECURSIVE_DEPTH,        \* rounds of deliveries and nested calls, from L2
    MaxFaults    \* requests to a node that fail

ASSUME ComposerAssumption ==
    /\ Entry \subseteq Targets /\ Alone \subseteq Entry /\ Void \subseteq Targets /\ None \notin Targets
    /\ Reply \in [Targets -> Targets \cup {None}]
    /\ MaxSteps \in Nat /\ MaxFaults \in Nat
    /\ MAX_DISCOVERY_ITERATIONS \in Nat \ {0} /\ MAX_RECURSIVE_DEPTH \in Nat \ {0}

VARIABLES
    tx,       \* the transaction: sent on L2 (up) or L1, `fails` of its own, its steps
    phase,    \* what the handler does next
    calls,    \* detected_calls: [to, ret, rev, parent], parent 0 is the transaction
    returns,  \* return calls of a transaction from L2, parent an index of calls
    err,      \* top_level_error of the first trace
    reverts,  \* the last trace of the transaction ended in an error
    walk,     \* the calls the last trace saw
    at,       \* rounds of the current loop
    offset,   \* calls before the ones the current round found
    fresh,    \* return calls the current round found
    node,     \* requests the builder accepted: [calls, returns, raw, reverts, call, answered]
    answer,   \* "none", "held" or "forwarded"
    faults

vars == <<tx, phase, calls, returns, err, reverts, walk, at, offset, fresh, node, answer, faults>>
found == <<calls, returns, err, reverts, walk, at, offset, fresh>>

(***************************************************************************)
(* Transactions.  A step calls `to`; it is "plain", in a try block that    *)
(* catches its failure ("caught"), or in one that always reverts           *)
(* ("undone"); `reads` says that the caller decodes the answer.            *)
(***************************************************************************)
Steps == {st \in [to : Entry, mode : {"plain", "caught", "undone"}, reads : BOOLEAN] :
            st.reads => st.to \notin Void /\ st.mode # "undone"}

\* A contract, the one it calls, the one that calls, and so on.
Chains ==
    [t \in Targets |->
        LET next[k \in Nat] ==
                IF k = 1 THEN t ELSE IF next[k - 1] = None THEN None ELSE Reply[next[k - 1]]
        IN  SelectSeq([k \in 1..Cardinality(Targets) |-> next[k]], LAMBDA x : x # None)]

Chain(t) == Chains[t]

Nested(t) == Reply[t] # None

\* What the k-th execution of a contract returns.
Data(x, k) == IF x \in Void THEN 0 ELSE k

(***************************************************************************)
(* The transaction on its own chain, with answers for the calls `known`.   *)
(* A revert gives the entry back, so a step gets the answer after those    *)
(* the steps before it have kept.  -1 is ExecutionNotFound.                *)
(***************************************************************************)
Enough(st, data) == data >= IF st.reads THEN 1 ELSE 0

Answers(steps, known) ==
    LET got[s \in DOMAIN steps] ==
            LET kept == {r \in 1..(s - 1) : /\ steps[r].to = steps[s].to /\ steps[r].mode # "undone"
                                            /\ Enough(steps[r], got[r])}
                mine == Retain(known, {k \in DOMAIN known : known[k].parent = 0 /\ known[k].to = steps[s].to})
            IN  IF Cardinality(kept) < Len(mine) THEN mine[Cardinality(kept) + 1].ret ELSE -1
    IN  got

Stops(steps, got) == {s \in DOMAIN steps : steps[s].mode = "plain" /\ ~Enough(steps[s], got[s])}

TopLevelError(t, known) == t.fails \/ Stops(t.steps, Answers(t.steps, known)) # {}

\* recurse_children: a call is in a reverted frame if it failed or a frame around it did, the
\* transaction's own frame not counted.
InRevertedFrame(st, data) ==
    \/ st.mode = "undone" \/ data = -1
    \/ st.mode = "caught" /\ ~Enough(st, data)

\* walk_trace_tree: the calls made, in order.
WalkTrace(t, known) ==
    LET got == Answers(t.steps, known)
        last == Min(Stops(t.steps, got) \cup {Len(t.steps)})
    IN  [s \in 1..last |-> [to |-> t.steps[s].to, ret |-> 0, parent |-> 0,
                            rev |-> InRevertedFrame(t.steps[s], got[s])]]

-----------------------------------------------------------------------------
(***************************************************************************)
(* What the composer computes from traces.                                 *)
(***************************************************************************)
Roots(cs) == Retain(cs, {k \in DOMAIN cs : cs[k].parent = 0})

CountOf(s, to) == Cardinality({k \in DOMAIN s : s[k].to = to})

\* Mutant: a call that is known as often as it was seen counts as new.
FilterNewAlways(seen, known) ==
    Retain(seen, {k \in DOMAIN seen :
                    CountOf(SubSeq(seen, 1, k), seen[k].to) >= CountOf(known, seen[k].to)})

\* dedup_discovered_calls, filter_new_by_count: of each call as many as are not known yet.
FilterNewByCount(seen, known) ==
    Retain(seen, {k \in DOMAIN seen :
                    CountOf(SubSeq(seen, 1, k), seen[k].to) > CountOf(known, seen[k].to)})

\* The k-th call to a target takes the flag of the k-th one the last trace saw.
WithFlags(cs, seen) ==
    [k \in DOMAIN cs |->
        LET same == Retain(seen, {j \in DOMAIN seen : seen[j].to = cs[k].to})
            n == CountOf(SubSeq(cs, 1, k), cs[k].to)
        IN  IF n <= Len(same) THEN [cs[k] EXCEPT !.rev = same[n].rev] ELSE cs[k]]

CorrectInRevertedFrame(cs, seen) == IF Len(cs) = Len(seen) THEN WithFlags(cs, seen) ELSE cs

PartialRevert(cs) == (\E k \in DOMAIN cs : cs[k].rev) /\ (\E k \in DOMAIN cs : ~cs[k].rev)

HasDuplicateCalls(cs) == \E j, k \in DOMAIN cs : j # k /\ cs[j].to = cs[k].to

\* How many executions of x the calls `before` cause in a simulated bundle.
Executions(x, before) == Cardinality({k \in DOMAIN before : x \in ToSet(Chain(before[k].to))})

-----------------------------------------------------------------------------
(***************************************************************************)
(* The transactions this discovery is made for.                            *)
(***************************************************************************)
Fits(t) ==
    LET In(s) == t.steps[s]
        dom == DOMAIN t.steps
        some(mode) == \E s \in dom : In(s).mode = mode
        nested == {s \in dom : Nested(In(s).to)}
        once(s) == \A r \in dom : In(r).to = In(s).to => r = s
    IN  \* Flags are corrected only if the first trace reverts.
        /\ some("undone") => some("plain")
        /\ t.up =>
            \* Return calls are told apart only if one contract makes them all.
            /\ nested # {} => \/ Len(t.steps) = 1
                              \/ /\ \A s \in dom : In(s).to = In(1).to
                                 /\ In(1).to \in Void /\ Len(Chain(In(1).to)) = 2
            \* Around a partial revert calls are simulated one by one.
            /\ some("undone") => \A s \in dom : In(s).mode = "undone" \/ once(s)
        /\ ~t.up =>
            \* Calls back are simulated in one bundle, those of undone calls too.
            /\ \A s \in nested : In(s).mode # "undone" /\ Len(Chain(In(s).to)) = 2
            \* An answer that depends on a call back is known only after the last trace,
            \* and only if there was a second one.
            /\ \A s \in nested : In(s).to \notin Void =>
                  /\ once(s) /\ some("plain") /\ (In(s).reads => s = Len(t.steps) /\ In(s).mode = "plain")
            \* The first loop knows no answers: what is decoded there counts as reverted.
            /\ \A s \in dom : In(s).mode = "caught" /\ In(s).reads => once(s)
            \* The second loop forgets which of its new calls made a call back, and which
            \* of the earlier ones were undone.
            /\ \A r, s \in dom : r < s /\ In(r).reads =>
                  /\ s \in nested => In(s - 1).mode = "plain"
                  /\ ~some("undone")

Txs == {t \in [up : BOOLEAN, fails : BOOLEAN, steps : BoundedSeq(Steps, MaxSteps)] :
          /\ t.fails => t.up
          /\ Len(t.steps) > 1 => \A s \in DOMAIN t.steps : t.steps[s].to \notin Alone}

TypeOK ==
    /\ phase \in {"idle", "trace", "discover", "enrich", "children", "retrace", "bottomUp", "queue",
                  "postDiscovery", "route", "deliver", "nested", "multi", "fallback", "independent", "done"}
    /\ \A k \in DOMAIN calls : /\ calls[k].to \in Targets /\ calls[k].rev \in BOOLEAN
                               /\ calls[k].ret \in Nat /\ calls[k].parent \in 0..Len(calls)
    /\ \A k \in DOMAIN returns : returns[k].to \in Targets /\ returns[k].parent \in 0..Len(calls)
    /\ err \in BOOLEAN /\ reverts \in BOOLEAN /\ offset \in 0..Len(calls)
    /\ answer \in {"none", "held", "forwarded"} /\ faults \in 0..MaxFaults
    /\ (answer = "none") <=> (phase # "done")

Init ==
    /\ tx = [up |-> FALSE, fails |-> FALSE, steps |-> <<>>] /\ phase = "idle"
    /\ calls = <<>> /\ returns = <<>> /\ err = FALSE /\ reverts = FALSE /\ walk = <<>>
    /\ at = 0 /\ offset = 0 /\ fresh = <<>> /\ node = <<>> /\ answer = "none" /\ faults = 0

\* A request to a node: it is answered, or one of the failures happens.
Request(ok) == IF ok THEN faults' = faults ELSE faults < MaxFaults /\ faults' = faults + 1

End(how) == phase' = "done" /\ answer' = how
GoOn(p) == phase' = p /\ UNCHANGED answer

\* eth_sendRawTransaction at one of the two proxies.
Receive(t) ==
    /\ tx' = t /\ GoOn("trace")
    /\ UNCHANGED <<found, node, faults>>

HandleRequest(t) == ~t.up /\ Receive(t)
HandleL2Request(t) == t.up /\ Receive(t)

\* The first trace, without a table: every call fails.  Without calls, or without a trace,
\* the transaction goes to the node.
FirstTrace(ok, next) ==
    /\ phase = "trace" /\ Request(ok)
    /\ IF ok /\ tx.steps # <<>>
       THEN /\ calls' = WalkTrace(tx, <<>>)
            /\ err' = TopLevelError(tx, <<>>) /\ reverts' = err'
            /\ GoOn(IF err' THEN "discover" ELSE next)
       ELSE End("forwarded") /\ UNCHANGED <<calls, err, reverts>>
    /\ UNCHANGED <<tx, returns, walk, at, offset, fresh, node>>

TraceAndDetectInternalCalls(ok) == ~tx.up /\ FirstTrace(ok, "enrich")
TraceAndDetectL2InternalCalls(ok) == tx.up /\ FirstTrace(ok, "postDiscovery")

(***************************************************************************)
(* discover_until_stable.  From L2 each new call is first delivered to L1  *)
(* in a simulation of its own; from L1 all answers are empty.              *)
(***************************************************************************)
\* simulate_l1_delivery: the call alone on L1, repeated until its calls back are known.
DeliveredAlone(c) == [c EXCEPT !.ret = Data(c.to, 1)]

\* extract_l1_to_l2_return_calls: what call k is seen to call back.
ReturnCall(to, k) == [to |-> Reply[to], ret |-> 0, parent |-> k]

\* A call back is traced on L2 by itself; if it fails at a call of its own, once more with an
\* empty answer for that.
EnrichedAlone(r) == [r EXCEPT !.ret = Data(r.to, 1)]

\* try_chained_l2_enrichment: they are traced one after the other in one bundle.
EnrichedChained(rs) ==
    [k \in DOMAIN rs |-> [rs[k] EXCEPT !.ret = Data(rs[k].to, CountOf(SubSeq(rs, 1, k), rs[k].to))]]

\* enrich_return_calls_via_l2_trace
EnrichReturnCalls(rs) ==
    IF Len(rs) >= 2 THEN EnrichedChained(rs) ELSE [k \in DOMAIN rs |-> EnrichedAlone(rs[k])]

EnrichBeforeRetrace(cs) == [k \in DOMAIN cs |-> IF cs[k].ret = 0 THEN DeliveredAlone(cs[k]) ELSE cs[k]]

EarlyReturns(cs) ==
    LET asked == Retain(cs, {k \in DOMAIN cs : cs[k].ret = 0 /\ Nested(cs[k].to)})
    IN  [k \in DOMAIN asked |-> EnrichedAlone(ReturnCall(asked[k].to, 0))]

DiscoverRound(enriched, ok) ==
    /\ phase = "discover" /\ (ok \/ enriched) /\ Request(ok /\ enriched)
    /\ (~tx.up => enriched)
    /\ LET simulated == tx.up /\ enriched
           known == IF simulated THEN EnrichBeforeRetrace(calls) ELSE calls
           seen == IF ok THEN WalkTrace(tx, known) ELSE walk
           new == IF ok THEN FilterNewByCount(seen, known) ELSE <<>>
           over == new = <<>> \/ at + 1 = MAX_DISCOVERY_ITERATIONS
       IN  /\ returns' = IF simulated THEN returns \o EarlyReturns(calls) ELSE returns
           /\ reverts' = IF ok THEN TopLevelError(tx, known) ELSE reverts
           /\ IF over THEN /\ calls' = CorrectInRevertedFrame(known \o new, seen)
                           /\ walk' = <<>> /\ at' = 0
                           /\ GoOn(IF tx.up THEN "postDiscovery" ELSE "enrich")
              ELSE /\ calls' = known \o new /\ walk' = seen /\ at' = at + 1
                   /\ GoOn("discover")
    /\ UNCHANGED <<tx, err, offset, fresh, node>>

-----------------------------------------------------------------------------
(***************************************************************************)
(* A transaction from L1.  The first call is simulated on L2 alone, each   *)
(* later one in a bundle after the calls before it that stay.              *)
(***************************************************************************)
\* The call fails where it calls back; it is tried again with an empty answer for that.
RetriedWithChild(to) == IF Reply[to] \in Void THEN Data(to, 1) ELSE 0

SimulateOnL2(to) == IF Nested(to) THEN RetriedWithChild(to) ELSE Data(to, 1)

\* In a bundle a call that calls back fails, and so has no effect and no answer.
SimulateChainedOnL2(to, priors) == IF Nested(to) THEN 0 ELSE Data(to, 1 + CountOf(priors, to))

SimulatedOnL2(to, priors) == IF priors = <<>> THEN SimulateOnL2(to) ELSE SimulateChainedOnL2(to, priors)

\* Mutant: an undone call stays in the bundle.
PriorsAll(k) == SubSeq(calls, 1, k - 1)

Priors(k) == Retain(calls, {j \in 1..(k - 1) : ~(PartialRevert(calls) /\ calls[j].rev)})

ChildOf(k, to) == [to |-> Reply[to], ret |-> 0, rev |-> FALSE, parent |-> k]

\* One of the simulations may fail, call `bad` then has no answer and no child.
EnrichCalls(bad) ==
    /\ phase = "enrich" /\ Request(bad = 0)
    /\ LET parents == InOrder({k \in DOMAIN calls : k # bad /\ Nested(calls[k].to)})
       IN  /\ calls' = [k \in DOMAIN calls |->
                [calls[k] EXCEPT !.ret = IF k = bad THEN 0 ELSE SimulatedOnL2(calls[k].to, Priors(k))]]
           /\ fresh' = [i \in DOMAIN parents |-> ChildOf(parents[i], calls[parents[i]].to)]
           /\ GoOn(IF parents # <<>> THEN "children" ELSE IF err THEN "retrace" ELSE "queue")
    /\ UNCHANGED <<tx, returns, err, reverts, walk, at, offset, node>>

\* The calls back run in one bundle on L1 after `before`.
Delivered(children, before) ==
    [i \in DOMAIN children |->
        [children[i] EXCEPT !.ret =
            Data(children[i].to, CountOf(before \o SubSeq(children, 1, i), children[i].to))]]

EnrichChildren(ok) ==
    /\ phase = "children" /\ Request(ok)
    /\ calls' = calls \o IF ok THEN Delivered(fresh, <<>>) ELSE fresh
    /\ fresh' = <<>>
    /\ GoOn(IF err THEN "retrace" ELSE "queue")
    /\ UNCHANGED <<tx, returns, err, reverts, walk, at, offset, node>>

\* build_and_run_l1_postbatch_trace: the transaction behind a batch with the known calls.
PostBatchTrace == WalkTrace(tx, calls)

\* The new calls of a round run on L2 after all others.
AnswerNew(new) ==
    [k \in DOMAIN new |->
        [new[k] EXCEPT !.ret = SimulatedOnL2(new[k].to, Roots(calls) \o SubSeq(new, 1, k - 1))]]

\* All children of one round are given to the first of its new calls.
ChildrenOfNew(new) ==
    LET parents == Retain(new, {k \in DOMAIN new : Nested(new[k].to)})
    IN  [i \in DOMAIN parents |-> ChildOf(Len(calls) + 1, parents[i].to)]

\* The second loop, with the answers of L2.
RetraceRound(enriched, ok) ==
    /\ phase = "retrace" /\ (ok \/ enriched) /\ Request(ok /\ enriched)
    /\ LET seen == IF ok THEN PostBatchTrace ELSE walk
           new == IF ok THEN FilterNewByCount(seen, calls) ELSE <<>>
           before == Retain(calls, {k \in DOMAIN calls : calls[k].parent # 0})
           over == new = <<>> \/ at + 1 = MAX_DISCOVERY_ITERATIONS
       IN  /\ (new = <<>> => enriched)
           /\ calls' = calls \o IF enriched THEN AnswerNew(new) \o Delivered(ChildrenOfNew(new), before)
                                ELSE new
           /\ walk' = seen
           /\ at' = IF over THEN 0 ELSE at + 1
           /\ GoOn(IF over THEN "bottomUp" ELSE "retrace")
    /\ UNCHANGED <<tx, returns, err, reverts, offset, fresh, node>>

\* Calls that call back and have no answer yet.
NeedsEnrichment == {k \in DOMAIN calls : /\ calls[k].parent = 0 /\ calls[k].ret = 0
                                         /\ \E j \in DOMAIN calls : calls[j].parent = k}

\* A call back without an answer takes the one the last trace shows for its target.
PreEnrich(cs) ==
    [k \in DOMAIN cs |-> IF walk # <<>> /\ cs[k].parent # 0 /\ cs[k].ret = 0
                         THEN [cs[k] EXCEPT !.ret = Data(cs[k].to, 1)] ELSE cs[k]]

\* The calls are simulated again on L2, now with the whole table loaded.
SimulateWithTable(cs) ==
    [k \in DOMAIN cs |-> IF k \in NeedsEnrichment THEN [cs[k] EXCEPT !.ret = Data(cs[k].to, 1)] ELSE cs[k]]

BottomUp(ok) ==
    /\ phase = "bottomUp"
    /\ (NeedsEnrichment = {} => ok) /\ Request(ok)
    /\ calls' = IF NeedsEnrichment = {} THEN calls
                ELSE IF ok THEN SimulateWithTable(PreEnrich(calls)) ELSE PreEnrich(calls)
    /\ GoOn("queue")
    /\ UNCHANGED <<tx, returns, err, reverts, walk, at, offset, fresh, node>>

\* A request that queues something is refused, or accepted, and then its answer may be lost
\* (the client's time-out, a body that does not parse), which the handler takes for a refusal.
Outcomes == {"accepted", "refused", "lost"}

\* The builder is asked to queue the calls cs, the first of them call `first` of the
\* transaction, with the transaction itself or without.
Enqueue(out, cs, first, rs, raw, rev) ==
    /\ Request(out = "accepted")
    /\ node' = IF out = "refused" THEN node
               ELSE Append(node, [calls |-> cs, returns |-> rs, raw |-> raw, reverts |-> rev,
                                  call |-> first, answered |-> out = "accepted"])

\* Mutant: a refused transaction is dropped without an answer.
QueueExecutionTableSilent(out) ==
    /\ phase = "queue" /\ ~tx.up
    /\ calls' = WithFlags(calls, walk)
    /\ Enqueue(out, calls', 1, <<>>, TRUE, FALSE)
    /\ phase' = "done" /\ answer' = IF out = "accepted" THEN "held" ELSE answer
    /\ UNCHANGED <<tx, returns, err, reverts, walk, at, offset, fresh>>

\* The builder queues the calls and the transaction is answered with its hash; an error
\* sends the transaction to L1 as it is.
QueueExecutionTable(out) ==
    /\ phase = "queue" /\ ~tx.up
    /\ calls' = WithFlags(calls, walk)
    /\ Enqueue(out, calls', 1, <<>>, TRUE, FALSE)
    /\ End(IF out = "accepted" THEN "held" ELSE "forwarded")
    /\ UNCHANGED <<tx, returns, err, reverts, walk, at, offset, fresh>>

-----------------------------------------------------------------------------
(***************************************************************************)
(* A transaction from L2.                                                  *)
(***************************************************************************)
\* If calls back are known already the transaction is traced once more with them.
PostDiscoveryRetrace(ok) ==
    /\ phase = "postDiscovery" /\ (returns = <<>> => ok) /\ Request(ok)
    /\ calls' = calls \o IF ok /\ returns # <<>> THEN FilterNewByCount(WalkTrace(tx, calls), calls) ELSE <<>>
    /\ GoOn("route")
    /\ UNCHANGED <<tx, returns, err, reverts, walk, at, offset, fresh, node>>

Several == Len(calls) >= 2

RoutePartialRevert ==
    /\ phase = "route" /\ Several /\ PartialRevert(calls)
    /\ GoOn("multi")
    /\ UNCHANGED <<tx, found, node, faults>>

\* simulate_chained_delivery_l2_to_l1: direct calls on L1 in one bundle.
DeliveredChained(cs) ==
    [k \in DOMAIN cs |-> [cs[k] EXCEPT !.ret = Data(cs[k].to, 1 + Executions(cs[k].to, SubSeq(cs, 1, k - 1)))]]

\* fallback_per_call_l2_to_l1_simulation: without a bundle, each for itself.
DeliveredEach(cs) == [k \in DOMAIN cs |-> DeliveredAlone(cs[k])]

\* Equal calls: if the first one calls back, so do the others, with answers of one bundle;
\* if not, each call is queued on its own.
RouteDuplicates(ok, chained) ==
    /\ phase = "route" /\ Several /\ ~PartialRevert(calls) /\ HasDuplicateCalls(calls)
    /\ (ok \/ chained) /\ Request(ok /\ chained)
    /\ LET to == calls[1].to
           same == InOrder({k \in DOMAIN calls : calls[k].to = to})
           copies == [i \in DOMAIN same |-> ReturnCall(to, same[i])]
       IN  IF ok /\ Nested(to)
           THEN /\ returns' = IF chained THEN EnrichReturnCalls(copies)
                              ELSE [i \in DOMAIN same |-> EnrichedAlone(copies[i])]
                /\ GoOn("multi") /\ UNCHANGED <<calls, at>>
           ELSE /\ calls' = IF chained THEN DeliveredChained(calls) ELSE DeliveredEach(calls)
                /\ at' = 0
                /\ GoOn("independent") /\ UNCHANGED returns
    /\ UNCHANGED <<tx, err, reverts, walk, offset, fresh, node>>

RouteSeveral ==
    /\ phase = "route" /\ Several /\ ~PartialRevert(calls) /\ ~HasDuplicateCalls(calls)
    /\ at' = 0 /\ offset' = 0
    /\ GoOn("deliver")
    /\ UNCHANGED <<tx, calls, returns, err, reverts, walk, fresh, node, faults>>

\* PromoteToContinuation: what the only call calls back is linked to it.
Promoted(to) == IF Nested(to) THEN EnrichReturnCalls(<<ReturnCall(to, 1)>>) ELSE <<>>

RouteSingle(ok) ==
    /\ phase = "route" /\ ~Several /\ Request(ok)
    /\ LET to == calls[1].to
           back == IF ok THEN Promoted(to) ELSE <<>>
       IN  /\ calls' = <<IF ok THEN DeliveredAlone(calls[1]) ELSE [calls[1] EXCEPT !.ret = 0]>>
           /\ returns' = back /\ fresh' = back /\ at' = 0
           /\ GoOn(IF back = <<>> THEN "queue" ELSE "nested")
    /\ UNCHANGED <<tx, err, reverts, walk, offset, node>>

RoundsLeft == at + 1 < 2 * MAX_RECURSIVE_DEPTH

\* simulate_l1_combined_delivery: the calls in one transaction on L1.
DeliveredTogether(cs) ==
    [k \in DOMAIN cs |-> [cs[k] EXCEPT !.ret = Data(cs[k].to, 1 + Executions(cs[k].to, SubSeq(cs, 1, k - 1)))]]

\* That transaction is looked at once per call: what it calls back is linked to every one.
SeenFromEach(cs) ==
    LET nested == Retain(cs, {k \in DOMAIN cs : Nested(cs[k].to)})
    IN  FlattenSeq([i \in DOMAIN cs |-> [k \in DOMAIN nested |-> ReturnCall(nested[k].to, offset + i)]])

Deliver(ok) ==
    /\ phase = "deliver" /\ Request(ok)
    /\ LET cur == SubSeq(calls, offset + 1, Len(calls))
           new == EnrichReturnCalls(SeenFromEach(cur))
       IN  IF ok
           THEN /\ calls' = SubSeq(calls, 1, offset) \o DeliveredTogether(cur)
                /\ returns' = returns \o new /\ fresh' = new /\ at' = at + 1
                /\ GoOn(IF new # <<>> /\ RoundsLeft THEN "nested" ELSE "multi")
           ELSE GoOn("multi") /\ UNCHANGED <<calls, returns, fresh, at>>
    /\ UNCHANGED <<tx, err, reverts, walk, offset, node>>

\* simulate_l2_return_call_delivery: the calls that the calls back make to L1, where they
\* fail for want of an entry.
CallsOfReturns(rs) ==
    LET callers == Retain(rs, {k \in DOMAIN rs : Nested(rs[k].to)})
    IN  [k \in DOMAIN callers |-> [to |-> Reply[callers[k].to], ret |-> 0, rev |-> TRUE, parent |-> 0]]

NestedCalls(ok) ==
    /\ phase = "nested" /\ Request(ok)
    /\ LET new == IF ok THEN CallsOfReturns(fresh) ELSE <<>>
       IN  /\ calls' = calls \o new /\ offset' = Len(calls) /\ at' = at + 1
           /\ GoOn(IF new # <<>> /\ RoundsLeft THEN "deliver" ELSE "multi")
    /\ UNCHANGED <<tx, returns, err, reverts, walk, fresh, node>>

\* buildL2ToL1ExecutionTable; if it fails, or seems to, the first call alone is queued, with
\* the transaction once more.
QueueMultiCall(out) ==
    /\ phase = "multi" /\ Enqueue(out, calls, 1, returns, TRUE, reverts)
    /\ IF out = "accepted" THEN End("held") ELSE GoOn("fallback")
    /\ UNCHANGED <<tx, found>>

QueueFallback(out) ==
    /\ phase = "fallback" /\ Enqueue(out, <<[calls[1] EXCEPT !.ret = 0]>>, 1, <<>>, TRUE, reverts)
    /\ End(IF out = "accepted" THEN "held" ELSE "forwarded")
    /\ UNCHANGED <<tx, found>>

\* initiateL2CrossChainCall of the only call.
QueueSingleCall(out) ==
    /\ phase = "queue" /\ tx.up /\ Enqueue(out, calls, 1, <<>>, TRUE, reverts)
    /\ End(IF out = "accepted" THEN "held" ELSE "forwarded")
    /\ UNCHANGED <<tx, found>>

\* One request per call.  It is the transaction's if one of them was answered (any_success).
IndependentCall(out, raw) ==
    /\ phase = "independent" /\ Enqueue(out, <<calls[at + 1]>>, at + 1, <<>>, raw, reverts)
    /\ at' = at + 1
    /\ IF at' < Len(calls) THEN GoOn("independent")
       ELSE End(IF \E k \in DOMAIN node' : node'[k].answered THEN "held" ELSE "forwarded")
    /\ UNCHANGED <<tx, calls, returns, err, reverts, walk, offset, fresh>>

\* Mutant: every request carries the transaction.
QueueIndependentCallRaw(out) == IndependentCall(out, TRUE)

\* The first request carries the transaction; if it fails the others are made all the same.
QueueIndependentCall(out) == IndependentCall(out, at = 0)

Rest == phase = "done" /\ UNCHANGED vars

Next ==
    \/ phase = "idle" /\ \E t \in Txs : HandleRequest(t) \/ HandleL2Request(t)
    \/ \E ok \in BOOLEAN :
          \/ TraceAndDetectInternalCalls(ok) \/ TraceAndDetectL2InternalCalls(ok)
          \/ EnrichChildren(ok) \/ BottomUp(ok)
          \/ PostDiscoveryRetrace(ok) \/ RouteSingle(ok) \/ Deliver(ok) \/ NestedCalls(ok)
    \/ \E out \in Outcomes :
          \/ QueueExecutionTable(out) \/ QueueMultiCall(out) \/ QueueFallback(out)
          \/ QueueSingleCall(out) \/ QueueIndependentCall(out)
    \/ \E ok, other \in BOOLEAN :
          DiscoverRound(other, ok) \/ RetraceRound(other, ok) \/ RouteDuplicates(ok, other)
    \/ \E bad \in 0..Len(calls) : EnrichCalls(bad)
    \/ RoutePartialRevert \/ RouteSeveral
    \/ Rest

Spec == Init /\ [][Next]_vars

-----------------------------------------------------------------------------
(***************************************************************************)
(* What is queued against what the transaction does once it is executed    *)
(* with the table: step s runs the contracts of Chain(to), each of them    *)
(* after the steps before s that are not undone.                           *)
(***************************************************************************)
Truth(s, x) == Data(x, 1 + Cardinality({r \in 1..(s - 1) :
                            /\ tx.steps[r].mode # "undone" /\ x \in ToSet(Chain(tx.steps[r].to))}))

QueuedCalls == FlattenSeq([k \in DOMAIN node |-> node[k].calls])
QueuedReturns == FlattenSeq([k \in DOMAIN node |-> node[k].returns])

Pair(s, x) == <<x, Truth(s, x)>>

\* The calls to the other chain: the steps, then what a longer chain adds.
CallsMade ==
    [s \in DOMAIN tx.steps |-> Pair(s, tx.steps[s].to)]
    \o FlattenSeq([s \in DOMAIN tx.steps |->
         LET chain == Chain(tx.steps[s].to)
         IN  [j \in 1..((Len(chain) - 1) \div 2) |-> Pair(s, chain[2 * j + 1])]])

\* The calls back: which call makes it, the contract and its answer.
CallsBack ==
    UNION {{<<IF j = 1 THEN s ELSE Len(tx.steps) + j - 1, Pair(s, Chain(tx.steps[s].to)[2 * j])>> :
              j \in 1..(Len(Chain(tx.steps[s].to)) \div 2)} : s \in DOMAIN tx.steps}

Rank(k) == Len(Roots(SubSeq(QueuedCalls, 1, k)))
Asked(s) == [k \in DOMAIN s |-> <<s[k].to, s[k].ret>>]
Back(s) == [k \in DOMAIN s |-> <<Rank(s[k].parent), <<s[k].to, s[k].ret>>>>]

\* If no request failed, what is queued is what happens: the calls the transaction makes
\* with the whole table loaded, in order, each with the answer it then gets and the flag of
\* its frame, each call back once and with the call that makes it, and whether the
\* transaction reverts in the end.
QueuedIsExecuted ==
    answer = "held" /\ faults = 0 /\ Fits(tx) =>
        LET children == QueuedReturns \o SelectSeq(QueuedCalls, LAMBDA c : c.parent # 0)
            roots == Roots(QueuedCalls)
            steps == DOMAIN tx.steps
            own == SubSeq(roots, 1, Len(tx.steps))
        IN  /\ Asked(roots) = CallsMade
            /\ ToSet(Back(children)) = CallsBack /\ Len(children) = Cardinality(CallsBack)
            /\ PartialRevert(own) <=> \E s \in steps : tx.steps[s].mode = "undone"
            /\ PartialRevert(own) => \A s \in steps : own[s].rev = (tx.steps[s].mode = "undone")
            /\ \A k \in DOMAIN node : node[k].reverts = tx.fails

\* Whatever fails, no call is found twice and none that the transaction does not make: the
\* calls known before the deliveries are simulated are the first ones, in order.
NothingInvented ==
    phase \notin {"deliver", "nested", "multi", "fallback", "done"} =>
        IsPrefix([k \in DOMAIN Roots(calls) |-> Roots(calls)[k].to],
                 [k \in DOMAIN tx.steps |-> tx.steps[k].to])

\* The requests the handler knows to be accepted, and those that carry the transaction.
Acknowledged == {k \in DOMAIN node : node[k].answered}
Carriers == {k \in DOMAIN node : node[k].raw}

\* A transaction is held only if a request is known to be accepted, forwarded only if none is,
\* and sent again, by a later request or to the node, only after a request whose answer was
\* lost: without such a loss it is queued or forwarded and never both, and at most once.  A
\* held one is at the builder if the request for its first call was accepted, and not at all
\* if that one was refused and only those for later calls, without the transaction, were not.
HeldOnce ==
    /\ answer = "held" => Acknowledged # {}
    /\ answer = "forwarded" => Acknowledged = {}
    /\ \A j, k \in Carriers : j < k => j \notin Acknowledged
    /\ answer = "held" => (Carriers # {} <=> node[1].call = 1)
=============================================================================
