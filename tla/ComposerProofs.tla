---------------------------- MODULE ComposerProofs ----------------------------
(***************************************************************************)
(* The composer for every set of contracts and every bound: whatever       *)
(* requests fail and whatever answers are lost, a transaction is sent a    *)
(* second time, to the builder or to its node, only after an answer was    *)
(* lost, and the calls found before the deliveries are the first ones the  *)
(* transaction makes, in order.                                            *)
(***************************************************************************)
EXTENDS Composer, QueueLemmas

-----------------------------------------------------------------------------
(***************************************************************************)
(* The inductive invariant.  HeldOnce speaks of the answer, which is given *)
(* at the end.  Before it nothing is at the builder, except a table whose  *)
(* answer was lost and the requests for independent calls, of which `at`   *)
(* have been made.                                                         *)
(***************************************************************************)
\* Of two requests with the transaction the answer to the earlier one was lost.
SentAgain == \A j, k \in Carriers : j < k => j \notin Acknowledged

\* The transaction is at the builder if the first accepted request is the one for its first call.
FirstCarries == Carriers # {} <=> node[1].call = 1

Handled ==
  /\ at \in Nat /\ node \in Seq(ToSet(node))
  /\ (answer = "none") <=> (phase # "done")
  /\ phase \notin {"fallback", "independent", "done"} => node = <<>>
  /\ phase = "independent" /\ at = 0 => node = <<>>
  /\ phase = "fallback" => Acknowledged = {} /\ (node # <<>> => node[1].call = 1)
  /\ answer = "forwarded" => Acknowledged = {}
  /\ answer = "held" => Acknowledged # {}
  /\ SentAgain
  /\ node # <<>> => FirstCarries

\* A request that is accepted is the last one, the others stay as they are.
LEMMA EnqueueFacts ==
  ASSUME node \in Seq(ToSet(node)), NEW out \in Outcomes, NEW cs, NEW first, NEW rs, NEW raw \in BOOLEAN,
         NEW rev, Enqueue(out, cs, first, rs, raw, rev), out # "refused"
  PROVE  /\ node' \in Seq(ToSet(node')) /\ node' # <<>>
         /\ DOMAIN node = 1..Len(node) /\ Len(node) \in Nat
         /\ DOMAIN node' = 1..(Len(node) + 1)
         /\ \A k \in 1..Len(node) : node'[k] = node[k]
         /\ node'[Len(node) + 1].raw = raw /\ node'[Len(node) + 1].call = first
         /\ node'[Len(node) + 1].answered = (out = "accepted")
<1> DEFINE r == [calls |-> cs, returns |-> rs, raw |-> raw, reverts |-> rev,
                 call |-> first, answered |-> out = "accepted"]
           new == Append(node, r)
           S == ToSet(node) \cup {r}
<1>1. node \in Seq(S) /\ r \in S
  <2>1. DOMAIN node = 1..Len(node) /\ Len(node) \in Nat /\ \A k \in 1..Len(node) : node[k] \in S
    BY DEF ToSet
  <2> QED
    BY <2>1
<1>2. r.raw = raw /\ r.call = first /\ r.answered = (out = "accepted")
  OBVIOUS
<1>3. node' = new
  BY DEF Enqueue
<1> HIDE DEF r, S
<1>4. /\ new \in Seq(S) /\ Len(new) = Len(node) + 1 /\ Len(node) \in Nat /\ DOMAIN node = 1..Len(node)
      /\ \A k \in 1..Len(node) : new[k] = node[k]
      /\ new[Len(node) + 1] = r
  BY <1>1
<1> HIDE DEF new
<1>5. DOMAIN new = 1..(Len(node) + 1)
  BY <1>4
<1>6. new \in Seq(ToSet(new))
  <2>1. \A k \in 1..Len(new) : new[k] \in ToSet(new)
    BY <1>4, <1>5 DEF ToSet
  <2> QED
    BY <1>4, <2>1
<1>7. new # <<>>
  BY <1>4
<1> QED
  BY <1>2, <1>3, <1>4, <1>5, <1>6, <1>7

\* Nothing is at the builder before a transaction arrives.
LEMMA InitHandled == Init => Handled
  BY DEF Init, Handled, SentAgain, Carriers, ToSet

\* A refused request changes nothing at the builder.
LEMMA RefusedFacts ==
  ASSUME NEW cs, NEW first, NEW rs, NEW raw, NEW rev, Enqueue("refused", cs, first, rs, raw, rev)
  PROVE  node' = node
  BY DEF Enqueue

\* A request for the first call, with the transaction, is made while no other is known to be
\* accepted; one for a later call does not carry it.
LEMMA EnqueueHandled ==
  ASSUME Handled, NEW out \in Outcomes, NEW cs, NEW first, NEW rs, NEW raw \in BOOLEAN, NEW rev,
         Enqueue(out, cs, first, rs, raw, rev), out # "refused",
         \/ raw = TRUE /\ first = 1 /\ Acknowledged = {} /\ (node # <<>> => node[1].call = 1)
         \/ raw = FALSE /\ first # 1
  PROVE  /\ node' \in Seq(ToSet(node')) /\ node' # <<>>
         /\ SentAgain' /\ FirstCarries'
         /\ Acknowledged' = Acknowledged \cup IF out = "accepted" THEN {Len(node) + 1} ELSE {}
         /\ node # <<>> => node'[1] = node[1]
         /\ node = <<>> => node'[1].call = first
<1> DEFINE n == Len(node) + 1
<1>1. /\ node' \in Seq(ToSet(node')) /\ node' # <<>>
      /\ DOMAIN node = 1..Len(node) /\ Len(node) \in Nat
      /\ DOMAIN node' = 1..n
      /\ \A k \in 1..Len(node) : node'[k] = node[k]
      /\ node'[n].raw = raw /\ node'[n].call = first
      /\ node'[n].answered = (out = "accepted")
  <2>1. node \in Seq(ToSet(node))
    BY DEF Handled
  <2> QED
    BY <2>1, EnqueueFacts
<1>2. 1..n = 1..Len(node) \cup {n} /\ n \notin 1..Len(node) /\ \A k \in 1..Len(node) : k < n /\ ~(n < k)
  BY <1>1
<1> HIDE DEF n
<1>3. Carriers' = Carriers \cup IF raw THEN {n} ELSE {}
  BY <1>1, <1>2 DEF Carriers
<1>4. Acknowledged' = Acknowledged \cup IF out = "accepted" THEN {n} ELSE {}
  BY <1>1, <1>2 DEF Acknowledged
<1>5. SentAgain'
  <2> SUFFICES ASSUME NEW j \in Carriers', NEW k \in Carriers', j < k
               PROVE  j \notin Acknowledged'
    BY DEF SentAgain
  <2>1. j # n
    <3>1. Carriers' \subseteq 1..n
      BY <1>1 DEF Carriers
    <3> QED
      BY <1>1, <1>2, <3>1
  <2>2. j \in Carriers
    BY <1>3, <2>1
  <2>3. j \notin Acknowledged
    <3>1. CASE raw
      BY <3>1
    <3>2. CASE ~raw
      BY <1>3, <2>2, <3>2 DEF Handled, SentAgain
    <3> QED
      BY <3>1, <3>2
  <2> QED
    BY <1>4, <2>1, <2>3
<1>6. (node # <<>> => node'[1] = node[1]) /\ (node = <<>> => node'[1].call = first)
  <2>1. node # <<>> => 1 \in 1..Len(node)
    BY <1>1
  <2>2. node = <<>> => n = 1
    BY DEF n
  <2> QED
    BY <1>1, <2>1, <2>2
<1>7. FirstCarries'
  <2>1. node = <<>> => Carriers = {}
    BY <1>1 DEF Carriers
  <2>2. CASE raw
    BY <1>3, <1>6, <2>2 DEF FirstCarries
  <2>3. CASE ~raw
    BY <1>3, <1>6, <2>1, <2>3 DEF FirstCarries, Handled
  <2> QED
    BY <2>2, <2>3
<1> QED
  BY <1>1, <1>4, <1>5, <1>6, <1>7 DEF n

\* Steps of the discovery: nothing is sent to the builder.
LEMMA DiscoveryHandled ==
  ASSUME Handled, UNCHANGED node, at' \in Nat, phase \notin {"fallback", "independent", "done"},
         \/ answer' = answer /\ phase' # "done"
         \/ answer' = "forwarded" /\ phase' = "done"
  PROVE  Handled'
<1>1. node = <<>> /\ node' = <<>> /\ answer = "none"
  BY DEF Handled
<1>2. Acknowledged' = {} /\ SentAgain' /\ node' \in Seq(ToSet(node'))
  BY <1>1 DEF Acknowledged, Carriers, SentAgain, Handled
<1> QED
  BY <1>1, <1>2 DEF Handled

\* If nothing changes at the builder, what is said of it stays true.
LEMMA SameNode ==
  ASSUME UNCHANGED node
  PROVE  /\ UNCHANGED <<Acknowledged, Carriers>> /\ (SentAgain => SentAgain') /\ (FirstCarries => FirstCarries')
  BY DEF Acknowledged, Carriers, SentAgain, FirstCarries

\* No step of a request queues its transaction and forwards it too.
LEMMA NextHandled ==
  ASSUME Handled, [Next]_vars
  PROVE  Handled'
<1>1. CASE UNCHANGED vars
  BY <1>1, SameNode DEF Handled, vars
<1>2. ASSUME NEW t \in Txs, phase = "idle", HandleRequest(t) \/ HandleL2Request(t)
      PROVE  Handled'
  <2>1. UNCHANGED <<node, at, answer>> /\ phase' = "trace"
    BY <1>2 DEF HandleRequest, HandleL2Request, Receive, GoOn, found
  <2> QED
    BY <1>2, <2>1, DiscoveryHandled DEF Handled
<1>3. ASSUME NEW ok \in BOOLEAN, TraceAndDetectInternalCalls(ok) \/ TraceAndDetectL2InternalCalls(ok)
      PROVE  Handled'
  <2>1. PICK next \in {"enrich", "postDiscovery"} : FirstTrace(ok, next)
    BY <1>3 DEF TraceAndDetectInternalCalls, TraceAndDetectL2InternalCalls
  <2>2. /\ phase = "trace" /\ UNCHANGED <<node, at>>
        /\ \/ answer' = answer /\ phase' \in {"discover", "enrich", "postDiscovery"}
           \/ answer' = "forwarded" /\ phase' = "done"
    BY <2>1 DEF FirstTrace, GoOn, End
  <2> QED
    BY <2>2, DiscoveryHandled DEF Handled
<1>4. ASSUME NEW ok \in BOOLEAN, EnrichChildren(ok) \/ BottomUp(ok) \/ PostDiscoveryRetrace(ok)
      PROVE  Handled'
  <2>1. /\ phase \in {"children", "bottomUp", "postDiscovery"} /\ UNCHANGED <<node, at, answer>>
        /\ phase' \in {"retrace", "queue", "route"}
    BY <1>4 DEF EnrichChildren, BottomUp, PostDiscoveryRetrace, GoOn
  <2> QED
    BY <2>1, DiscoveryHandled DEF Handled
<1>5. ASSUME NEW ok \in BOOLEAN, RouteSingle(ok) \/ Deliver(ok) \/ NestedCalls(ok)
      PROVE  Handled'
  <2>1. /\ phase \in {"route", "deliver", "nested"} /\ UNCHANGED <<node, answer>>
        /\ at' \in {0, at, at + 1} /\ phase' \in {"queue", "nested", "multi", "deliver"}
    BY <1>5 DEF RouteSingle, Deliver, NestedCalls, GoOn
  <2>2. at' \in Nat
    BY <2>1 DEF Handled
  <2> QED
    BY <2>1, <2>2, DiscoveryHandled
<1>6. ASSUME NEW ok \in BOOLEAN, NEW enriched \in BOOLEAN,
             DiscoverRound(enriched, ok) \/ RetraceRound(enriched, ok)
      PROVE  Handled'
  <2>1. /\ phase \in {"discover", "retrace"} /\ UNCHANGED <<node, answer>>
        /\ at' \in {0, at + 1} /\ phase' \in {"postDiscovery", "enrich", "discover", "bottomUp", "retrace"}
    BY <1>6 DEF DiscoverRound, RetraceRound, GoOn
  <2>2. at' \in Nat
    BY <2>1 DEF Handled
  <2> QED
    BY <2>1, <2>2, DiscoveryHandled
<1>7. ASSUME NEW ok \in BOOLEAN, NEW chained \in BOOLEAN, RouteDuplicates(ok, chained)
      PROVE  Handled'
  <2>1. /\ phase = "route" /\ UNCHANGED <<node, answer>> /\ at' \in {0, at}
        /\ phase' \in {"multi", "independent"}
    BY <1>7 DEF RouteDuplicates, GoOn
  <2>2. at' \in Nat
    BY <2>1 DEF Handled
  <2> QED
    BY <2>1, <2>2, DiscoveryHandled
<1>8. ASSUME NEW bad \in 0..Len(calls), EnrichCalls(bad)
      PROVE  Handled'
  <2>1. /\ phase = "enrich" /\ UNCHANGED <<node, at, answer>> /\ phase' \in {"children", "retrace", "queue"}
    BY <1>8 DEF EnrichCalls, GoOn
  <2> QED
    BY <2>1, DiscoveryHandled DEF Handled
<1>9. CASE RoutePartialRevert \/ RouteSeveral
  <2>1. /\ phase = "route" /\ UNCHANGED <<node, answer>> /\ at' \in {0, at} /\ phase' \in {"multi", "deliver"}
    BY <1>9 DEF RoutePartialRevert, RouteSeveral, GoOn, found
  <2>2. at' \in Nat
    BY <2>1 DEF Handled
  <2> QED
    BY <2>1, <2>2, DiscoveryHandled
<1>10. ASSUME NEW out \in Outcomes,
              QueueExecutionTable(out) \/ QueueMultiCall(out) \/ QueueFallback(out) \/ QueueSingleCall(out)
       PROVE  Handled'
  <2>1. phase \in {"queue", "multi", "fallback"} /\ at' = at /\ answer = "none"
    BY <1>10 DEF QueueExecutionTable, QueueMultiCall, QueueFallback, QueueSingleCall, Handled, found
  <2>2. Acknowledged = {} /\ (node # <<>> => node[1].call = 1)
    BY <2>1 DEF Handled, Acknowledged
  <2>3. \E cs, rs, rev : Enqueue(out, cs, 1, rs, TRUE, rev)
    BY <1>10, Zenon DEF QueueExecutionTable, QueueMultiCall, QueueFallback, QueueSingleCall
  <2>4. CASE out = "refused"
    <3>1. node' = node
      BY <2>3, <2>4, RefusedFacts
    <3>2. \/ answer' = answer /\ phase' = "fallback" /\ phase = "multi"
          \/ answer' = "forwarded" /\ phase' = "done"
      BY <1>10, <2>4 DEF QueueExecutionTable, QueueMultiCall, QueueFallback, QueueSingleCall, End, GoOn
    <3> QED
      BY <2>1, <2>2, <3>1, <3>2, SameNode DEF Handled
  <2>5. CASE out # "refused"
    <3>1. PICK cs, rs, rev : Enqueue(out, cs, 1, rs, TRUE, rev)
      BY <2>3
    <3>2. /\ node' \in Seq(ToSet(node')) /\ node' # <<>>
          /\ SentAgain' /\ FirstCarries'
          /\ Acknowledged' = Acknowledged \cup IF out = "accepted" THEN {Len(node) + 1} ELSE {}
          /\ node # <<>> => node'[1] = node[1]
          /\ node = <<>> => node'[1].call = 1
      BY <2>2, <2>5, <3>1, EnqueueHandled
    <3>3. CASE out = "accepted"
      <4>1. phase' = "done" /\ answer' = "held"
        BY <1>10, <3>3 DEF QueueExecutionTable, QueueMultiCall, QueueFallback, QueueSingleCall, End
      <4> QED
        BY <2>1, <3>2, <3>3, <4>1 DEF Handled
    <3>4. CASE out = "lost"
      <4>1. \/ answer' = answer /\ phase' = "fallback" /\ phase = "multi"
            \/ answer' = "forwarded" /\ phase' = "done"
        BY <1>10, <3>4 DEF QueueExecutionTable, QueueMultiCall, QueueFallback, QueueSingleCall, End, GoOn
      <4>2. node'[1].call = 1 /\ Acknowledged' = {}
        BY <2>2, <3>2, <3>4
      <4> QED
        BY <2>1, <3>2, <4>1, <4>2 DEF Handled
    <3> QED
      BY <2>5, <3>3, <3>4 DEF Outcomes
  <2> QED
    BY <2>4, <2>5
<1>11. ASSUME NEW out \in Outcomes, QueueIndependentCall(out)
       PROVE  Handled'
  <2>1. /\ phase = "independent" /\ at' = at + 1 /\ Enqueue(out, <<calls[at + 1]>>, at + 1, <<>>, at = 0, reverts)
    BY <1>11 DEF QueueIndependentCall, IndependentCall
  <2>2. \/ phase' = "independent" /\ answer' = answer
        \/ phase' = "done" /\ answer' = IF Acknowledged' # {} THEN "held" ELSE "forwarded"
    BY <1>11 DEF QueueIndependentCall, IndependentCall, End, GoOn, Acknowledged
  <2>3. at \in Nat /\ at' \in Nat /\ at' # 0 /\ answer = "none"
    BY <2>1 DEF Handled
  <2>4. node' \in Seq(ToSet(node')) /\ SentAgain' /\ (node' # <<>> => FirstCarries')
    <3>1. CASE out = "refused"
      <4>1. node' = node
        BY <2>1, <3>1, RefusedFacts
      <4> QED
        BY <4>1, SameNode DEF Handled
    <3>2. CASE out # "refused"
      <4>1. at = 0 => node = <<>> /\ Acknowledged = {}
        BY <2>1 DEF Handled, Acknowledged
      <4>2. CASE at = 0
        <5>1. PICK cs, rs, rev : Enqueue(out, cs, 1, rs, TRUE, rev)
          <6>1. at + 1 = 1 /\ (at = 0) = TRUE
            BY <4>2
          <6> QED
            BY <2>1, <6>1
        <5> QED
          BY <3>2, <4>1, <4>2, <5>1, EnqueueHandled
      <4>3. CASE at # 0
        <5>1. PICK first, cs, rs, rev : first = at + 1 /\ Enqueue(out, cs, first, rs, FALSE, rev)
          <6>1. (at = 0) = FALSE
            BY <4>3
          <6> QED
            BY <2>1, <6>1
        <5>2. first # 1
          BY <2>3, <4>3, <5>1
        <5>3. node' \in Seq(ToSet(node')) /\ SentAgain' /\ FirstCarries'
          BY <3>2, <5>1, <5>2, EnqueueHandled
        <5> QED
          BY <5>3
      <4> QED
        BY <4>2, <4>3
    <3> QED
      BY <3>1, <3>2
  <2> QED
    BY <2>1, <2>2, <2>3, <2>4 DEF Handled
<1>12. CASE Rest
  BY <1>1, <1>12 DEF Rest
<1> QED
  BY <1>1, <1>2, <1>3, <1>4, <1>5, <1>6, <1>7, <1>8, <1>9, <1>10, <1>11, <1>12, Zenon DEF Next

\* A held transaction has a request at the builder, the known one.
LEMMA HandledGivesHeldOnce == Handled => HeldOnce
<1> SUFFICES ASSUME Handled PROVE HeldOnce
  OBVIOUS
<1>1. answer = "held" => node # <<>>
  BY DEF Handled, Acknowledged
<1> QED
  BY <1>1 DEF Handled, HeldOnce, SentAgain, FirstCarries

\* HeldOnce holds in every run of the composer, whichever requests fail, whichever answers are
\* lost and on whichever path the transaction is queued: it is held only if a request is known
\* to be accepted, forwarded only if none is, and it goes to the builder or the node a second
\* time only after a request whose answer was lost.  A held one is at the builder exactly if
\* the request for its first call was accepted.
THEOREM QueuedOrForwarded == Spec => []HeldOnce
<1>1. Init => Handled
  BY InitHandled
<1>2. Handled /\ [Next]_vars => Handled'
  BY NextHandled
<1>3. Handled => HeldOnce
  BY HandledGivesHeldOnce
<1> QED
  BY <1>1, <1>2, <1>3, PTL DEF Spec

-----------------------------------------------------------------------------
(* The walk over a trace and what it finds *)

Call == [to : Targets, ret : Nat, rev : BOOLEAN, parent : Nat]
ReturnedCall == [to : Targets, ret : Nat, parent : Nat]

\* The calls that are steps of the transaction, in a list of calls.
RootsAt(cs) == {k \in DOMAIN cs : cs[k].parent = 0}

\* Two lists of the same calls: answers and flags may differ.
SameCalls(cs, ds) ==
  /\ Len(cs) = Len(ds)
  /\ \A k \in 1..Len(cs) : ds[k].to = cs[k].to /\ ds[k].parent = cs[k].parent

\* The calls of the transaction itself are its first steps.
FirstSteps(steps, cs) ==
  /\ Len(Roots(cs)) <= Len(steps)
  /\ \A k \in 1..Len(Roots(cs)) : Roots(cs)[k].to = steps[k].to

\* What a trace shows: steps from the first one on.
IsWalk(steps, w) ==
  /\ Len(w) <= Len(steps)
  /\ \A k \in 1..Len(w) : w[k].to = steps[k].to /\ w[k].parent = 0

\* A trace shows the steps up to the first that stops the transaction.
LEMMA WalkFacts ==
  ASSUME NEW t, NEW known, t.steps \in Seq(Steps)
  PROVE  /\ WalkTrace(t, known) \in Seq(Call) /\ IsWalk(t.steps, WalkTrace(t, known))
         /\ t.steps # <<>> => WalkTrace(t, known) # <<>>
<1> DEFINE steps == t.steps
           got == Answers(steps, known)
           T == Stops(steps, got) \cup {Len(steps)}
           last == Min(T)
           w == [s \in 1..last |-> [to |-> steps[s].to, ret |-> 0, parent |-> 0,
                                    rev |-> InRevertedFrame(steps[s], got[s])]]
<1>1. Len(steps) \in Nat /\ DOMAIN steps = 1..Len(steps) /\ (steps # <<>> => Len(steps) > 0)
  OBVIOUS
<1> HIDE DEF got
<1>2. T \in SUBSET Nat /\ T # {} /\ Len(steps) \in T /\ (\A x \in T : x # Len(steps) => x \in 1..Len(steps))
  BY <1>1 DEF Stops
<1>3. last \in T /\ last \in Nat /\ last <= Len(steps)
  <2>1. \E x \in T : \A y \in T : x <= y
    <3> HIDE DEF T
    <3> QED
      BY <1>2, LeastNatural
  <2> HIDE DEF T
  <2>2. last \in T /\ \A y \in T : last <= y
    BY <2>1 DEF Min
  <2> QED
    BY <1>2, <2>2
<1>4. steps # <<>> => last >= 1
  <2> HIDE DEF T, last
  <2> QED
    BY <1>1, <1>2, <1>3
<1>5. WalkTrace(t, known) = w
  BY DEF WalkTrace, got
<1>6. \A s \in 1..Len(steps) : steps[s].to \in Targets
  <2>1. \A st \in Steps : st.to \in Entry
    BY DEF Steps
  <2>2. Entry \subseteq Targets
    BY ComposerAssumption
  <2> QED
    BY <1>1, <2>1, <2>2
<1> HIDE DEF T, last, steps
<1>7. \A s \in 1..last : w[s] \in Call
  <2>1. \A s : InRevertedFrame(steps[s], got[s]) \in BOOLEAN
    BY DEF InRevertedFrame
  <2>2. \A s \in 1..last : steps[s].to \in Targets
    BY <1>1, <1>3, <1>6
  <2> QED
    BY <2>1, <2>2 DEF Call
<1>8. Len(w) = last /\ w \in Seq(Call)
  <2> DEFINE v == w
  <2>1. v \in [1..last -> Call]
    BY <1>7
  <2> HIDE DEF v
  <2>2. Len(v) = last /\ v \in Seq(Call)
    BY <1>3, <2>1
  <2> QED
    BY <2>2 DEF v
<1>9. \A k \in 1..last : w[k].to = steps[k].to /\ w[k].parent = 0
  OBVIOUS
<1> HIDE DEF w
<1>10. steps # <<>> => w # <<>>
  BY <1>4, <1>8
<1> QED
  BY <1>3, <1>5, <1>8, <1>9, <1>10 DEF IsWalk, steps

\* How often a contract is called is a natural number.
LEMMA CountOfType ==
  ASSUME NEW E, NEW s \in Seq(E), NEW x
  PROVE  CountOf(s, x) \in Nat /\ IsFiniteSet({k \in DOMAIN s : s[k].to = x})
<1>1. DOMAIN s = 1..Len(s) /\ Len(s) \in Nat /\ 0 \in Nat
  OBVIOUS
<1>2. IsFiniteSet(1..Len(s))
  BY <1>1, IntervalSize
<1>3. {k \in DOMAIN s : s[k].to = x} \subseteq 1..Len(s)
  BY <1>1
<1>4. IsFiniteSet({k \in DOMAIN s : s[k].to = x})
  BY <1>2, <1>3, FS_Subset
<1> QED
  BY <1>4, FS_CardinalityType DEF CountOf

\* The steps of the transaction among the calls: positions and order.
LEMMA RootsFacts ==
  ASSUME NEW cs \in Seq(Call)
  PROVE  /\ Roots(cs) \in Seq(Call) /\ Len(Roots(cs)) = Cardinality(RootsAt(cs))
         /\ Len(Roots(cs)) \in Nat /\ Len(Roots(cs)) <= Len(cs)
         /\ RootsAt(cs) \in SUBSET (1..Len(cs)) /\ RootsAt(cs) \in SUBSET (0..Len(cs))
         /\ Roots(cs) = Retain(cs, RootsAt(cs))
         /\ \A k \in 1..Len(Roots(cs)) : /\ Nth(RootsAt(cs), k) \in RootsAt(cs)
                                         /\ Roots(cs)[k] = cs[Nth(RootsAt(cs), k)]
<1> DEFINE R == RootsAt(cs)
<1>1. R \in SUBSET (1..Len(cs)) /\ R \in SUBSET (0..Len(cs))
  BY DEF RootsAt
<1>2. Roots(cs) = Retain(cs, R)
  BY DEF Roots, RootsAt
<1> HIDE DEF R
<1>3. /\ Retain(cs, R) \in Seq(Call)
      /\ Len(Retain(cs, R)) = Cardinality(R) /\ Len(Retain(cs, R)) <= Len(cs)
      /\ Cardinality(R) \in Nat
      /\ \A k \in 1 .. Cardinality(R) : Nth(R, k) \in R /\ Retain(cs, R)[k] = cs[Nth(R, k)]
  BY <1>1, RetainFacts
<1> QED
  BY <1>1, <1>2, <1>3 DEF R

\* Lists of the same calls have the same steps.
LEMMA RootsOfSame ==
  ASSUME NEW cs \in Seq(Call), NEW ds \in Seq(Call), SameCalls(cs, ds)
  PROVE  /\ RootsAt(ds) = RootsAt(cs) /\ Len(Roots(ds)) = Len(Roots(cs))
         /\ \A k \in 1..Len(Roots(cs)) : Roots(ds)[k].to = Roots(cs)[k].to
<1>1. RootsAt(ds) = RootsAt(cs)
  BY DEF SameCalls, RootsAt
<1>2. /\ Len(Roots(cs)) = Cardinality(RootsAt(cs)) /\ RootsAt(cs) \in SUBSET (1..Len(cs))
      /\ \A k \in 1..Len(Roots(cs)) : /\ Nth(RootsAt(cs), k) \in RootsAt(cs)
                                      /\ Roots(cs)[k] = cs[Nth(RootsAt(cs), k)]
  BY RootsFacts
<1>3. /\ Len(Roots(ds)) = Cardinality(RootsAt(ds))
      /\ \A k \in 1..Len(Roots(ds)) : Roots(ds)[k] = ds[Nth(RootsAt(ds), k)]
  BY RootsFacts
<1>4. \A k \in 1..Len(Roots(cs)) : Nth(RootsAt(cs), k) \in 1..Len(cs)
  BY <1>2
<1> QED
  BY <1>1, <1>2, <1>3, <1>4 DEF SameCalls

\* The steps of a longer list.
LEMMA RootsOfConcat ==
  ASSUME NEW cs \in Seq(Call), NEW ds \in Seq(Call)
  PROVE  Roots(cs \o ds) = Roots(cs) \o Roots(ds)
<1> DEFINE w == cs \o ds
           m == Len(cs)
           l == Len(ds)
<1>1. /\ w \in Seq(Call) /\ Len(w) = m + l /\ m \in Nat /\ l \in Nat
      /\ \A i \in 1..m : w[i] = cs[i]
      /\ \A i \in m + 1..m + l : w[i] = ds[i - m]
  BY ConcatElements
<1>4. DOMAIN w = 1..m + l /\ DOMAIN cs = 1..m /\ DOMAIN ds = 1..l
  <2> HIDE DEF w
  <2> QED
    BY <1>1
<1> HIDE DEF w, m, l
<1>2. \A i \in 1..l : m + i \in m + 1..m + l /\ (m + i) - m = i
  BY <1>1
<1>3. \A i \in m + 1..m + l : i - m \in 1..l /\ i = m + (i - m)
  BY <1>1
<1>a. \A i \in 1..m + l : i \in 1..m \/ i \in m + 1..m + l
  BY <1>1
<1>b. \A i \in 1..l : w[m + i] = ds[i]
  BY <1>1, <1>2
<1>5. RootsAt(w) = RootsAt(cs) \cup {m + j : j \in RootsAt(ds)}
  <2>1. \A i \in RootsAt(w) : i \in RootsAt(cs) \/ (i - m \in RootsAt(ds) /\ i = m + (i - m))
    BY <1>1, <1>3, <1>4, <1>a DEF RootsAt
  <2>2. \A i \in RootsAt(w) : i \in RootsAt(cs) \/ i \in {m + j : j \in RootsAt(ds)}
    BY <2>1
  <2>3. \A i \in RootsAt(cs) : i \in RootsAt(w)
    BY <1>1, <1>4 DEF RootsAt
  <2>4. \A j \in RootsAt(ds) : m + j \in RootsAt(w)
    <3>1. \A j \in 1..l : m + j \in 1..m + l
      BY <1>1
    <3> QED
      BY <1>4, <1>b, <3>1 DEF RootsAt
  <2> QED
    BY <2>2, <2>3, <2>4
<1>6. RootsAt(cs) \in SUBSET (1..Len(cs)) /\ RootsAt(ds) \in SUBSET (1..Len(ds))
  BY RootsFacts
<1>7. Retain(w, RootsAt(w)) = Retain(cs, RootsAt(cs)) \o Retain(ds, RootsAt(ds))
  <2> DEFINE a == RootsAt(cs)
             b == RootsAt(ds)
             keep == RootsAt(w)
  <2>1. a \in SUBSET (1..Len(cs)) /\ b \in SUBSET (1..Len(ds)) /\ keep = a \cup Moved(b, Len(cs))
    BY <1>5, <1>6 DEF m, Moved
  <2> HIDE DEF a, b, keep, w
  <2>2. Retain(cs \o ds, keep) = Retain(cs, a) \o Retain(ds, b)
    BY <2>1, RetainConcat, SMTT(30)
  <2> QED
    BY <2>2 DEF w, a, b, keep
<1>8. Roots(w) = Retain(w, RootsAt(w)) /\ Roots(cs) = Retain(cs, RootsAt(cs)) /\ Roots(ds) = Retain(ds, RootsAt(ds))
  BY DEF Roots, RootsAt
<1> QED
  BY <1>7, <1>8 DEF w

\* A list of steps is all steps.
LEMMA RootsOfRoots ==
  ASSUME NEW cs \in Seq(Call), \A k \in 1..Len(cs) : cs[k].parent = 0
  PROVE  Roots(cs) = cs
<1>1. RootsAt(cs) = 0 + 1..Len(cs)
  BY DEF RootsAt
<1>2. 0 \in 0..Len(cs) /\ Len(cs) \in Nat
  OBVIOUS
<1>3. /\ Len(Retain(cs, 0 + 1..Len(cs))) = Len(cs) - 0 /\ Retain(cs, 0 + 1..Len(cs)) \in Seq(Call)
      /\ \A i \in 1..Len(cs) - 0 : Retain(cs, 0 + 1..Len(cs))[i] = cs[0 + i]
  BY <1>2, RetainRest
<1> DEFINE r == Retain(cs, 0 + 1..Len(cs))
<1>4. Roots(cs) = r
  BY <1>1 DEF Roots, RootsAt
<1>5. r \in Seq(Call) /\ Len(r) = Len(cs) /\ \A i \in 1..Len(cs) : r[i] = cs[i]
  BY <1>2, <1>3
<1> HIDE DEF r
<1>6. r = [i \in 1..Len(cs) |-> r[i]] /\ cs = [i \in 1..Len(cs) |-> cs[i]]
  BY <1>5
<1> QED
  BY <1>4, <1>5, <1>6

\* A list of calls back has no steps.
LEMMA RootsOfChildren ==
  ASSUME NEW cs \in Seq(Call), \A k \in 1..Len(cs) : cs[k].parent # 0
  PROVE  Roots(cs) = <<>>
<1>1. RootsAt(cs) = {}
  BY DEF RootsAt
<1>2. Cardinality(RootsAt(cs)) = 0
  BY <1>1, FS_EmptySet
<1>3. Roots(cs) \in Seq(Call) /\ Len(Roots(cs)) = 0
  BY <1>2, RootsFacts
<1> QED
  BY <1>3

\* If no call back is to x, it is called as often by the steps alone.
LEMMA CountOfRoots ==
  ASSUME NEW cs \in Seq(Call), NEW x, \A k \in 1..Len(cs) : cs[k].parent # 0 => cs[k].to # x
  PROVE  CountOf(Roots(cs), x) = CountOf(cs, x)
<1> DEFINE R == RootsAt(cs)
           r == Roots(cs)
           A == {k \in DOMAIN cs : cs[k].to = x}
           B == {k \in DOMAIN r : r[k].to = x}
           f == [k \in B |-> Nth(R, k)]
<1>1. /\ r \in Seq(Call) /\ Len(r) = Cardinality(R) /\ Len(r) \in Nat
      /\ R \in SUBSET (1..Len(cs)) /\ R \in SUBSET (0..Len(cs))
      /\ \A k \in 1..Len(r) : Nth(R, k) \in R /\ r[k] = cs[Nth(R, k)]
  BY RootsFacts
<1>2. DOMAIN r = 1..Len(r) /\ DOMAIN cs = 1..Len(cs) /\ Len(cs) \in Nat
  <2> HIDE DEF r
  <2> QED
    BY <1>1
<1>3. A \subseteq R
  BY <1>2 DEF RootsAt
<1> HIDE DEF R, r
<1>4. f \in [B -> A]
  BY <1>1, <1>2
<1>5. IsInjective(f)
  <2> SUFFICES ASSUME NEW j \in B, NEW k \in B, Nth(R, j) = Nth(R, k) PROVE j = k
    BY DEF IsInjective
  <2>1. j \in 1..Cardinality(R) /\ k \in 1..Cardinality(R) /\ j \in Nat /\ k \in Nat
    BY <1>1, <1>2
  <2>2. Nth(R, j) \in Nat
    <3>1. Nth(R, j) \in R
      BY <1>1, <2>1
    <3>2. R \in SUBSET (0..Len(cs))
      BY <1>1
    <3>3. \A n \in R : n \in Nat
      BY <3>2
    <3> QED
      BY <3>1, <3>3, Zenon
  <2>3. ~(j < k)
    <3>1. j < k => Nth(R, j) < Nth(R, k)
      BY <1>1, <1>2, <2>1, NthIncreasing
    <3> QED
      BY <2>2, <3>1
  <2>4. ~(k < j)
    <3>1. k < j => Nth(R, k) < Nth(R, j)
      BY <1>1, <1>2, <2>1, NthIncreasing
    <3> QED
      BY <2>2, <3>1
  <2> QED
    BY <2>1, <2>3, <2>4
<1>6. ASSUME NEW a \in A
      PROVE  \E k \in B : f[k] = a
  <2> DEFINE k == Cardinality(Below(R, a)) + 1
  <2>1. a \in R
    BY <1>3
  <2>2. k \in 1..Cardinality(R) /\ Nth(R, k) = a
    BY <1>1, <1>2, <2>1, NthOfRank
  <2> HIDE DEF k
  <2>3. k \in B
    BY <1>1, <1>2, <2>2
  <2> QED
    BY <2>2, <2>3
<1> HIDE DEF f
<1>7. f \in Bijection(B, A)
  BY <1>4, <1>5, <1>6 DEF Bijection, Injection, Surjection
<1>8. ExistsBijection(B, A)
  BY <1>7 DEF ExistsBijection
<1>9. IsFiniteSet(B)
  <2> HIDE DEF r
  <2>1. r \in Seq(Call)
    BY <1>1
  <2> QED
    BY <2>1, CountOfType, Zenon
<1>10. Cardinality(A) = Cardinality(B)
  <2> HIDE DEF A, B
  <2> QED
    BY <1>8, <1>9, FS_Bijection
<1> QED
  BY <1>10 DEF CountOf, r

\* What is new in a trace is part of it.
LEMMA NewFacts ==
  ASSUME NEW seen \in Seq(Call), NEW known
  PROVE  /\ FilterNewByCount(seen, known) \in Seq(Call)
         /\ Len(FilterNewByCount(seen, known)) <= Len(seen)
         /\ \A k \in 1..Len(FilterNewByCount(seen, known)) :
              \E j \in 1..Len(seen) : FilterNewByCount(seen, known)[k] = seen[j]
<1> DEFINE keep == {k \in DOMAIN seen : CountOf(SubSeq(seen, 1, k), seen[k].to) > CountOf(known, seen[k].to)}
           new == FilterNewByCount(seen, known)
<1>1. keep \in SUBSET (1..Len(seen))
  OBVIOUS
<1>2. new = Retain(seen, keep)
  BY DEF FilterNewByCount
<1> HIDE DEF keep, new
<1>3. /\ new \in Seq(Call) /\ Len(new) = Cardinality(keep) /\ Len(new) <= Len(seen)
      /\ \A k \in 1..Cardinality(keep) : Nth(keep, k) \in keep /\ new[k] = seen[Nth(keep, k)]
  BY <1>1, <1>2, RetainFacts
<1>4. \A k \in 1..Len(new) : \E j \in 1..Len(seen) : new[k] = seen[j]
  BY <1>1, <1>3
<1> QED
  BY <1>3, <1>4 DEF new

\* filter_new_by_count of a trace and the steps known so far: exactly the steps behind them.  Calls
\* back are known as well, but are no steps.
LEMMA NewAreNext ==
  ASSUME NEW steps \in Seq(Steps), NEW cs \in Seq(Call), NEW seen \in Seq(Call),
         FirstSteps(steps, cs), IsWalk(steps, seen),
         \A k \in 1..Len(cs) : cs[k].parent # 0 => cs[k].to \notin Entry
  PROVE  /\ Len(Roots(cs)) <= Len(seen) =>
              /\ Len(FilterNewByCount(seen, cs)) = Len(seen) - Len(Roots(cs))
              /\ \A i \in 1..Len(seen) - Len(Roots(cs)) : FilterNewByCount(seen, cs)[i] = seen[Len(Roots(cs)) + i]
         /\ Len(Roots(cs)) > Len(seen) => FilterNewByCount(seen, cs) = <<>>
<1> DEFINE m == Len(Roots(cs))
           l == Len(seen)
           New(k) == CountOf(SubSeq(seen, 1, k), seen[k].to) > CountOf(cs, seen[k].to)
           keep == {k \in DOMAIN seen : New(k)}
           CallsTo(x, n) == {j \in 1..n : steps[j].to = x}
<1>1. /\ m \in Nat /\ l \in Nat /\ Roots(cs) \in Seq(Call) /\ Len(steps) \in Nat
      /\ m <= Len(steps) /\ l <= Len(steps)
      /\ DOMAIN seen = 1..l
  BY RootsFacts DEF FirstSteps, IsWalk
<1>2. \A j \in 1..Len(steps) : steps[j].to \in Entry
  <2>1. \A st \in Steps : st.to \in Entry
    BY DEF Steps
  <2> QED
    BY <2>1
<1>3. ASSUME NEW x \in Entry PROVE CountOf(cs, x) = Cardinality(CallsTo(x, m))
  <2>1. CountOf(Roots(cs), x) = CountOf(cs, x)
    BY CountOfRoots
  <2>2. DOMAIN Roots(cs) = 1..m
    BY <1>1
  <2>3. {k \in DOMAIN Roots(cs) : Roots(cs)[k].to = x} = CallsTo(x, m)
    BY <2>2 DEF FirstSteps
  <2> QED
    BY <2>1, <2>3 DEF CountOf
<1>4. ASSUME NEW k \in 1..l PROVE CountOf(SubSeq(seen, 1, k), seen[k].to) = Cardinality(CallsTo(seen[k].to, k))
  <2> DEFINE s == SubSeq(seen, 1, k)
  <2>1. Len(s) = k /\ s \in Seq(Call) /\ \A j \in 1..k : s[j] = seen[j]
    BY <1>1
  <2> HIDE DEF s
  <2>2. DOMAIN s = 1..k
    BY <2>1
  <2>3. \A j \in 1..k : seen[j].to = steps[j].to
    BY <1>1 DEF IsWalk
  <2>4. {j \in DOMAIN s : s[j].to = seen[k].to} = CallsTo(seen[k].to, k)
    BY <2>1, <2>2, <2>3
  <2> QED
    BY <2>4 DEF CountOf, s
<1>5. ASSUME NEW x, NEW n \in Nat PROVE IsFiniteSet(CallsTo(x, n)) /\ Cardinality(CallsTo(x, n)) \in Nat
  <2>1. IsFiniteSet(1..n)
    BY IntervalSize
  <2>2. CallsTo(x, n) \subseteq 1..n
    OBVIOUS
  <2> HIDE DEF CallsTo
  <2> QED
    BY <2>1, <2>2, FS_Subset, FS_CardinalityType
<1>6. ASSUME NEW k \in 1..l PROVE New(k) <=> k > m
  <2> DEFINE x == seen[k].to
             A == CallsTo(x, k)
             B == CallsTo(x, m)
  <2>1. x = steps[k].to /\ x \in Entry
    BY <1>1, <1>2 DEF IsWalk
  <2>2. k \in Nat /\ IsFiniteSet(A) /\ IsFiniteSet(B) /\ Cardinality(A) \in Nat /\ Cardinality(B) \in Nat
    <3> HIDE DEF CallsTo
    <3> QED
      BY <1>1, <1>5
  <2>3. New(k) <=> Cardinality(A) > Cardinality(B)
    <3> HIDE DEF CallsTo
    <3> QED
      BY <1>3, <1>4, <2>1
  <2>4. CASE k <= m
    <3>1. A \subseteq B
      BY <1>1, <2>4
    <3>2. Cardinality(A) <= Cardinality(B)
      <4> HIDE DEF A, B
      <4> QED
        BY <2>2, <3>1, FS_Subset
    <3> QED
      BY <1>1, <2>2, <2>3, <2>4, <3>2
  <2>5. CASE k > m
    <3>1. k \in A /\ k \notin B /\ B \subseteq A
      BY <1>1, <2>1, <2>5
    <3> HIDE DEF A, B
    <3>2. Cardinality(B \cup {k}) = Cardinality(B) + 1
      BY <2>2, <3>1, FS_AddElement
    <3>3. B \cup {k} \subseteq A
      BY <3>1
    <3>4. Cardinality(B \cup {k}) <= Cardinality(A)
      BY <2>2, <3>3, FS_Subset
    <3> QED
      BY <2>2, <2>3, <2>5, <3>2, <3>4
  <2> QED
    BY <1>1, <2>4, <2>5
<1>7. FilterNewByCount(seen, cs) = Retain(seen, keep)
  BY DEF FilterNewByCount
<1> HIDE DEF New, CallsTo
<1>8. ASSUME m <= l
      PROVE  /\ Len(Retain(seen, keep)) = l - m
             /\ \A i \in 1..l - m : Retain(seen, keep)[i] = seen[m + i]
  <2>1. keep = m + 1..l
    BY <1>1, <1>6, <1>8
  <2>2. m \in 0..l
    BY <1>1, <1>8
  <2> DEFINE r == Retain(seen, m + 1..l)
  <2>3. Len(r) = l - m /\ \A i \in 1..l - m : r[i] = seen[m + i]
    <3> HIDE DEF m
    <3> QED
      BY <2>2, RetainRest
  <2> HIDE DEF m, l, keep
  <2> QED
    BY <2>1, <2>3
<1>9. ASSUME m > l PROVE Retain(seen, keep) = <<>>
  <2>1. keep = {}
    BY <1>1, <1>6, <1>9
  <2>2. Cardinality(keep) = 0 /\ keep \in SUBSET (1..Len(seen))
    BY <2>1, FS_EmptySet
  <2> HIDE DEF keep
  <2>3. Retain(seen, keep) \in Seq(Call) /\ Len(Retain(seen, keep)) = 0
    BY <2>2, RetainFacts
  <2> QED
    BY <2>3
<1> HIDE DEF keep
<1> QED
  BY <1>7, <1>8, <1>9

\* After a round the known steps are still the first ones, also if the new ones were answered and
\* calls back were added behind them.
LEMMA RoundKeepsOrder ==
  ASSUME NEW steps \in Seq(Steps), NEW cs \in Seq(Call), NEW seen \in Seq(Call),
         FirstSteps(steps, cs), IsWalk(steps, seen),
         \A k \in 1..Len(cs) : cs[k].parent # 0 => cs[k].to \notin Entry,
         NEW ds \in Seq(Call), SameCalls(FilterNewByCount(seen, cs), ds),
         NEW children \in Seq(Call), \A k \in 1..Len(children) : children[k].parent # 0
  PROVE  FirstSteps(steps, cs \o (ds \o children))
<1> DEFINE m == Len(Roots(cs))
           l == Len(seen)
           new == FilterNewByCount(seen, cs)
           r == Roots(cs)
<1>1. m \in Nat /\ l \in Nat /\ r \in Seq(Call) /\ Len(r) = m
  BY RootsFacts
<1>2. /\ m <= l => Len(new) = l - m /\ \A i \in 1..l - m : new[i] = seen[m + i]
      /\ m > l => new = <<>>
  BY NewAreNext
<1>3. /\ Len(ds) = Len(new) /\ \A k \in 1..Len(new) : ds[k].to = new[k].to /\ ds[k].parent = new[k].parent
  BY DEF SameCalls
<1>4. Len(steps) \in Nat /\ l <= Len(steps) /\ m <= Len(steps)
  BY DEF FirstSteps, IsWalk
<1>5. \A k \in 1..l : seen[k].to = steps[k].to /\ seen[k].parent = 0
  BY DEF IsWalk
<1>6. \A k \in 1..m : r[k].to = steps[k].to
  BY DEF FirstSteps
<1> HIDE DEF m, l, new, r
<1>7. /\ \A k \in 1..Len(ds) : ds[k].parent = 0 /\ ds[k].to = steps[m + k].to
      /\ Len(ds) \in Nat /\ m + Len(ds) <= Len(steps)
  <2>1. CASE m <= l
    <3>1. Len(ds) = l - m
      BY <1>2, <1>3, <2>1
    <3>2. \A k \in 1..Len(ds) : m + k \in 1..l
      BY <1>1, <3>1
    <3>3. \A k \in 1..Len(ds) : ds[k].to = seen[m + k].to /\ ds[k].parent = seen[m + k].parent
      BY <1>2, <1>3, <2>1, <3>1
    <3>4. \A k \in 1..Len(ds) : ds[k].parent = 0 /\ ds[k].to = steps[m + k].to
      BY <1>5, <3>2, <3>3
    <3>5. Len(ds) \in Nat /\ m + Len(ds) <= Len(steps)
      BY <1>1, <1>4, <2>1, <3>1
    <3> QED
      BY <3>4, <3>5
  <2>2. CASE m > l
    <3>1. Len(ds) = 0
      BY <1>2, <1>3, <2>2
    <3> QED
      BY <1>1, <1>4, <3>1
  <2> QED
    BY <1>1, <2>1, <2>2
<1>8. Roots(ds) = ds
  BY <1>7, RootsOfRoots
<1>9. Roots(children) = <<>>
  BY RootsOfChildren
<1>10. ds \o children \in Seq(Call)
  BY ConcatElements
<1>11. Roots(cs \o (ds \o children)) = r \o (ds \o <<>>)
  <2>1. Roots(ds \o children) = ds \o <<>>
    BY <1>8, <1>9, RootsOfConcat
  <2>2. Roots(cs \o (ds \o children)) = Roots(cs) \o Roots(ds \o children)
    BY <1>10, RootsOfConcat, Zenon
  <2> QED
    BY <2>1, <2>2, Zenon DEF r
<1>12. ds \o <<>> = ds
  OBVIOUS
<1>13. /\ r \o ds \in Seq(Call) /\ Len(r \o ds) = m + Len(ds)
       /\ \A i \in 1..m : (r \o ds)[i] = r[i]
       /\ \A i \in m + 1..m + Len(ds) : (r \o ds)[i] = ds[i - m]
  <2>1. /\ r \o ds \in Seq(Call) /\ Len(r \o ds) = Len(r) + Len(ds)
        /\ \A i \in 1..Len(r) : (r \o ds)[i] = r[i]
        /\ \A i \in Len(r) + 1..Len(r) + Len(ds) : (r \o ds)[i] = ds[i - Len(r)]
    BY <1>1, ConcatElements, Zenon
  <2> QED
    BY <1>1, <2>1, Zenon
<1> DEFINE q == r \o ds
<1> HIDE DEF q
<1>14. Roots(cs \o (ds \o children)) = q
  BY <1>11, <1>12 DEF q
<1>15. Len(q) = m + Len(ds)
  BY <1>13 DEF q
<1>16. ASSUME NEW k \in 1..m + Len(ds) PROVE q[k].to = steps[k].to
  <2>1. CASE k \in 1..m
    BY <1>6, <1>13, <2>1 DEF q
  <2>2. CASE k \in m + 1..m + Len(ds)
    <3>1. k - m \in 1..Len(ds) /\ m + (k - m) = k
      BY <1>1, <1>7, <2>2
    <3>2. q[k] = ds[k - m]
      BY <1>13, <2>2 DEF q
    <3> QED
      BY <1>7, <3>1, <3>2
  <2> QED
    BY <1>1, <1>7, <2>1, <2>2
<1> QED
  BY <1>7, <1>14, <1>15, <1>16 DEF FirstSteps

\* Other answers and flags do not change the order.
LEMMA SameKeepsOrder ==
  ASSUME NEW steps, NEW cs \in Seq(Call), NEW ds \in Seq(Call), SameCalls(cs, ds), FirstSteps(steps, cs)
  PROVE  FirstSteps(steps, ds)
<1>1. /\ Len(Roots(ds)) = Len(Roots(cs))
      /\ \A k \in 1..Len(Roots(cs)) : Roots(ds)[k].to = Roots(cs)[k].to
  BY RootsOfSame
<1> QED
  BY <1>1 DEF FirstSteps

\* Calls back behind the others do not either.
LEMMA ChildrenKeepOrder ==
  ASSUME NEW steps, NEW cs \in Seq(Call), FirstSteps(steps, cs),
         NEW children \in Seq(Call), \A k \in 1..Len(children) : children[k].parent # 0
  PROVE  FirstSteps(steps, cs \o children)
<1>1. Roots(children) = <<>>
  BY RootsOfChildren
<1>2. Roots(cs) \in Seq(Call)
  BY RootsFacts
<1>3. Roots(cs) \o <<>> = Roots(cs)
  BY <1>2
<1>4. Roots(cs \o children) = Roots(cs)
  BY <1>1, <1>3, RootsOfConcat
<1> QED
  BY <1>4 DEF FirstSteps

-----------------------------------------------------------------------------
(* Answers: the simulations fill in what calls return *)

\* Answers are natural numbers.
LEMMA DataType == \A x : \A k \in Nat : Data(x, k) \in Nat
  BY DEF Data

\* A call with an answer.
Answered(c, v) == [c EXCEPT !.ret = v]

\* A call that gets an answer or a flag is the same call.
LEMMA WithAnswer ==
  /\ \A c \in Call : \A v \in Nat : /\ Answered(c, v) \in Call
                                    /\ Answered(c, v).to = c.to /\ Answered(c, v).parent = c.parent
  /\ \A c \in Call : \A v \in BOOLEAN : /\ [c EXCEPT !.rev = v] \in Call
                                        /\ [c EXCEPT !.rev = v].to = c.to
                                        /\ [c EXCEPT !.rev = v].parent = c.parent
  BY DEF Call, Answered

\* A list that is the same call by call.
LEMMA CallByCall ==
  ASSUME NEW cs \in Seq(Call), NEW ds, ds = [k \in DOMAIN cs |-> ds[k]],
         \A k \in 1..Len(cs) : ds[k] \in Call /\ ds[k].to = cs[k].to /\ ds[k].parent = cs[k].parent
  PROVE  ds \in Seq(Call) /\ SameCalls(cs, ds)
<1>1. DOMAIN cs = 1..Len(cs) /\ Len(cs) \in Nat
  OBVIOUS
<1>2. ds \in [1..Len(cs) -> Call]
  BY <1>1
<1>3. ds \in Seq(Call) /\ Len(ds) = Len(cs)
  BY <1>1, <1>2
<1> QED
  BY <1>3 DEF SameCalls

\* The executions a list of calls causes.
LEMMA ExecutionsType ==
  ASSUME NEW E, NEW s \in Seq(E), NEW x
  PROVE  Executions(x, s) \in Nat
<1> DEFINE T == {k \in DOMAIN s : x \in ToSet(Chain(s[k].to))}
<1>1. T \subseteq 1..Len(s) /\ Len(s) \in Nat
  OBVIOUS
<1>2. IsFiniteSet(1..Len(s))
  BY <1>1, IntervalSize
<1> HIDE DEF T
<1>3. Cardinality(T) \in Nat
  BY <1>1, <1>2, FS_Subset, FS_CardinalityType
<1> QED
  BY <1>3 DEF Executions, T

\* What a simulation on L2 returns.
LEMMA SimulatedType ==
  ASSUME NEW E, NEW priors \in Seq(E), NEW to
  PROVE  SimulatedOnL2(to, priors) \in Nat
<1>1. CountOf(priors, to) \in Nat
  BY CountOfType
<1>2. SimulateOnL2(to) \in Nat
  BY DataType DEF SimulateOnL2, RetriedWithChild
<1>3. SimulateChainedOnL2(to, priors) \in Nat
  <2>1. 1 + CountOf(priors, to) \in Nat
    BY <1>1
  <2> QED
    BY <2>1, DataType DEF SimulateChainedOnL2
<1> QED
  BY <1>2, <1>3 DEF SimulatedOnL2

\* A beginning of a list of calls.
LEMMA BeginningType ==
  ASSUME NEW E, NEW s \in Seq(E), NEW k \in 0..Len(s)
  PROVE  SubSeq(s, 1, k) \in Seq(E) /\ Len(SubSeq(s, 1, k)) = k
  OBVIOUS

\* The last trace corrects flags only.
LEMMA FlagsOnly ==
  ASSUME NEW cs \in Seq(Call), NEW seen \in Seq(Call)
  PROVE  /\ WithFlags(cs, seen) \in Seq(Call) /\ SameCalls(cs, WithFlags(cs, seen))
         /\ CorrectInRevertedFrame(cs, seen) \in Seq(Call) /\ SameCalls(cs, CorrectInRevertedFrame(cs, seen))
<1> DEFINE same(k) == Retain(seen, {j \in DOMAIN seen : seen[j].to = cs[k].to})
           n(k) == CountOf(SubSeq(cs, 1, k), cs[k].to)
           ds == WithFlags(cs, seen)
<1>1. ds = [k \in DOMAIN cs |-> IF n(k) <= Len(same(k)) THEN [cs[k] EXCEPT !.rev = same(k)[n(k)].rev] ELSE cs[k]]
  BY DEF WithFlags
<1>2. ASSUME NEW k \in 1..Len(cs)
      PROVE  ds[k] \in Call /\ ds[k].to = cs[k].to /\ ds[k].parent = cs[k].parent
  <2>1. k \in DOMAIN cs /\ cs[k] \in Call
    OBVIOUS
  <2>2. same(k) \in Seq(Call)
    <3> DEFINE keep == {j \in DOMAIN seen : seen[j].to = cs[k].to}
    <3>1. keep \in SUBSET (1..Len(seen))
      OBVIOUS
    <3> HIDE DEF keep
    <3>2. Retain(seen, keep) \in Seq(Call)
      BY <3>1, RetainFacts
    <3> QED
      BY <3>2 DEF keep
  <2>3. n(k) \in Nat /\ n(k) >= 1
    <3> DEFINE b == SubSeq(cs, 1, k)
               T == {j \in DOMAIN b : b[j].to = cs[k].to}
    <3>1. b \in Seq(Call) /\ Len(b) = k /\ b[k] = cs[k] /\ k \in Nat /\ k >= 1
      OBVIOUS
    <3> HIDE DEF b
    <3>2. k \in T
      BY <3>1
    <3>3. CountOf(b, cs[k].to) \in Nat /\ IsFiniteSet(T)
      BY <3>1, CountOfType
    <3>4. CountOf(b, cs[k].to) # 0
      BY <3>2, <3>3, FS_EmptySet DEF CountOf
    <3> QED
      BY <3>3, <3>4 DEF b
  <2> HIDE DEF same, n
  <2>4. n(k) <= Len(same(k)) => same(k)[n(k)].rev \in BOOLEAN
    <3>1. n(k) <= Len(same(k)) => same(k)[n(k)] \in Call
      BY <2>2, <2>3
    <3>2. \A c \in Call : c.rev \in BOOLEAN
      BY DEF Call
    <3> QED
      BY <3>1, <3>2, Zenon
  <2> HIDE DEF ds
  <2>5. CASE n(k) <= Len(same(k))
    <3>1. ds[k] = [cs[k] EXCEPT !.rev = same(k)[n(k)].rev]
      BY <1>1, <2>1, <2>5
    <3> QED
      BY <2>1, <2>4, <2>5, <3>1, WithAnswer
  <2>6. CASE ~(n(k) <= Len(same(k)))
    <3>1. ds[k] = cs[k]
      BY <1>1, <2>1, <2>6
    <3> QED
      BY <2>1, <3>1
  <2> QED
    BY <2>5, <2>6
<1>3. ds = [k \in DOMAIN cs |-> ds[k]]
  BY <1>1
<1> HIDE DEF ds
<1>4. ds \in Seq(Call) /\ SameCalls(cs, ds)
  BY <1>2, <1>3, CallByCall
<1>5. SameCalls(cs, cs)
  BY DEF SameCalls
<1> QED
  BY <1>4, <1>5 DEF CorrectInRevertedFrame, ds

\* Calls that are simulated get answers only.
LEMMA AnswersOnly ==
  ASSUME NEW cs \in Seq(Call)
  PROVE  /\ EnrichBeforeRetrace(cs) \in Seq(Call) /\ SameCalls(cs, EnrichBeforeRetrace(cs))
         /\ DeliveredChained(cs) \in Seq(Call) /\ SameCalls(cs, DeliveredChained(cs))
         /\ DeliveredTogether(cs) \in Seq(Call) /\ SameCalls(cs, DeliveredTogether(cs))
         /\ DeliveredEach(cs) \in Seq(Call) /\ SameCalls(cs, DeliveredEach(cs))
         /\ PreEnrich(cs) \in Seq(Call) /\ SameCalls(cs, PreEnrich(cs))
         /\ SimulateWithTable(cs) \in Seq(Call) /\ SameCalls(cs, SimulateWithTable(cs))
<1>1. \A k \in DOMAIN cs : cs[k] \in Call /\ k \in 1..Len(cs)
  OBVIOUS
<1>2. \A k \in 1..Len(cs) : k \in DOMAIN cs
  OBVIOUS
<1>3. \A x : Data(x, 1) \in Nat
  BY DataType
<1>4. \A k \in 1..Len(cs) : Data(cs[k].to, 1 + Executions(cs[k].to, SubSeq(cs, 1, k - 1))) \in Nat
  <2> SUFFICES ASSUME NEW k \in 1..Len(cs)
               PROVE  Data(cs[k].to, 1 + Executions(cs[k].to, SubSeq(cs, 1, k - 1))) \in Nat
    OBVIOUS
  <2>1. k - 1 \in 0..Len(cs)
    OBVIOUS
  <2>2. SubSeq(cs, 1, k - 1) \in Seq(Call)
    BY <2>1, BeginningType
  <2>3. Executions(cs[k].to, SubSeq(cs, 1, k - 1)) \in Nat
    BY <2>2, ExecutionsType
  <2> QED
    BY <2>3, DataType
<1>5. EnrichBeforeRetrace(cs) \in Seq(Call) /\ SameCalls(cs, EnrichBeforeRetrace(cs))
  <2> DEFINE ds == EnrichBeforeRetrace(cs)
  <2>1. ds = [k \in DOMAIN cs |-> ds[k]]
    BY DEF EnrichBeforeRetrace
  <2>2. \A k \in 1..Len(cs) : ds[k] = IF cs[k].ret = 0 THEN Answered(cs[k], Data(cs[k].to, 1)) ELSE cs[k]
    BY <1>2 DEF Answered, EnrichBeforeRetrace, DeliveredAlone
  <2> HIDE DEF ds
  <2>3. \A k \in 1..Len(cs) : ds[k] \in Call /\ ds[k].to = cs[k].to /\ ds[k].parent = cs[k].parent
    BY <1>1, <1>2, <1>3, <2>2, WithAnswer
  <2> QED
    BY <2>1, <2>3, CallByCall DEF ds
<1>6. DeliveredChained(cs) \in Seq(Call) /\ SameCalls(cs, DeliveredChained(cs))
  <2> DEFINE ds == DeliveredChained(cs)
  <2>1. ds = [k \in DOMAIN cs |-> ds[k]]
    BY DEF DeliveredChained
  <2>2. \A k \in 1..Len(cs) : ds[k] = Answered(cs[k], Data(cs[k].to, 1 + Executions(cs[k].to, SubSeq(cs, 1, k - 1))))
    BY <1>2 DEF Answered, DeliveredChained
  <2> HIDE DEF ds
  <2>3. \A k \in 1..Len(cs) : ds[k] \in Call /\ ds[k].to = cs[k].to /\ ds[k].parent = cs[k].parent
    BY <1>1, <1>2, <1>4, <2>2, WithAnswer
  <2> QED
    BY <2>1, <2>3, CallByCall DEF ds
<1>7. DeliveredTogether(cs) = DeliveredChained(cs)
  BY DEF DeliveredTogether, DeliveredChained
<1>8. DeliveredEach(cs) \in Seq(Call) /\ SameCalls(cs, DeliveredEach(cs))
  <2> DEFINE ds == DeliveredEach(cs)
  <2>1. ds = [k \in DOMAIN cs |-> ds[k]]
    BY DEF DeliveredEach
  <2>2. \A k \in 1..Len(cs) : ds[k] = Answered(cs[k], Data(cs[k].to, 1))
    BY <1>2 DEF Answered, DeliveredEach, DeliveredAlone
  <2> HIDE DEF ds
  <2>3. \A k \in 1..Len(cs) : ds[k] \in Call /\ ds[k].to = cs[k].to /\ ds[k].parent = cs[k].parent
    BY <1>1, <1>2, <1>3, <2>2, WithAnswer
  <2> QED
    BY <2>1, <2>3, CallByCall DEF ds
<1>9. PreEnrich(cs) \in Seq(Call) /\ SameCalls(cs, PreEnrich(cs))
  <2> DEFINE ds == PreEnrich(cs)
  <2>1. ds = [k \in DOMAIN cs |-> ds[k]]
    BY DEF PreEnrich
  <2>2. \A k \in 1..Len(cs) : ds[k] = Answered(cs[k], Data(cs[k].to, 1)) \/ ds[k] = cs[k]
    BY <1>2 DEF Answered, PreEnrich
  <2> HIDE DEF ds
  <2>3. \A k \in 1..Len(cs) : ds[k] \in Call /\ ds[k].to = cs[k].to /\ ds[k].parent = cs[k].parent
    BY <1>1, <1>2, <1>3, <2>2, WithAnswer
  <2> QED
    BY <2>1, <2>3, CallByCall DEF ds
<1>10. SimulateWithTable(cs) \in Seq(Call) /\ SameCalls(cs, SimulateWithTable(cs))
  <2> DEFINE ds == SimulateWithTable(cs)
  <2>1. ds = [k \in DOMAIN cs |-> ds[k]]
    BY DEF SimulateWithTable
  <2>2. \A k \in 1..Len(cs) : ds[k] = Answered(cs[k], Data(cs[k].to, 1)) \/ ds[k] = cs[k]
    BY <1>2 DEF Answered, SimulateWithTable
  <2> HIDE DEF ds
  <2>3. \A k \in 1..Len(cs) : ds[k] \in Call /\ ds[k].to = cs[k].to /\ ds[k].parent = cs[k].parent
    BY <1>1, <1>2, <1>3, <2>2, WithAnswer
  <2> QED
    BY <2>1, <2>3, CallByCall DEF ds
<1> QED
  BY <1>5, <1>6, <1>7, <1>8, <1>9, <1>10, Zenon

-----------------------------------------------------------------------------
(* Calls back *)

\* Calls back made by one of n calls, or by the transaction of an early round.
ReturnTo(n) == [to : Targets, ret : Nat, parent : 0..n]

\* A contract that calls back calls a contract.
LEMMA ReplyType == \A x \in Targets : Nested(x) => Reply[x] \in Targets
<1>1. Reply \in [Targets -> Targets \cup {None}]
  BY ComposerAssumption
<1> QED
  BY <1>1 DEF Nested

\* The calls back of a round, answered by deliveries on L1.
LEMMA DeliveredFacts ==
  ASSUME NEW children \in Seq(Call), NEW before \in Seq(Call)
  PROVE  Delivered(children, before) \in Seq(Call) /\ SameCalls(children, Delivered(children, before))
<1> DEFINE ds == Delivered(children, before)
           v(i) == Data(children[i].to, CountOf(before \o SubSeq(children, 1, i), children[i].to))
<1>1. ds = [i \in DOMAIN children |-> ds[i]]
  BY DEF Delivered
<1>a. ds = [i \in DOMAIN children |-> Answered(children[i], v(i))]
  BY DEF Delivered, Answered
<1>2. \A i \in 1..Len(children) : ds[i] = Answered(children[i], v(i))
  <2> HIDE DEF v, ds
  <2> QED
    BY <1>a
<1>3. ASSUME NEW i \in 1..Len(children) PROVE v(i) \in Nat /\ children[i] \in Call
  <2>1. SubSeq(children, 1, i) \in Seq(Call)
    OBVIOUS
  <2>2. before \o SubSeq(children, 1, i) \in Seq(Call)
    BY <2>1
  <2>3. CountOf(before \o SubSeq(children, 1, i), children[i].to) \in Nat
    BY <2>2, CountOfType
  <2> QED
    BY <2>3, DataType
<1> HIDE DEF ds, v
<1>4. \A i \in 1..Len(children) : ds[i] \in Call /\ ds[i].to = children[i].to /\ ds[i].parent = children[i].parent
  BY <1>2, <1>3, WithAnswer
<1> QED
  BY <1>1, <1>4, CallByCall DEF ds

\* The new calls of a round, answered by simulations on L2.
LEMMA AnswerNewFacts ==
  ASSUME NEW new \in Seq(Call), calls \in Seq(Call)
  PROVE  AnswerNew(new) \in Seq(Call) /\ SameCalls(new, AnswerNew(new))
<1> DEFINE ds == AnswerNew(new)
           v(k) == SimulatedOnL2(new[k].to, Roots(calls) \o SubSeq(new, 1, k - 1))
<1>1. ds = [k \in DOMAIN new |-> ds[k]]
  BY DEF AnswerNew
<1>2. \A k \in 1..Len(new) : ds[k] = Answered(new[k], v(k))
  <2>1. DOMAIN new = 1..Len(new)
    OBVIOUS
  <2>2. \A k \in DOMAIN new : AnswerNew(new)[k] = Answered(new[k], v(k))
    BY Zenon DEF AnswerNew, Answered
  <2> QED
    BY <2>1, <2>2, Zenon
<1>3. ASSUME NEW k \in 1..Len(new) PROVE v(k) \in Nat /\ new[k] \in Call
  <2>1. SubSeq(new, 1, k - 1) \in Seq(Call)
    OBVIOUS
  <2>2. Roots(calls) \in Seq(Call)
    BY RootsFacts
  <2> DEFINE priors == Roots(calls) \o SubSeq(new, 1, k - 1)
  <2>3. priors \in Seq(Call)
    BY <2>1, <2>2
  <2> HIDE DEF priors
  <2>4. SimulatedOnL2(new[k].to, priors) \in Nat
    BY <2>3, SimulatedType
  <2> QED
    BY <2>4 DEF priors
<1> HIDE DEF ds, v
<1>4. \A k \in 1..Len(new) : ds[k] \in Call /\ ds[k].to = new[k].to /\ ds[k].parent = new[k].parent
  BY <1>2, <1>3, WithAnswer
<1> QED
  BY <1>1, <1>4, CallByCall DEF ds

\* The calls of the transaction, answered by simulations on L2.
LEMMA EnrichedFacts ==
  ASSUME calls \in Seq(Call), NEW bad
  PROVE  LET ds == [k \in DOMAIN calls |->
                      [calls[k] EXCEPT !.ret = IF k = bad THEN 0 ELSE SimulatedOnL2(calls[k].to, Priors(k))]]
         IN  ds \in Seq(Call) /\ SameCalls(calls, ds)
<1> DEFINE v(k) == IF k = bad THEN 0 ELSE SimulatedOnL2(calls[k].to, Priors(k))
           ds == [k \in DOMAIN calls |-> [calls[k] EXCEPT !.ret = v(k)]]
<1>1. ds = [k \in DOMAIN calls |-> ds[k]]
  OBVIOUS
<1>2. \A k \in 1..Len(calls) : ds[k] = Answered(calls[k], v(k))
  BY DEF Answered
<1>3. ASSUME NEW k \in 1..Len(calls) PROVE v(k) \in Nat /\ calls[k] \in Call
  <2> DEFINE keep == {j \in 1..(k - 1) : ~(PartialRevert(calls) /\ calls[j].rev)}
  <2>1. keep \in SUBSET (1..Len(calls))
    OBVIOUS
  <2> HIDE DEF keep
  <2>2. Retain(calls, keep) \in Seq(Call)
    BY <2>1, RetainFacts
  <2>3. Priors(k) \in Seq(Call)
    BY <2>2 DEF Priors, keep
  <2> QED
    BY <2>3, SimulatedType
<1> HIDE DEF ds, v
<1>4. \A k \in 1..Len(calls) : ds[k] \in Call /\ ds[k].to = calls[k].to /\ ds[k].parent = calls[k].parent
  BY <1>2, <1>3, WithAnswer
<1>5. ds \in Seq(Call) /\ SameCalls(calls, ds)
  BY <1>1, <1>4, CallByCall
<1> QED
  BY <1>5 DEF ds, v

\* The calls back that the simulations find, all but those of the one that failed.
ChildrenIn(cs, bad) ==
  LET parents == InOrder({k \in DOMAIN cs : k # bad /\ Nested(cs[k].to)})
  IN  [i \in DOMAIN parents |-> ChildOf(parents[i], cs[parents[i]].to)]

\* Each belongs to a call that calls back.
LEMMA ChildrenFacts ==
  ASSUME NEW cs \in Seq(Call), NEW bad
  PROVE  /\ ChildrenIn(cs, bad) \in Seq(Call)
         /\ \A i \in 1..Len(ChildrenIn(cs, bad)) :
              /\ ChildrenIn(cs, bad)[i].parent \in 1..Len(cs)
              /\ \E k \in 1..Len(cs) : ChildrenIn(cs, bad)[i].to = Reply[cs[k].to] /\ Nested(cs[k].to)
<1> DEFINE S == {k \in DOMAIN cs : k # bad /\ Nested(cs[k].to)}
           n == Cardinality(S)
           parents == InOrder(S)
           children == [i \in DOMAIN parents |-> ChildOf(parents[i], cs[parents[i]].to)]
<1>1. S \in SUBSET (1..Len(cs)) /\ S \in SUBSET (0..Len(cs)) /\ Len(cs) \in Nat
  OBVIOUS
<1>2. \A k \in S : k \in 1..Len(cs) /\ Nested(cs[k].to) /\ cs[k].to \in Targets
  <2>1. \A c \in Call : c.to \in Targets
    BY DEF Call
  <2> QED
    BY <2>1
<1> HIDE DEF S
<1>3. n \in Nat /\ \A i \in 1..n : Nth(S, i) \in S
  <2>1. n \in Nat
    BY <1>1, BelowFinite
  <2>2. \A i \in 1..n : Nth(S, i) \in S
    BY <1>1, NthInSet
  <2> QED
    BY <2>1, <2>2
<1>4. parents = [i \in 1..n |-> Nth(S, i)]
  BY DEF InOrder
<1>5. children = [i \in 1..n |-> ChildOf(Nth(S, i), cs[Nth(S, i)].to)]
  BY <1>4
<1> HIDE DEF n, parents, children
<1>6. ASSUME NEW i \in 1..n
      PROVE  /\ children[i] \in Call /\ children[i].parent \in 1..Len(cs)
             /\ \E k \in 1..Len(cs) : children[i].to = Reply[cs[k].to] /\ Nested(cs[k].to)
  <2> DEFINE k == Nth(S, i)
  <2>1. k \in 1..Len(cs) /\ Nested(cs[k].to) /\ cs[k].to \in Targets
    BY <1>2, <1>3
  <2>2. children[i] = ChildOf(k, cs[k].to)
    BY <1>5
  <2> HIDE DEF k
  <2>3. Reply[cs[k].to] \in Targets
    BY <2>1, ReplyType
  <2>4. ChildOf(k, cs[k].to) \in Call /\ ChildOf(k, cs[k].to).parent = k
        /\ ChildOf(k, cs[k].to).to = Reply[cs[k].to]
    <3>1. k \in Nat
      BY <2>1
    <3> QED
      BY <2>3, <3>1 DEF ChildOf, Call
  <2> QED
    BY <2>1, <2>2, <2>4, Zenon
<1>7. children \in Seq(Call) /\ Len(children) = n
  <2>1. children \in [1..n -> Call]
    BY <1>5, <1>6
  <2> QED
    BY <1>3, <2>1
<1>8. ChildrenIn(cs, bad) = children
  BY DEF ChildrenIn, children, parents, S
<1> QED
  BY <1>6, <1>7, <1>8

\* What the new calls of a round call back: given to the first of them.
LEMMA ChildrenOfNewFacts ==
  ASSUME NEW new \in Seq(Call), calls \in Seq(Call)
  PROVE  /\ ChildrenOfNew(new) \in Seq(Call) /\ (new = <<>> => ChildrenOfNew(new) = <<>>)
         /\ \A i \in 1..Len(ChildrenOfNew(new)) :
              /\ ChildrenOfNew(new)[i].parent = Len(calls) + 1
              /\ \E k \in 1..Len(new) : ChildrenOfNew(new)[i].to = Reply[new[k].to] /\ Nested(new[k].to)
<1> DEFINE keep == {k \in DOMAIN new : Nested(new[k].to)}
           n == Cardinality(keep)
           children == ChildrenOfNew(new)
           parents == Retain(new, keep)
<1>1. keep \in SUBSET (1..Len(new)) /\ Len(new) \in Nat
  OBVIOUS
<1>2. \A k \in keep : k \in 1..Len(new) /\ Nested(new[k].to) /\ new[k].to \in Targets
  <2>1. \A c \in Call : c.to \in Targets
    BY DEF Call
  <2> QED
    BY <2>1
<1>3. children = [i \in DOMAIN parents |-> ChildOf(Len(calls) + 1, parents[i].to)]
  BY DEF ChildrenOfNew
<1> HIDE DEF keep, children
<1>4. /\ parents \in Seq(Call) /\ Len(parents) = n /\ n \in Nat
      /\ n <= Len(new) /\ \A k \in 1..n : Nth(keep, k) \in keep /\ parents[k] = new[Nth(keep, k)]
  BY <1>1, RetainFacts
<1> HIDE DEF n, parents
<1>5. DOMAIN parents = 1..n
  BY <1>4
<1>6. ASSUME NEW i \in 1..n
      PROVE  /\ children[i] \in Call /\ children[i].parent = Len(calls) + 1
             /\ \E k \in 1..Len(new) : children[i].to = Reply[new[k].to] /\ Nested(new[k].to)
  <2> DEFINE k == Nth(keep, i)
  <2>1. k \in 1..Len(new) /\ Nested(new[k].to) /\ new[k].to \in Targets /\ parents[i] = new[k]
    BY <1>2, <1>4
  <2>2. children[i] = ChildOf(Len(calls) + 1, new[k].to)
    BY <1>3, <1>5, <2>1
  <2> HIDE DEF k
  <2>3. Reply[new[k].to] \in Targets /\ Len(calls) + 1 \in Nat
    BY <2>1, ReplyType
  <2>4. /\ ChildOf(Len(calls) + 1, new[k].to) \in Call
        /\ ChildOf(Len(calls) + 1, new[k].to).parent = Len(calls) + 1
        /\ ChildOf(Len(calls) + 1, new[k].to).to = Reply[new[k].to]
    BY <2>3 DEF ChildOf, Call
  <2> QED
    BY <2>1, <2>2, <2>4, Zenon
<1>7. children \in Seq(Call) /\ Len(children) = n
  <2>1. children \in [1..n -> Call]
    BY <1>3, <1>5, <1>6
  <2>2. n \in Nat
    BY <1>4
  <2> QED
    BY <2>1, <2>2
<1>8. new = <<>> => children = <<>>
  BY <1>4, <1>7
<1> QED
  BY <1>6, <1>7, <1>8 DEF children

\* A call back gets its answer.
LEMMA ReturnAnswered ==
  ASSUME NEW n, NEW r \in ReturnTo(n), NEW v \in Nat
  PROVE  [r EXCEPT !.ret = v] \in ReturnTo(n)
  BY DEF ReturnTo

\* A contract that calls back is seen to do so.
LEMMA ReturnCallType ==
  ASSUME NEW n, NEW x \in Targets, Nested(x), NEW k \in 0..n
  PROVE  ReturnCall(x, k) \in ReturnTo(n) /\ EnrichedAlone(ReturnCall(x, k)) \in ReturnTo(n)
<1>1. Reply[x] \in Targets
  BY ReplyType
<1>2. ReturnCall(x, k) \in ReturnTo(n)
  BY <1>1 DEF ReturnCall, ReturnTo
<1>3. EnrichedAlone(ReturnCall(x, k)) \in ReturnTo(n)
  BY <1>2, DataType, ReturnAnswered DEF EnrichedAlone
<1> QED
  BY <1>2, <1>3

\* A later call back may be made by more calls.
LEMMA ReturnsGrow ==
  ASSUME NEW m \in Nat, NEW n \in Nat, m <= n, NEW rs \in Seq(ReturnTo(m))
  PROVE  rs \in Seq(ReturnTo(n))
<1>1. ReturnTo(m) \subseteq ReturnTo(n)
  <2>1. 0..m \subseteq 0..n
    OBVIOUS
  <2> QED
    BY <2>1 DEF ReturnTo
<1> HIDE DEF ReturnTo
<1>2. \A k \in 1..Len(rs) : rs[k] \in ReturnTo(n)
  BY <1>1
<1> QED
  BY <1>2

\* enrich_return_calls_via_l2_trace answers them all.
LEMMA EnrichReturnsType ==
  ASSUME NEW n, NEW rs \in Seq(ReturnTo(n))
  PROVE  EnrichReturnCalls(rs) \in Seq(ReturnTo(n))
<1>1. DOMAIN rs = 1..Len(rs) /\ Len(rs) \in Nat /\ \A k \in 1..Len(rs) : rs[k] \in ReturnTo(n)
  OBVIOUS
<1> HIDE DEF ReturnTo
<1>2. [k \in DOMAIN rs |-> EnrichedAlone(rs[k])] \in Seq(ReturnTo(n))
  <2> DEFINE ds == [k \in DOMAIN rs |-> EnrichedAlone(rs[k])]
  <2>1. \A k \in 1..Len(rs) : EnrichedAlone(rs[k]) \in ReturnTo(n)
    BY <1>1, DataType, ReturnAnswered DEF EnrichedAlone
  <2>2. ds \in [1..Len(rs) -> ReturnTo(n)]
    BY <1>1, <2>1
  <2> HIDE DEF ds
  <2>3. ds \in Seq(ReturnTo(n))
    BY <1>1, <2>2
  <2> QED
    BY <2>3 DEF ds
<1>3. EnrichedChained(rs) \in Seq(ReturnTo(n))
  <2> DEFINE v(k) == Data(rs[k].to, CountOf(SubSeq(rs, 1, k), rs[k].to))
             ds == [k \in DOMAIN rs |-> [rs[k] EXCEPT !.ret = v(k)]]
  <2>1. ASSUME NEW k \in 1..Len(rs) PROVE v(k) \in Nat
    <3>1. SubSeq(rs, 1, k) \in Seq(ReturnTo(n))
      BY <1>1
    <3>2. CountOf(SubSeq(rs, 1, k), rs[k].to) \in Nat
      BY <3>1, CountOfType
    <3> QED
      BY <3>2, DataType
  <2>2. EnrichedChained(rs) = ds
    BY DEF EnrichedChained
  <2> HIDE DEF v
  <2>3. \A k \in 1..Len(rs) : [rs[k] EXCEPT !.ret = v(k)] \in ReturnTo(n)
    BY <1>1, <2>1, ReturnAnswered
  <2>4. ds \in [1..Len(rs) -> ReturnTo(n)]
    BY <1>1, <2>3
  <2> HIDE DEF ds
  <2>5. ds \in Seq(ReturnTo(n))
    BY <1>1, <2>4
  <2> QED
    BY <2>2, <2>5
<1> QED
  BY <1>2, <1>3 DEF EnrichReturnCalls

\* The calls back seen while the calls of a round are delivered.
LEMMA EarlyReturnsType ==
  ASSUME NEW cs \in Seq(Call), NEW n \in Nat
  PROVE  EarlyReturns(cs) \in Seq(ReturnTo(n))
<1> DEFINE keep == {k \in DOMAIN cs : cs[k].ret = 0 /\ Nested(cs[k].to)}
           asked == Retain(cs, keep)
           rs == [k \in DOMAIN asked |-> EnrichedAlone(ReturnCall(asked[k].to, 0))]
<1>1. keep \in SUBSET (1..Len(cs)) /\ \A k \in keep : Nested(cs[k].to) /\ cs[k] \in Call
  OBVIOUS
<1> HIDE DEF keep
<1>2. /\ asked \in Seq(Call) /\ Len(asked) = Cardinality(keep)
      /\ \A k \in 1..Cardinality(keep) : Nth(keep, k) \in keep /\ asked[k] = cs[Nth(keep, k)]
  BY <1>1, RetainFacts
<1> HIDE DEF asked
<1>3. \A k \in 1..Len(asked) : EnrichedAlone(ReturnCall(asked[k].to, 0)) \in ReturnTo(n)
  <2>1. \A k \in 1..Len(asked) : Nested(asked[k].to) /\ asked[k] \in Call
    BY <1>1, <1>2
  <2>2. \A c \in Call : c.to \in Targets
    BY DEF Call
  <2>3. 0 \in 0..n
    OBVIOUS
  <2> QED
    BY <2>1, <2>2, <2>3, ReturnCallType
<1>4. rs \in [1..Len(asked) -> ReturnTo(n)] /\ Len(asked) \in Nat
  BY <1>2, <1>3
<1>5. EarlyReturns(cs) = rs
  BY DEF EarlyReturns, asked, keep
<1> HIDE DEF rs
<1>6. rs \in Seq(ReturnTo(n))
  BY <1>4
<1> QED
  BY <1>5, <1>6

\* What one transaction on L1 calls back, once per call in it.
LEMMA SeenFromEachType ==
  ASSUME NEW cs \in Seq(Call), offset \in Nat
  PROVE  SeenFromEach(cs) \in Seq(ReturnTo(offset + Len(cs)))
<1> DEFINE keep == {k \in DOMAIN cs : Nested(cs[k].to)}
           nested == Retain(cs, keep)
           n == offset + Len(cs)
           back(i) == [k \in DOMAIN nested |-> ReturnCall(nested[k].to, offset + i)]
           all == [i \in DOMAIN cs |-> back(i)]
<1>1. keep \in SUBSET (1..Len(cs)) /\ \A k \in keep : Nested(cs[k].to) /\ cs[k] \in Call
  OBVIOUS
<1> HIDE DEF keep
<1>2. /\ nested \in Seq(Call) /\ Len(nested) = Cardinality(keep)
      /\ \A k \in 1..Cardinality(keep) : Nth(keep, k) \in keep /\ nested[k] = cs[Nth(keep, k)]
  BY <1>1, RetainFacts
<1> HIDE DEF nested
<1>3. DOMAIN cs = 1..Len(cs) /\ Len(cs) \in Nat /\ DOMAIN nested = 1..Len(nested) /\ Len(nested) \in Nat
  BY <1>2
<1>4. \A k \in 1..Len(nested) : Nested(nested[k].to) /\ nested[k].to \in Targets
  <2>1. \A k \in 1..Len(nested) : Nested(nested[k].to) /\ nested[k] \in Call
    BY <1>1, <1>2
  <2>2. \A c \in Call : c.to \in Targets
    BY DEF Call
  <2> QED
    BY <2>1, <2>2
<1>5. ASSUME NEW i \in 1..Len(cs) PROVE back(i) \in Seq(ReturnTo(n))
  <2>1. offset + i \in 0..n
    BY <1>3
  <2> HIDE DEF n
  <2>2. \A k \in 1..Len(nested) : ReturnCall(nested[k].to, offset + i) \in ReturnTo(n)
    BY <1>4, <2>1, ReturnCallType
  <2>3. back(i) \in [1..Len(nested) -> ReturnTo(n)]
    BY <1>3, <2>2
  <2> HIDE DEF back
  <2> QED
    BY <1>3, <2>3
<1> DEFINE S == Seq(ReturnTo(n))
<1>6. all \in [1..Len(cs) -> S]
  <2> HIDE DEF back, S
  <2>1. \A i \in 1..Len(cs) : back(i) \in S
    BY <1>5 DEF S
  <2> QED
    BY <1>3, <2>1
<1>7. SeenFromEach(cs) = FlattenSeq(all)
  BY DEF SeenFromEach, nested, keep
<1> HIDE DEF all
<1>8. all \in Seq(S)
  <2> HIDE DEF S
  <2> QED
    BY <1>3, <1>6
<1>9. FlattenSeq(all) \in Seq(ReturnTo(n))
  <2> HIDE DEF n
  <2> QED
    BY <1>8, FlattenType
<1> QED
  BY <1>7, <1>9

\* What the only call calls back.
LEMMA PromotedType ==
  ASSUME NEW to \in Targets, NEW n \in Nat, n >= 1
  PROVE  Promoted(to) \in Seq(ReturnTo(n))
<1>1. 1 \in 0..n
  OBVIOUS
<1>2. ASSUME Nested(to) PROVE EnrichReturnCalls(<<ReturnCall(to, 1)>>) \in Seq(ReturnTo(n))
  <2>1. ReturnCall(to, 1) \in ReturnTo(n)
    BY <1>1, <1>2, ReturnCallType
  <2> HIDE DEF ReturnTo
  <2>2. <<ReturnCall(to, 1)>> \in Seq(ReturnTo(n))
    BY <2>1
  <2> QED
    BY <2>2, EnrichReturnsType
<1>3. <<>> \in Seq(ReturnTo(n))
  OBVIOUS
<1> QED
  BY <1>2, <1>3 DEF Promoted

\* The copies of a call back, one for every equal call.
LEMMA CopiesType ==
  ASSUME NEW cs \in Seq(Call), NEW to \in Targets, Nested(to)
  PROVE  LET same == InOrder({k \in DOMAIN cs : cs[k].to = to})
             copies == [i \in DOMAIN same |-> ReturnCall(to, same[i])]
         IN  /\ EnrichReturnCalls(copies) \in Seq(ReturnTo(Len(cs)))
             /\ [i \in DOMAIN same |-> EnrichedAlone(copies[i])] \in Seq(ReturnTo(Len(cs)))
<1> DEFINE S == {k \in DOMAIN cs : cs[k].to = to}
           n == Len(cs)
           c == Cardinality(S)
           same == InOrder(S)
           copies == [i \in DOMAIN same |-> ReturnCall(to, same[i])]
           each == [i \in DOMAIN same |-> EnrichedAlone(copies[i])]
<1>1. S \in SUBSET (0..n) /\ n \in Nat
  OBVIOUS
<1> HIDE DEF S
<1>2. c \in Nat /\ \A i \in 1..c : Nth(S, i) \in S
  <2>1. c \in Nat
    BY <1>1, BelowFinite
  <2>2. \A i \in 1..c : Nth(S, i) \in S
    BY <1>1, NthInSet
  <2> QED
    BY <2>1, <2>2
<1>3. same = [i \in 1..c |-> Nth(S, i)]
  BY DEF InOrder
<1>4. copies = [i \in 1..c |-> ReturnCall(to, Nth(S, i))] /\ each = [i \in 1..c |-> EnrichedAlone(ReturnCall(to, Nth(S, i)))]
  BY <1>3
<1>5. \A i \in 1..c : /\ ReturnCall(to, Nth(S, i)) \in ReturnTo(n)
                      /\ EnrichedAlone(ReturnCall(to, Nth(S, i))) \in ReturnTo(n)
  <2>1. \A i \in 1..c : Nth(S, i) \in 0..n
    BY <1>1, <1>2
  <2> QED
    BY <2>1, ReturnCallType
<1> HIDE DEF c, copies, each, n
<1>6. copies \in [1..c -> ReturnTo(n)] /\ each \in [1..c -> ReturnTo(n)]
  BY <1>4, <1>5
<1>7. copies \in Seq(ReturnTo(n)) /\ each \in Seq(ReturnTo(n))
  BY <1>2, <1>6
<1>8. EnrichReturnCalls(copies) \in Seq(ReturnTo(n))
  BY <1>7, EnrichReturnsType
<1> QED
  BY <1>7, <1>8 DEF copies, each, n, same, S

\* The calls to L1 that calls back make.
LEMMA CallsOfReturnsType ==
  ASSUME NEW n, NEW rs \in Seq(ReturnTo(n))
  PROVE  /\ CallsOfReturns(rs) \in Seq(Call)
         /\ \A k \in 1..Len(CallsOfReturns(rs)) : CallsOfReturns(rs)[k].parent = 0
<1> DEFINE keep == {k \in DOMAIN rs : Nested(rs[k].to)}
           callers == Retain(rs, keep)
           new == CallsOfReturns(rs)
           at1(k) == [to |-> Reply[callers[k].to], ret |-> 0, rev |-> TRUE, parent |-> 0]
<1>1. keep \in SUBSET (1..Len(rs)) /\ \A k \in keep : Nested(rs[k].to) /\ rs[k] \in ReturnTo(n)
  OBVIOUS
<1>2. new = [k \in DOMAIN callers |-> at1(k)]
  BY DEF CallsOfReturns
<1> HIDE DEF keep, ReturnTo
<1>3. /\ callers \in Seq(ReturnTo(n)) /\ Len(callers) = Cardinality(keep)
      /\ \A k \in 1..Cardinality(keep) : Nth(keep, k) \in keep /\ callers[k] = rs[Nth(keep, k)]
  BY <1>1, RetainFacts
<1> HIDE DEF callers, new
<1>4. \A k \in 1..Len(callers) : Nested(callers[k].to) /\ callers[k].to \in Targets
  <2>1. \A k \in 1..Len(callers) : Nested(callers[k].to) /\ callers[k] \in ReturnTo(n)
    BY <1>1, <1>3
  <2>2. \A r \in ReturnTo(n) : r.to \in Targets
    BY DEF ReturnTo
  <2> QED
    BY <2>1, <2>2
<1>5. \A k \in 1..Len(callers) : at1(k) \in Call /\ at1(k).parent = 0
  BY <1>4, ReplyType DEF Call
<1>6. DOMAIN callers = 1..Len(callers) /\ Len(callers) \in Nat
  BY <1>3
<1> HIDE DEF at1
<1>7. new \in [1..Len(callers) -> Call] /\ \A k \in 1..Len(callers) : new[k].parent = 0
  BY <1>2, <1>5, <1>6
<1>8. new \in Seq(Call) /\ Len(new) = Len(callers)
  BY <1>6, <1>7
<1> QED
  BY <1>7, <1>8 DEF new

-----------------------------------------------------------------------------
(* The invariant of the discovery *)

Phases == {"idle", "trace", "discover", "enrich", "children", "retrace", "bottomUp", "queue",
           "postDiscovery", "route", "deliver", "nested", "multi", "fallback", "independent", "done"}

\* Once the deliveries are simulated, calls that a longer chain makes are added.
Later == {"deliver", "nested", "multi", "fallback", "done"}

\* Types, with what links a call back to the call that makes it.
Typed ==
  /\ tx.steps \in Seq(Steps) /\ phase \in Phases
  /\ calls \in Seq(Call) /\ \A k \in 1..Len(calls) : calls[k].parent \in 0..Len(calls)
  /\ returns \in Seq(ReturnTo(Len(calls))) /\ walk \in Seq(Call)
  /\ err \in BOOLEAN /\ reverts \in BOOLEAN /\ offset \in 0..Len(calls)
  /\ answer \in {"none", "held", "forwarded"} /\ faults \in 0..MaxFaults
  /\ (answer = "none") <=> (phase # "done")
  /\ phase = "children" => fresh \in Seq(Call) /\ \A k \in 1..Len(fresh) : fresh[k].parent \in 1..Len(calls)
  /\ phase = "nested" => fresh \in Seq(ReturnTo(Len(calls)))
  /\ phase \in {"idle", "trace"} => calls = <<>>
  /\ phase \notin {"idle", "trace", "done"} => calls # <<>>

\* The calls are the first steps of the transaction; first there are only steps, and calls back
\* added to them are to other contracts.
Ordered ==
  /\ phase \notin Later => FirstSteps(tx.steps, calls)
  /\ phase \in {"discover", "enrich", "children", "postDiscovery"} =>
       \A k \in 1..Len(calls) : calls[k].parent = 0
  /\ phase = "children" => \A k \in 1..Len(fresh) : fresh[k].to \notin Entry
  /\ phase = "retrace" => \A k \in 1..Len(calls) : calls[k].parent # 0 => calls[k].to \notin Entry

\* No contract the transaction calls calls another one of them back: what is called back is on the
\* transaction's own chain.  filter_new_by_count tells calls apart by destination, call data, value
\* and source, not by their direction.
CallsBackDiffer == \A x \in Entry : Reply[x] \notin Entry

\* A trace's calls are first steps.
LEMMA WalkIsFirst ==
  ASSUME NEW steps, NEW w \in Seq(Call), IsWalk(steps, w)
  PROVE  FirstSteps(steps, w)
<1>1. Roots(w) = w
  BY RootsOfRoots DEF IsWalk
<1> QED
  BY <1>1 DEF FirstSteps, IsWalk

\* So are no calls.
LEMMA NoCallsAreFirst ==
  ASSUME NEW steps \in Seq(Steps)
  PROVE  FirstSteps(steps, <<>>)
<1> DEFINE cs == <<>>
<1>1. cs \in Seq(Call) /\ Len(cs) = 0 /\ Len(steps) \in Nat
  OBVIOUS
<1> HIDE DEF cs
<1>2. Roots(cs) = cs
  <2>1. \A k \in 1..Len(cs) : cs[k].parent = 0
    BY <1>1
  <2> QED
    BY <1>1, <2>1, RootsOfRoots
<1>3. FirstSteps(steps, cs)
  BY <1>1, <1>2 DEF FirstSteps
<1> QED
  BY <1>3 DEF cs

\* A call of two joined lists is in one of them.
LEMMA CallOfConcat ==
  ASSUME NEW S, NEW cs \in Seq(S), NEW ds \in Seq(S)
  PROVE  /\ cs \o ds \in Seq(S) /\ Len(cs \o ds) = Len(cs) + Len(ds)
         /\ \A k \in 1..Len(cs \o ds) : \/ \E j \in 1..Len(cs) : (cs \o ds)[k] = cs[j]
                                        \/ \E j \in 1..Len(ds) : (cs \o ds)[k] = ds[j]
<1> DEFINE w == cs \o ds
           m == Len(cs)
           l == Len(ds)
<1>1. /\ w \in Seq(S) /\ Len(w) = m + l /\ m \in Nat /\ l \in Nat
      /\ \A i \in 1..m : w[i] = cs[i]
      /\ \A i \in m + 1..m + l : w[i] = ds[i - m]
  BY ConcatElements
<1> HIDE DEF w, m, l
<1>2. ASSUME NEW k \in 1..m + l
      PROVE  (\E j \in 1..m : w[k] = cs[j]) \/ (\E j \in 1..l : w[k] = ds[j])
  <2>1. CASE k \in 1..m
    BY <1>1, <2>1
  <2>2. CASE k \in m + 1..m + l
    <3>1. k - m \in 1..l
      BY <1>1, <2>2
    <3> QED
      BY <1>1, <2>2, <3>1
  <2> QED
    BY <1>1, <2>1, <2>2
<1> QED
  BY <1>1, <1>2 DEF w, m, l

\* A request that may fail keeps the number of failures within its bound.
LEMMA RequestType ==
  ASSUME faults \in 0..MaxFaults, NEW ok \in BOOLEAN, Request(ok)
  PROVE  faults' \in 0..MaxFaults
<1>1. MaxFaults \in Nat
  BY ComposerAssumption
<1> QED
  BY <1>1 DEF Request

\* Nothing is known at the start.
LEMMA InitTyped == Init => Typed /\ Ordered
<1> SUFFICES ASSUME Init PROVE Typed /\ Ordered
  OBVIOUS
<1>1. tx.steps = <<>> /\ <<>> \in Seq(Steps) /\ calls = <<>> /\ returns = <<>> /\ walk = <<>> /\ phase = "idle"
  BY DEF Init
<1>2. FirstSteps(tx.steps, calls)
  BY <1>1, NoCallsAreFirst
<1>3. MaxFaults \in Nat /\ 0 \in 0..MaxFaults
  BY ComposerAssumption
<1>4. /\ calls \in Seq(Call) /\ returns \in Seq(ReturnTo(Len(calls))) /\ walk \in Seq(Call) /\ Len(calls) = 0
      /\ 0 \in 0..Len(calls)
  <2> HIDE DEF Call, ReturnTo
  <2> QED
    BY <1>1
<1>5. Ordered
  BY <1>1, <1>2 DEF Ordered
<1>6. Typed
  <2>1. err \in BOOLEAN /\ reverts \in BOOLEAN /\ offset = 0 /\ answer = "none" /\ faults = 0
    BY DEF Init
  <2>2. tx.steps \in Seq(Steps) /\ phase \in Phases
    BY <1>1 DEF Phases
  <2>3. \A k \in 1..Len(calls) : calls[k].parent \in 0..Len(calls)
    BY <1>4
  <2> HIDE DEF Call, ReturnTo
  <2> QED
    BY <1>1, <1>3, <1>4, <2>1, <2>2, <2>3 DEF Typed
<1> QED
  BY <1>5, <1>6

\* A stuttering step.
LEMMA StutterTyped ==
  ASSUME Typed, UNCHANGED vars
  PROVE  Typed' /\ (Ordered => Ordered')
  BY DEF Typed, Ordered, vars, Later, Phases

\* A transaction arrives.
LEMMA ReceiveTyped ==
  ASSUME Typed, NEW t \in Txs, phase = "idle", HandleRequest(t) \/ HandleL2Request(t)
  PROVE  Typed' /\ Ordered'
<1>1. tx' = t /\ phase' = "trace" /\ UNCHANGED <<answer, found, faults>>
  BY DEF HandleRequest, HandleL2Request, Receive, GoOn
<1>2. t.steps \in Seq(Steps)
  <2>1. t.steps \in BoundedSeq(Steps, MaxSteps)
    BY DEF Txs
  <2>2. PICK m \in 0..MaxSteps : t.steps \in [1..m -> Steps]
    BY <2>1 DEF BoundedSeq, SeqOf
  <2>3. m \in Nat
    BY ComposerAssumption
  <2> HIDE DEF Steps
  <2> QED
    BY <2>2, <2>3
<1>3. calls = <<>>
  BY DEF Typed
<1>4. FirstSteps(t.steps, <<>>)
  BY <1>2, NoCallsAreFirst
<1>5. Typed'
  BY <1>1, <1>2, <1>3 DEF Typed, found, Phases
<1>6. Ordered'
  BY <1>1, <1>3, <1>4 DEF Ordered, found
<1> QED
  BY <1>5, <1>6

\* The first trace.
LEMMA FirstTraceTyped ==
  ASSUME Typed, NEW ok \in BOOLEAN, NEW next \in {"enrich", "postDiscovery"}, FirstTrace(ok, next)
  PROVE  Typed' /\ (Ordered => Ordered')
<1> DEFINE w == WalkTrace(tx, <<>>)
<1>1. phase = "trace" /\ Request(ok) /\ UNCHANGED <<tx, returns, walk, at, offset, fresh, node>>
  BY DEF FirstTrace
<1>2. faults' \in 0..MaxFaults
  BY <1>1, RequestType DEF Typed
<1>3. tx.steps \in Seq(Steps) /\ calls = <<>>
  BY <1>1 DEF Typed
<1>4. w \in Seq(Call) /\ IsWalk(tx.steps, w) /\ (tx.steps # <<>> => w # <<>>)
  BY <1>3, WalkFacts
<1>5. CASE ok /\ tx.steps # <<>>
  <2>1. /\ calls' = w /\ err' = TopLevelError(tx, <<>>) /\ reverts' = err'
        /\ phase' = (IF err' THEN "discover" ELSE next) /\ answer' = answer
    BY <1>5 DEF FirstTrace, GoOn
  <2>2. err' \in BOOLEAN
    BY <2>1 DEF TopLevelError
  <2> HIDE DEF w
  <2>3. calls' \in Seq(Call) /\ calls' # <<>> /\ (\A k \in 1..Len(calls') : calls'[k].parent = 0) /\ Len(calls') \in Nat
    BY <1>4, <1>5, <2>1 DEF IsWalk
  <2>4. FirstSteps(tx.steps, calls')
    BY <1>4, <2>1, WalkIsFirst
  <2>5. returns \in Seq(ReturnTo(Len(calls')))
    <3>1. returns \in Seq(ReturnTo(0)) /\ 0 \in Nat /\ 0 <= Len(calls')
      BY <1>3, <2>3 DEF Typed
    <3> QED
      BY <2>3, <3>1, ReturnsGrow
  <2>6. phase' \in {"discover", "enrich", "postDiscovery"} /\ offset \in 0..Len(calls')
    <3>1. offset \in 0..0
      BY <1>3 DEF Typed
    <3> QED
      BY <2>1, <2>3, <3>1
  <2>7. \A k \in 1..Len(calls') : calls'[k].parent \in 0..Len(calls')
    BY <2>3
  <2>8. Typed'
    BY <1>1, <1>2, <2>1, <2>2, <2>3, <2>5, <2>6, <2>7 DEF Typed, Phases
  <2>9. Ordered'
    BY <1>1, <2>3, <2>4, <2>6 DEF Ordered
  <2> QED
    BY <2>8, <2>9
<1>6. CASE ~(ok /\ tx.steps # <<>>)
  <2>1. phase' = "done" /\ answer' = "forwarded" /\ UNCHANGED <<calls, err, reverts>>
    BY <1>6 DEF FirstTrace, End
  <2>2. Typed'
    BY <1>1, <1>2, <2>1 DEF Typed, Phases
  <2>3. Ordered'
    BY <2>1 DEF Ordered, Later
  <2> QED
    BY <2>2, <2>3
<1> QED
  BY <1>5, <1>6

\* A round of the first loop.
LEMMA DiscoverRoundTyped ==
  ASSUME Typed, NEW ok \in BOOLEAN, NEW enriched \in BOOLEAN, DiscoverRound(enriched, ok)
  PROVE  Typed' /\ (Ordered => Ordered')
<1> DEFINE simulated == tx.up /\ enriched
           known == IF simulated THEN EnrichBeforeRetrace(calls) ELSE calls
           seen == IF ok THEN WalkTrace(tx, known) ELSE walk
           new == IF ok THEN FilterNewByCount(seen, known) ELSE <<>>
           longer == known \o new
<1>1. /\ phase = "discover" /\ UNCHANGED <<tx, err, offset, answer>>
      /\ calls' = CorrectInRevertedFrame(longer, seen) \/ calls' = longer
      /\ walk' = <<>> \/ walk' = seen
      /\ returns' = (IF simulated THEN returns \o EarlyReturns(calls) ELSE returns)
      /\ reverts' = (IF ok THEN TopLevelError(tx, known) ELSE reverts)
      /\ phase' \in {"discover", "postDiscovery", "enrich"}
      /\ Request(ok /\ enriched)
  BY DEF DiscoverRound, GoOn
<1>2. calls \in Seq(Call) /\ tx.steps \in Seq(Steps) /\ walk \in Seq(Call) /\ calls # <<>>
  BY <1>1 DEF Typed
<1>3. known \in Seq(Call) /\ SameCalls(calls, known)
  <2>1. SameCalls(calls, calls)
    BY DEF SameCalls
  <2> QED
    BY <1>2, <2>1, AnswersOnly
<1> HIDE DEF known
<1>4. seen \in Seq(Call) /\ (ok => IsWalk(tx.steps, seen))
  BY <1>2, WalkFacts
<1> HIDE DEF seen
<1>5. new \in Seq(Call) /\ (ok => \A k \in 1..Len(new) : \E j \in 1..Len(seen) : new[k] = seen[j])
  <2>1. /\ FilterNewByCount(seen, known) \in Seq(Call)
        /\ \A k \in 1..Len(FilterNewByCount(seen, known)) :
             \E j \in 1..Len(seen) : FilterNewByCount(seen, known)[k] = seen[j]
    BY <1>4, NewFacts
  <2>2. <<>> \in Seq(Call)
    OBVIOUS
  <2> QED
    BY <2>1, <2>2
<1>6. \A k \in 1..Len(new) : new[k].parent = 0
  <2>1. CASE ok
    BY <1>4, <1>5, <2>1 DEF IsWalk
  <2>2. CASE ~ok
    <3>1. Len(new) = 0
      BY <2>2
    <3> QED
      BY <3>1
  <2> QED
    BY <2>1, <2>2
<1>7. \A k \in 1..Len(calls) : calls[k].parent \in 0..Len(calls)
  BY DEF Typed
<1>8. ASSUME Ordered PROVE FirstSteps(tx.steps, longer)
  <2>1. FirstSteps(tx.steps, calls) /\ \A k \in 1..Len(calls) : calls[k].parent = 0
    BY <1>1, <1>8 DEF Ordered, Later
  <2>2. FirstSteps(tx.steps, known)
    BY <1>2, <1>3, <2>1, SameKeepsOrder
  <2>3. \A k \in 1..Len(known) : known[k].parent # 0 => known[k].to \notin Entry
    BY <1>3, <2>1 DEF SameCalls
  <2>4. CASE ok
    <3> DEFINE none == <<>>
    <3>1. none \in Seq(Call) /\ Len(none) = 0
      OBVIOUS
    <3>2. SameCalls(new, new)
      BY DEF SameCalls
    <3>3. new = FilterNewByCount(seen, known)
      BY <2>4
    <3>4. new \o none = new
      BY <1>5
    <3> HIDE DEF new, none
    <3>5. \A k \in 1..Len(none) : none[k].parent # 0
      BY <3>1
    <3>6. FirstSteps(tx.steps, known \o (new \o none))
      BY <1>2, <1>3, <1>4, <1>5, <2>2, <2>3, <2>4, <3>1, <3>2, <3>3, <3>5, RoundKeepsOrder
    <3> QED
      BY <3>4, <3>6
  <2>5. CASE ~ok
    <3>1. longer = known
      BY <1>3, <2>5
    <3> QED
      BY <2>2, <3>1
  <2> QED
    BY <2>4, <2>5
<1> HIDE DEF new
<1>9. /\ longer \in Seq(Call) /\ Len(longer) = Len(calls) + Len(new) /\ Len(new) \in Nat /\ Len(calls) \in Nat
      /\ \A k \in 1..Len(longer) : \/ \E j \in 1..Len(known) : longer[k] = known[j]
                                   \/ \E j \in 1..Len(new) : longer[k] = new[j]
  <2>1. Len(known) = Len(calls) /\ Len(new) \in Nat /\ Len(calls) \in Nat
    BY <1>2, <1>3, <1>5 DEF SameCalls
  <2>2. /\ known \o new \in Seq(Call) /\ Len(known \o new) = Len(known) + Len(new)
        /\ \A k \in 1..Len(known \o new) : \/ \E j \in 1..Len(known) : (known \o new)[k] = known[j]
                                           \/ \E j \in 1..Len(new) : (known \o new)[k] = new[j]
    BY <1>3, <1>5, CallOfConcat
  <2> HIDE DEF Call
  <2> QED
    BY <2>1, <2>2
<1> HIDE DEF longer
<1>10. \A k \in 1..Len(longer) : /\ longer[k].parent \in 0..Len(longer)
                                 /\ (\A j \in 1..Len(calls) : calls[j].parent = 0) => longer[k].parent = 0
  <2>1. \A j \in 1..Len(known) : /\ known[j].parent \in 0..Len(calls)
                                 /\ (\A i \in 1..Len(calls) : calls[i].parent = 0) => known[j].parent = 0
    BY <1>3, <1>7 DEF SameCalls
  <2>2. 0..Len(calls) \subseteq 0..Len(longer) /\ 0 \in 0..Len(longer)
    BY <1>9
  <2> QED
    BY <1>6, <1>9, <2>1, <2>2
<1>11. calls' \in Seq(Call) /\ SameCalls(longer, calls')
  <2>1. SameCalls(longer, longer)
    BY DEF SameCalls
  <2> QED
    BY <1>1, <1>4, <1>9, <2>1, FlagsOnly
<1>12. Len(calls') = Len(calls) + Len(new) /\ Len(calls') >= Len(calls) /\ calls' # <<>>
  <2>1. Len(calls) > 0
    BY <1>2
  <2> QED
    BY <1>9, <1>11, <2>1 DEF SameCalls
<1>13. returns' \in Seq(ReturnTo(Len(calls')))
  <2>1. returns \in Seq(ReturnTo(Len(calls))) /\ EarlyReturns(calls) \in Seq(ReturnTo(Len(calls)))
    BY <1>2, <1>9, EarlyReturnsType DEF Typed
  <2>2. returns' \in Seq(ReturnTo(Len(calls)))
    <3> HIDE DEF ReturnTo
    <3> QED
      BY <1>1, <2>1
  <2>3. Len(calls') \in Nat
    BY <1>9, <1>12
  <2> QED
    BY <1>9, <1>12, <2>2, <2>3, ReturnsGrow
<1>14. Typed'
  <2>1. faults' \in 0..MaxFaults
    BY <1>1, RequestType DEF Typed
  <2>2. reverts' \in BOOLEAN
    BY <1>1 DEF Typed, TopLevelError
  <2>3. walk' \in Seq(Call)
    <3>1. <<>> \in Seq(Call)
      OBVIOUS
    <3> HIDE DEF Call
    <3> QED
      BY <1>1, <1>4, <3>1
  <2>4. \A k \in 1..Len(calls') : calls'[k].parent \in 0..Len(calls')
    BY <1>10, <1>11 DEF SameCalls
  <2>5. offset' \in 0..Len(calls')
    BY <1>1, <1>9, <1>12 DEF Typed
  <2> QED
    BY <1>1, <1>2, <1>11, <1>12, <1>13, <2>1, <2>2, <2>3, <2>4, <2>5 DEF Typed, Phases
<1>15. ASSUME Ordered PROVE Ordered'
  <2>1. FirstSteps(tx'.steps, calls')
    BY <1>1, <1>8, <1>9, <1>11, <1>15, SameKeepsOrder
  <2>2. \A k \in 1..Len(calls') : calls'[k].parent = 0
    <3>1. \A k \in 1..Len(calls) : calls[k].parent = 0
      BY <1>1, <1>15 DEF Ordered
    <3> QED
      BY <1>10, <1>11, <3>1 DEF SameCalls
  <2> QED
    BY <1>1, <2>1, <2>2 DEF Ordered
<1> QED
  BY <1>14, <1>15

\* Simulating the calls on L2, which finds calls back.
LEMMA EnrichCallsTyped ==
  ASSUME Typed, NEW bad \in 0..Len(calls), EnrichCalls(bad)
  PROVE  Typed' /\ (CallsBackDiffer /\ Ordered => Ordered')
<1> DEFINE children == ChildrenIn(calls, bad)
           ds == [k \in DOMAIN calls |->
                    [calls[k] EXCEPT !.ret = IF k = bad THEN 0 ELSE SimulatedOnL2(calls[k].to, Priors(k))]]
<1>1. /\ phase = "enrich" /\ Request(bad = 0) /\ calls' = ds /\ fresh' = children
      /\ phase' \in {"children", "retrace", "queue"}
      /\ UNCHANGED <<answer, tx, returns, err, reverts, walk, at, offset, node>>
  BY DEF EnrichCalls, GoOn, ChildrenIn
<1>2. calls \in Seq(Call) /\ calls # <<>> /\ Len(calls) \in Nat
  BY <1>1 DEF Typed
<1>3. ds \in Seq(Call) /\ SameCalls(calls, ds)
  BY <1>2, EnrichedFacts
<1>4. /\ children \in Seq(Call)
      /\ \A i \in 1..Len(children) : /\ children[i].parent \in 1..Len(calls)
                                     /\ \E k \in 1..Len(calls) : children[i].to = Reply[calls[k].to] /\ Nested(calls[k].to)
  BY <1>2, ChildrenFacts
<1> HIDE DEF ds, children
<1>5. Len(calls') = Len(calls) /\ calls' # <<>>
  <2>1. Len(calls) # 0
    BY <1>2
  <2> QED
    BY <1>1, <1>2, <1>3, <2>1 DEF SameCalls
<1>6. Typed'
  <2>1. faults' \in 0..MaxFaults
    <3>1. (bad = 0) \in BOOLEAN
      OBVIOUS
    <3> QED
      BY <1>1, <3>1, RequestType DEF Typed
  <2>2. \A k \in 1..Len(calls') : calls'[k].parent \in 0..Len(calls')
    BY <1>1, <1>3, <1>5 DEF SameCalls, Typed
  <2>3. returns' \in Seq(ReturnTo(Len(calls'))) /\ offset' \in 0..Len(calls')
    BY <1>1, <1>5 DEF Typed
  <2>4. fresh' \in Seq(Call) /\ \A k \in 1..Len(fresh') : fresh'[k].parent \in 1..Len(calls')
    BY <1>1, <1>4, <1>5
  <2> QED
    BY <1>1, <1>3, <1>5, <2>1, <2>2, <2>3, <2>4 DEF Typed, Phases
<1>7. ASSUME CallsBackDiffer, Ordered PROVE Ordered'
  <2>1. FirstSteps(tx.steps, calls) /\ \A k \in 1..Len(calls) : calls[k].parent = 0
    BY <1>1, <1>7 DEF Ordered, Later
  <2>2. FirstSteps(tx'.steps, calls')
    BY <1>1, <1>2, <1>3, <2>1, SameKeepsOrder
  <2>3. \A k \in 1..Len(calls') : calls'[k].parent = 0
    BY <1>1, <1>3, <2>1 DEF SameCalls
  <2>4. \A k \in 1..Len(calls) : calls[k].to \in Entry
    <3>1. Roots(calls) = calls
      BY <1>2, <2>1, RootsOfRoots
    <3>2. /\ Len(calls) <= Len(tx.steps) /\ tx.steps \in Seq(Steps)
          /\ \A k \in 1..Len(calls) : calls[k].to = tx.steps[k].to
      BY <2>1, <3>1 DEF FirstSteps, Typed
    <3>3. \A k \in 1..Len(calls) : tx.steps[k] \in Steps
      BY <1>2, <3>2
    <3>4. \A st \in Steps : st.to \in Entry
      BY DEF Steps
    <3> QED
      BY <3>2, <3>3, <3>4
  <2>5. \A k \in 1..Len(fresh') : fresh'[k].to \notin Entry
    BY <1>1, <1>4, <1>7, <2>4 DEF CallsBackDiffer
  <2> QED
    BY <2>2, <2>3, <2>5 DEF Ordered
<1> QED
  BY <1>6, <1>7

\* The calls back join the calls.
LEMMA EnrichChildrenTyped ==
  ASSUME Typed, NEW ok \in BOOLEAN, EnrichChildren(ok)
  PROVE  Typed' /\ (Ordered => Ordered')
<1> DEFINE ds == IF ok THEN Delivered(fresh, <<>>) ELSE fresh
<1>1. /\ phase = "children" /\ Request(ok) /\ calls' = calls \o ds
      /\ phase' \in {"retrace", "queue"}
      /\ UNCHANGED <<answer, tx, returns, err, reverts, walk, at, offset, node>>
  BY DEF EnrichChildren, GoOn
<1>2. /\ calls \in Seq(Call) /\ calls # <<>> /\ Len(calls) \in Nat /\ Len(calls) > 0
      /\ fresh \in Seq(Call) /\ \A k \in 1..Len(fresh) : fresh[k].parent \in 1..Len(calls)
  BY <1>1 DEF Typed
<1>3. ds \in Seq(Call) /\ SameCalls(fresh, ds)
  <2>1. <<>> \in Seq(Call) /\ SameCalls(fresh, fresh)
    BY DEF SameCalls
  <2> QED
    BY <1>2, <2>1, DeliveredFacts
<1> HIDE DEF ds
<1>4. /\ calls' \in Seq(Call) /\ Len(calls') = Len(calls) + Len(ds) /\ Len(ds) \in Nat
      /\ \A k \in 1..Len(calls') : \/ \E j \in 1..Len(calls) : calls'[k] = calls[j]
                                   \/ \E j \in 1..Len(ds) : calls'[k] = ds[j]
  BY <1>1, <1>2, <1>3, CallOfConcat
<1>5. Len(calls') \in Nat /\ Len(calls') >= Len(calls) /\ calls' # <<>>
  BY <1>2, <1>4
<1>6. \A j \in 1..Len(ds) : ds[j].parent \in 1..Len(calls) /\ ds[j].to = fresh[j].to /\ j \in 1..Len(fresh)
  BY <1>2, <1>3 DEF SameCalls
<1>7. Typed'
  <2>1. faults' \in 0..MaxFaults
    BY <1>1, RequestType DEF Typed
  <2>2. \A k \in 1..Len(calls') : calls'[k].parent \in 0..Len(calls')
    <3>1. 0..Len(calls) \subseteq 0..Len(calls') /\ 1..Len(calls) \subseteq 0..Len(calls')
      BY <1>2, <1>5
    <3>2. \A j \in 1..Len(calls) : calls[j].parent \in 0..Len(calls)
      BY DEF Typed
    <3> QED
      BY <1>4, <1>6, <3>1, <3>2
  <2>3. returns' \in Seq(ReturnTo(Len(calls'))) /\ offset' \in 0..Len(calls')
    <3>1. returns \in Seq(ReturnTo(Len(calls))) /\ offset \in 0..Len(calls)
      BY DEF Typed
    <3>2. returns \in Seq(ReturnTo(Len(calls')))
      BY <1>2, <1>5, <3>1, ReturnsGrow
    <3> QED
      BY <1>1, <1>2, <1>5, <3>1, <3>2
  <2> QED
    BY <1>1, <1>4, <1>5, <2>1, <2>2, <2>3 DEF Typed, Phases
<1>8. ASSUME Ordered PROVE Ordered'
  <2>1. /\ FirstSteps(tx.steps, calls) /\ \A k \in 1..Len(calls) : calls[k].parent = 0
        /\ \A k \in 1..Len(fresh) : fresh[k].to \notin Entry
    BY <1>1, <1>8 DEF Ordered, Later
  <2>2. \A j \in 1..Len(ds) : ds[j].parent # 0 /\ ds[j].to \notin Entry
    BY <1>2, <1>6, <2>1
  <2>3. FirstSteps(tx'.steps, calls')
    BY <1>1, <1>2, <1>3, <2>1, <2>2, ChildrenKeepOrder
  <2>4. \A k \in 1..Len(calls') : calls'[k].parent # 0 => calls'[k].to \notin Entry
    BY <1>4, <2>1, <2>2
  <2> QED
    BY <1>1, <2>3, <2>4 DEF Ordered
<1> QED
  BY <1>7, <1>8

\* More calls behind those known: what refers to these stays valid.
LEMMA LongerTyped ==
  ASSUME Typed, NEW more \in Seq(Call), calls' = calls \o more,
         \A k \in 1..Len(more) : more[k].parent \in 0..Len(calls) + Len(more)
  PROVE  /\ calls' \in Seq(Call) /\ Len(calls') = Len(calls) + Len(more)
         /\ Len(calls) \in Nat /\ Len(more) \in Nat /\ (calls # <<>> => calls' # <<>>)
         /\ \A k \in 1..Len(calls') : calls'[k].parent \in 0..Len(calls')
         /\ \A k \in 1..Len(calls') : \/ \E j \in 1..Len(calls) : calls'[k] = calls[j]
                                      \/ \E j \in 1..Len(more) : calls'[k] = more[j]
         /\ returns \in Seq(ReturnTo(Len(calls'))) /\ offset \in 0..Len(calls')
<1>1. /\ calls \in Seq(Call) /\ returns \in Seq(ReturnTo(Len(calls))) /\ offset \in 0..Len(calls)
      /\ \A k \in 1..Len(calls) : calls[k].parent \in 0..Len(calls)
  BY DEF Typed
<1>2. Len(calls) \in Nat /\ Len(more) \in Nat /\ (calls # <<>> => Len(calls) > 0)
  BY <1>1
<1>3. /\ calls' \in Seq(Call) /\ Len(calls') = Len(calls) + Len(more)
      /\ \A k \in 1..Len(calls') : \/ \E j \in 1..Len(calls) : calls'[k] = calls[j]
                                   \/ \E j \in 1..Len(more) : calls'[k] = more[j]
  BY <1>1, CallOfConcat
<1>4. Len(calls') \in Nat /\ Len(calls) <= Len(calls') /\ (calls # <<>> => calls' # <<>>)
  BY <1>2, <1>3
<1>5. 0..Len(calls) \subseteq 0..Len(calls')
  BY <1>2, <1>4
<1>6. \A k \in 1..Len(calls') : calls'[k].parent \in 0..Len(calls')
  BY <1>1, <1>3, <1>5
<1>7. returns \in Seq(ReturnTo(Len(calls')))
  BY <1>1, <1>2, <1>4, ReturnsGrow
<1> QED
  BY <1>1, <1>2, <1>3, <1>4, <1>5, <1>6, <1>7

\* A round of the second loop.
LEMMA RetraceRoundTyped ==
  ASSUME Typed, NEW ok \in BOOLEAN, NEW enriched \in BOOLEAN, RetraceRound(enriched, ok)
  PROVE  Typed' /\ (CallsBackDiffer /\ Ordered => Ordered')
<1> DEFINE seen == IF ok THEN PostBatchTrace ELSE walk
           new == IF ok THEN FilterNewByCount(seen, calls) ELSE <<>>
           before == Retain(calls, {k \in DOMAIN calls : calls[k].parent # 0})
           back == ChildrenOfNew(new)
           ds == IF enriched THEN AnswerNew(new) ELSE new
           ch == IF enriched THEN Delivered(back, before) ELSE <<>>
           more == ds \o ch
<1>1. calls \in Seq(Call) /\ walk \in Seq(Call) /\ tx.steps \in Seq(Steps) /\ Len(calls) \in Nat
  BY DEF Typed
<1>2. seen \in Seq(Call) /\ (ok => IsWalk(tx.steps, seen))
  BY <1>1, WalkFacts DEF PostBatchTrace
<1>3. before \in Seq(Call)
  <2> DEFINE keep == {k \in DOMAIN calls : calls[k].parent # 0}
  <2>1. keep \in SUBSET (1..Len(calls))
    BY <1>1
  <2> HIDE DEF keep
  <2>2. Retain(calls, keep) \in Seq(Call)
    BY <1>1, <2>1, RetainFacts
  <2> QED
    BY <2>2 DEF keep
<1> DEFINE none == <<>>
<1>4. none \in Seq(Call) /\ Len(none) = 0
  OBVIOUS
<1>5. /\ phase = "retrace" /\ Request(ok /\ enriched) /\ walk' = seen
      /\ calls' = calls \o IF enriched THEN AnswerNew(new) \o Delivered(back, before) ELSE new
      /\ phase' \in {"bottomUp", "retrace"}
      /\ UNCHANGED <<answer, tx, returns, err, reverts, offset>>
  BY DEF RetraceRound, GoOn
<1>6. new \in Seq(Call) /\ (ok => new = FilterNewByCount(seen, calls)) /\ (~ok => Len(new) = 0)
  <2>1. ok => FilterNewByCount(seen, calls) \in Seq(Call)
    BY <1>2, NewFacts
  <2> QED
    BY <2>1
<1>7. \A k \in 1..Len(new) : new[k].parent = 0 /\ new[k].to \in Entry
  <2>1. CASE ok
    <3>1. \A k \in 1..Len(new) : \E j \in 1..Len(seen) : new[k] = seen[j]
      <4>1. \A k \in 1..Len(FilterNewByCount(seen, calls)) :
              \E j \in 1..Len(seen) : FilterNewByCount(seen, calls)[k] = seen[j]
        BY <1>2, NewFacts
      <4> HIDE DEF new, seen
      <4> QED
        BY <1>6, <2>1, <4>1
    <3>2. \A j \in 1..Len(seen) : seen[j].parent = 0 /\ seen[j].to \in Entry
      <4>1. Len(seen) <= Len(tx.steps) /\ \A j \in 1..Len(seen) : seen[j].to = tx.steps[j].to /\ seen[j].parent = 0
        BY <1>2, <2>1 DEF IsWalk
      <4>2. Len(seen) \in Nat /\ Len(tx.steps) \in Nat
        BY <1>1, <1>2
      <4>3. \A j \in 1..Len(tx.steps) : tx.steps[j] \in Steps
        BY <1>1
      <4>4. \A st \in Steps : st.to \in Entry
        BY DEF Steps
      <4> HIDE DEF seen
      <4> QED
        BY <4>1, <4>2, <4>3, <4>4
    <3> HIDE DEF new, seen
    <3> QED
      BY <3>1, <3>2
  <2>2. CASE ~ok
    <3> HIDE DEF new
    <3> QED
      BY <1>6, <2>2
  <2> QED
    BY <2>1, <2>2
<1> HIDE DEF seen, new, before
<1>8. /\ back \in Seq(Call) /\ (new = <<>> => back = <<>>)
      /\ \A i \in 1..Len(back) : /\ back[i].parent = Len(calls) + 1
                                 /\ \E k \in 1..Len(new) : back[i].to = Reply[new[k].to] /\ Nested(new[k].to)
  BY <1>1, <1>6, ChildrenOfNewFacts
<1> HIDE DEF back
<1>9. ds \in Seq(Call) /\ SameCalls(new, ds)
  <2>1. SameCalls(new, new)
    BY DEF SameCalls
  <2> QED
    BY <1>1, <1>6, <2>1, AnswerNewFacts
<1>10. /\ ch \in Seq(Call) /\ Len(ch) <= Len(back)
       /\ \A k \in 1..Len(ch) : /\ ch[k].parent = Len(calls) + 1
                                /\ \E j \in 1..Len(new) : ch[k].to = Reply[new[j].to] /\ Nested(new[j].to)
  <2>1. CASE enriched
    <3> DEFINE d == Delivered(back, before)
    <3>1. d \in Seq(Call) /\ SameCalls(back, d)
      BY <1>3, <1>8, DeliveredFacts
    <3>2. ch = d
      BY <2>1
    <3> HIDE DEF d, ch
    <3> QED
      BY <1>8, <3>1, <3>2 DEF SameCalls
  <2>2. CASE ~enriched
    <3>1. ch = none
      BY <2>2
    <3>2. Len(back) \in Nat
      BY <1>8
    <3> HIDE DEF none, ch
    <3> QED
      BY <1>4, <3>1, <3>2
  <2> QED
    BY <2>1, <2>2
<1>11. calls' = calls \o more
  <2>1. CASE enriched
    BY <1>5, <2>1
  <2>2. CASE ~enriched
    <3>1. ds = new /\ ch = <<>>
      BY <2>2
    <3>2. new \o <<>> = new
      BY <1>6
    <3> QED
      BY <1>5, <2>2, <3>1, <3>2
  <2> QED
    BY <2>1, <2>2
<1> HIDE DEF ds, ch
<1>12. /\ more \in Seq(Call) /\ Len(more) = Len(ds) + Len(ch) /\ Len(ds) \in Nat /\ Len(ch) \in Nat
       /\ \A k \in 1..Len(more) : (\E j \in 1..Len(ds) : more[k] = ds[j]) \/ (\E j \in 1..Len(ch) : more[k] = ch[j])
  BY <1>9, <1>10, CallOfConcat
<1> HIDE DEF more
<1>13. \A k \in 1..Len(ds) : ds[k].parent = 0
  BY <1>7, <1>9 DEF SameCalls
<1>14. Len(ch) > 0 => Len(ds) > 0
  <2>1. Len(ch) > 0 => Len(back) > 0
    BY <1>8, <1>10
  <2>2. Len(back) > 0 => new # <<>>
    BY <1>8
  <2>3. new # <<>> => Len(new) > 0
    BY <1>6
  <2> QED
    BY <1>9, <2>1, <2>2, <2>3 DEF SameCalls
<1>15. \A k \in 1..Len(more) : more[k].parent \in 0..Len(calls) + Len(more)
  <2>1. \A j \in 1..Len(ds) : ds[j].parent \in 0..Len(calls) + Len(more)
    BY <1>1, <1>12, <1>13
  <2>2. \A j \in 1..Len(ch) : ch[j].parent \in 0..Len(calls) + Len(more)
    BY <1>1, <1>10, <1>12, <1>14
  <2> QED
    BY <1>12, <2>1, <2>2
<1>16. /\ calls' \in Seq(Call) /\ (calls # <<>> => calls' # <<>>)
       /\ \A k \in 1..Len(calls') : calls'[k].parent \in 0..Len(calls')
       /\ \A k \in 1..Len(calls') : \/ \E j \in 1..Len(calls) : calls'[k] = calls[j]
                                    \/ \E j \in 1..Len(more) : calls'[k] = more[j]
       /\ returns \in Seq(ReturnTo(Len(calls'))) /\ offset \in 0..Len(calls')
  BY <1>11, <1>12, <1>15, LongerTyped
<1>17. Typed'
  <2>1. faults' \in 0..MaxFaults
    BY <1>5, RequestType DEF Typed
  <2> QED
    BY <1>2, <1>5, <1>16, <2>1 DEF Typed, Phases
<1>18. ASSUME CallsBackDiffer, Ordered PROVE Ordered'
  <2>1. FirstSteps(tx.steps, calls) /\ \A k \in 1..Len(calls) : calls[k].parent # 0 => calls[k].to \notin Entry
    BY <1>5, <1>18 DEF Ordered, Later
  <2>2. \A k \in 1..Len(ch) : ch[k].parent # 0 /\ ch[k].to \notin Entry
    <3>1. \A j \in 1..Len(new) : Reply[new[j].to] \notin Entry
      BY <1>7, <1>18 DEF CallsBackDiffer
    <3>2. Len(calls) + 1 # 0
      BY <1>1
    <3> QED
      BY <1>10, <3>1, <3>2
  <2>3. FirstSteps(tx.steps, calls')
    <3>1. CASE ok
      <4>1. SameCalls(FilterNewByCount(seen, calls), ds)
        BY <1>6, <1>9, <3>1
      <4>2. FirstSteps(tx.steps, calls \o (ds \o ch))
        BY <1>1, <1>2, <1>9, <1>10, <2>1, <2>2, <3>1, <4>1, RoundKeepsOrder
      <4> QED
        BY <1>11, <4>2 DEF more
    <3>2. CASE ~ok
      <4>1. Len(ds) = 0 /\ Len(ch) = 0
        BY <1>6, <1>9, <1>12, <1>14, <3>2 DEF SameCalls
      <4>2. more \in Seq(Call) /\ Len(more) = 0
        BY <1>12, <4>1
      <4>3. calls' = calls
        BY <1>1, <1>11, <4>2
      <4> QED
        BY <2>1, <4>3
    <3> QED
      BY <3>1, <3>2
  <2>4. \A k \in 1..Len(more) : more[k].parent # 0 => more[k].to \notin Entry
    BY <1>12, <1>13, <2>2
  <2>5. \A k \in 1..Len(calls') : calls'[k].parent # 0 => calls'[k].to \notin Entry
    BY <1>16, <2>1, <2>4
  <2> QED
    BY <1>5, <2>3, <2>5 DEF Ordered
<1> QED
  BY <1>17, <1>18

\* Steps that only give answers and flags to the calls.
LEMMA SameCallsTyped ==
  ASSUME Typed, calls' \in Seq(Call), SameCalls(calls, calls'), faults' \in 0..MaxFaults,
         UNCHANGED <<tx, err, reverts, walk>>, offset' \in {0, offset},
         returns' \in Seq(ReturnTo(Len(calls))), phase' \in Phases,
         answer' \in {"none", "held", "forwarded"}, (answer' = "none") <=> (phase' # "done"),
         phase' \notin {"children", "idle", "trace"}, phase' = "nested" => fresh' \in Seq(ReturnTo(Len(calls))),
         phase' = "done" \/ calls # <<>>
  PROVE  Typed'
<1>1. Len(calls') = Len(calls) /\ Len(calls) \in Nat /\ (calls # <<>> => calls' # <<>>)
  BY DEF SameCalls, Typed
<1>2. \A k \in 1..Len(calls') : calls'[k].parent \in 0..Len(calls')
  BY <1>1 DEF SameCalls, Typed
<1>3. offset' \in 0..Len(calls')
  BY <1>1 DEF Typed
<1> QED
  BY <1>1, <1>2, <1>3 DEF Typed

\* The calls are simulated with the table, and the builder queues them.
LEMMA BottomUpTyped ==
  ASSUME Typed, NEW ok \in BOOLEAN, NEW out \in Outcomes, BottomUp(ok) \/ QueueExecutionTable(out)
  PROVE  Typed' /\ (Ordered => Ordered')
<1>1. calls \in Seq(Call) /\ walk \in Seq(Call)
  BY DEF Typed
<1>2. calls' \in Seq(Call) /\ SameCalls(calls, calls')
  <2>1. CASE QueueExecutionTable(out)
    <3>1. calls' = WithFlags(calls, walk)
      BY <2>1 DEF QueueExecutionTable
    <3> QED
      BY <1>1, <3>1, FlagsOnly
  <2>2. CASE BottomUp(ok)
    <3>1. \/ calls' = calls \/ calls' = PreEnrich(calls) \/ calls' = SimulateWithTable(PreEnrich(calls))
      BY <2>2 DEF BottomUp
    <3>2. SameCalls(calls, calls)
      BY DEF SameCalls
    <3>3. PreEnrich(calls) \in Seq(Call) /\ SameCalls(calls, PreEnrich(calls))
      BY <1>1, AnswersOnly
    <3>4. /\ SimulateWithTable(PreEnrich(calls)) \in Seq(Call)
          /\ SameCalls(PreEnrich(calls), SimulateWithTable(PreEnrich(calls)))
      BY <3>3, AnswersOnly
    <3>5. SameCalls(calls, SimulateWithTable(PreEnrich(calls)))
      BY <3>3, <3>4 DEF SameCalls
    <3> QED
      BY <1>1, <3>1, <3>2, <3>3, <3>4, <3>5
  <2> QED
    BY <2>1, <2>2
<1>3. /\ phase \in {"bottomUp", "queue"}
      /\ Request(ok) \/ Request(out = "accepted")
      /\ UNCHANGED <<tx, returns, err, reverts, walk, offset, fresh>>
      /\ \/ phase' = "queue" /\ answer' = answer
         \/ phase' = "done" /\ answer' \in {"held", "forwarded"}
  BY DEF BottomUp, QueueExecutionTable, Enqueue, GoOn, End
<1>4. faults' \in 0..MaxFaults
  BY <1>3, RequestType DEF Typed
<1>5. Typed'
  <2>1. answer = "none" /\ calls # <<>> /\ returns' \in Seq(ReturnTo(Len(calls)))
    BY <1>3 DEF Typed
  <2> QED
    BY <1>2, <1>3, <1>4, <2>1, SameCallsTyped DEF Phases
<1>6. ASSUME Ordered PROVE Ordered'
  <2>1. FirstSteps(tx.steps, calls)
    BY <1>3, <1>6 DEF Ordered, Later
  <2>2. FirstSteps(tx'.steps, calls')
    BY <1>1, <1>2, <1>3, <2>1, SameKeepsOrder
  <2> QED
    BY <1>3, <2>2 DEF Ordered
<1> QED
  BY <1>5, <1>6
\* A transaction from L2 is traced once more: the calls it then shows come next.
LEMMA PostDiscoveryTyped ==
  ASSUME Typed, NEW ok \in BOOLEAN, PostDiscoveryRetrace(ok)
  PROVE  Typed' /\ (Ordered => Ordered')
<1> DEFINE seen == WalkTrace(tx, calls)
           new == FilterNewByCount(seen, calls)
           more == IF ok /\ returns # <<>> THEN new ELSE <<>>
<1>1. /\ phase = "postDiscovery" /\ phase' = "route" /\ calls' = calls \o more
      /\ UNCHANGED <<answer, tx, returns, err, reverts, walk, at, offset, fresh, node>>
  BY DEF PostDiscoveryRetrace, GoOn
<1>2. faults' \in 0..MaxFaults
  <2>1. Request(ok)
    BY DEF PostDiscoveryRetrace
  <2> QED
    BY <2>1, RequestType DEF Typed
<1>3. calls \in Seq(Call) /\ calls # <<>> /\ tx.steps \in Seq(Steps) /\ Len(calls) \in Nat
  BY <1>1 DEF Typed
<1>4. seen \in Seq(Call) /\ IsWalk(tx.steps, seen)
  BY <1>3, WalkFacts
<1> HIDE DEF seen
<1>5. new \in Seq(Call) /\ \A k \in 1..Len(new) : new[k].parent = 0
  <2>1. new \in Seq(Call) /\ \A k \in 1..Len(new) : \E j \in 1..Len(seen) : new[k] = seen[j]
    BY <1>4, NewFacts
  <2>2. \A j \in 1..Len(seen) : seen[j].parent = 0
    BY <1>4 DEF IsWalk
  <2> HIDE DEF new
  <2> QED
    BY <2>1, <2>2
<1> HIDE DEF new
<1>6. more \in Seq(Call) /\ \A k \in 1..Len(more) : more[k].parent = 0
  BY <1>5
<1>7. Len(more) \in Nat
  BY <1>6
<1> HIDE DEF more
<1>8. \A k \in 1..Len(more) : more[k].parent \in 0..Len(calls) + Len(more)
  BY <1>3, <1>6, <1>7
<1>9. /\ calls' \in Seq(Call) /\ (calls # <<>> => calls' # <<>>)
      /\ \A k \in 1..Len(calls') : calls'[k].parent \in 0..Len(calls')
      /\ returns \in Seq(ReturnTo(Len(calls'))) /\ offset \in 0..Len(calls')
  BY <1>1, <1>6, <1>8, LongerTyped
<1>10. Typed'
  BY <1>1, <1>2, <1>3, <1>9 DEF Typed, Phases
<1>11. ASSUME Ordered PROVE Ordered'
  <2>1. FirstSteps(tx.steps, calls) /\ \A k \in 1..Len(calls) : calls[k].parent = 0
    BY <1>1, <1>11 DEF Ordered, Later
  <2>2. FirstSteps(tx.steps, calls')
    <3>1. CASE ok /\ returns # <<>>
      <4>1. SameCalls(new, new) /\ <<>> \in Seq(Call) /\ new \o <<>> = new /\ more = new
        BY <1>5, <3>1 DEF SameCalls, more
      <4>2. \A k \in 1..Len(calls) : calls[k].parent # 0 => calls[k].to \notin Entry
        BY <2>1
      <4>3. \A children \in Seq(Call) : (\A k \in 1..Len(children) : children[k].parent # 0) =>
               FirstSteps(tx.steps, calls \o (new \o children))
        BY <1>3, <1>4, <1>5, <2>1, <4>1, <4>2, RoundKeepsOrder DEF new
      <4>4. \A k \in 1..Len(<<>>) : <<>>[k].parent # 0
        OBVIOUS
      <4>5. FirstSteps(tx.steps, calls \o (new \o <<>>))
        BY <4>1, <4>3, <4>4
      <4> QED
        BY <1>1, <4>1, <4>5
    <3>2. CASE ~(ok /\ returns # <<>>)
      <4>1. calls' = calls
        BY <1>1, <1>3, <3>2 DEF more
      <4> QED
        BY <2>1, <4>1
    <3> QED
      BY <3>1, <3>2
  <2> QED
    BY <1>1, <2>2 DEF Ordered
<1> QED
  BY <1>10, <1>11

\* The routes of a transaction from L2: the calls stay, with answers at most.
LEMMA RouteTyped ==
  ASSUME Typed,
         \/ RoutePartialRevert \/ RouteSeveral
         \/ \E ok, chained \in BOOLEAN : RouteDuplicates(ok, chained)
  PROVE  Typed' /\ (Ordered => Ordered')
<1>1. calls \in Seq(Call) /\ returns \in Seq(ReturnTo(Len(calls))) /\ SameCalls(calls, calls)
  BY DEF Typed, SameCalls
<1>2. /\ phase = "route" /\ UNCHANGED <<tx, answer, err, reverts, walk>> /\ offset' \in {0, offset}
      /\ phase' \in {"multi", "deliver", "independent"}
      /\ (faults' = faults \/ \E ok \in BOOLEAN : Request(ok))
  <2>1. CASE RoutePartialRevert \/ RouteSeveral
    BY <2>1 DEF RoutePartialRevert, RouteSeveral, GoOn, found
  <2>2. ASSUME NEW ok \in BOOLEAN, NEW chained \in BOOLEAN, RouteDuplicates(ok, chained)
        PROVE  /\ phase = "route" /\ UNCHANGED <<tx, answer, err, reverts, walk, offset>>
               /\ phase' \in {"multi", "independent"} /\ Request(ok /\ chained)
    BY <2>2 DEF RouteDuplicates, GoOn
  <2>3. \A ok, chained \in BOOLEAN : (ok /\ chained) \in BOOLEAN
    OBVIOUS
  <2> QED
    BY <2>1, <2>2, <2>3
<1>3. faults' \in 0..MaxFaults
  BY <1>2, RequestType DEF Typed
<1>4. /\ calls' \in Seq(Call) /\ SameCalls(calls, calls') /\ returns' \in Seq(ReturnTo(Len(calls)))
  <2>1. CASE RoutePartialRevert \/ RouteSeveral
    BY <1>1, <2>1 DEF RoutePartialRevert, RouteSeveral, found
  <2>2. ASSUME NEW ok \in BOOLEAN, NEW chained \in BOOLEAN, RouteDuplicates(ok, chained)
        PROVE  /\ calls' \in Seq(Call) /\ SameCalls(calls, calls')
               /\ returns' \in Seq(ReturnTo(Len(calls)))
    <3> DEFINE to == calls[1].to
               same == InOrder({k \in DOMAIN calls : calls[k].to = to})
               copies == [i \in DOMAIN same |-> ReturnCall(to, same[i])]
    <3>1. to \in Targets
      <4>1. 1 \in 1..Len(calls)
        BY <1>1, <2>2 DEF RouteDuplicates, Several
      <4>2. calls[1] \in Call
        BY <1>1, <4>1
      <4> QED
        BY <4>2 DEF Call
    <3>2. CASE ok /\ Nested(to)
      <4>1. /\ calls' = calls
            /\ \/ returns' = EnrichReturnCalls(copies)
               \/ returns' = [i \in DOMAIN same |-> EnrichedAlone(copies[i])]
        BY <2>2, <3>2, Zenon DEF RouteDuplicates
      <4> HIDE DEF to
      <4>2. /\ EnrichReturnCalls(copies) \in Seq(ReturnTo(Len(calls)))
            /\ [i \in DOMAIN same |-> EnrichedAlone(copies[i])] \in Seq(ReturnTo(Len(calls)))
        BY <1>1, <3>1, <3>2, CopiesType
      <4> QED
        BY <1>1, <4>1, <4>2
    <3>3. CASE ~(ok /\ Nested(to))
      <4>1. returns' = returns /\ (calls' = DeliveredChained(calls) \/ calls' = DeliveredEach(calls))
        BY <2>2, <3>3, Zenon DEF RouteDuplicates
      <4> QED
        BY <1>1, <4>1, AnswersOnly
    <3> QED
      BY <3>2, <3>3
  <2> QED
    BY <2>1, <2>2
<1>5. Typed'
  <2>1. answer = "none" /\ calls # <<>>
    BY <1>2 DEF Typed
  <2> QED
    BY <1>2, <1>3, <1>4, <2>1, SameCallsTyped DEF Phases
<1>6. ASSUME Ordered PROVE Ordered'
  <2>1. FirstSteps(tx.steps, calls)
    BY <1>2, <1>6 DEF Ordered, Later
  <2>2. FirstSteps(tx'.steps, calls')
    BY <1>1, <1>2, <1>4, <2>1, SameKeepsOrder
  <2> QED
    BY <1>2, <2>2 DEF Ordered
<1> QED
  BY <1>5, <1>6

\* The only call is delivered alone, and what it calls back is linked to it.
LEMMA RouteSingleTyped ==
  ASSUME Typed, NEW ok \in BOOLEAN, RouteSingle(ok)
  PROVE  Typed' /\ (Ordered => Ordered')
<1> DEFINE to == calls[1].to
           back == IF ok THEN Promoted(to) ELSE <<>>
           c == IF ok THEN DeliveredAlone(calls[1]) ELSE [calls[1] EXCEPT !.ret = 0]
<1>1. /\ phase = "route" /\ ~Several /\ Request(ok) /\ calls' = <<c>> /\ returns' = back /\ fresh' = back
      /\ phase' \in {"queue", "nested"} /\ UNCHANGED <<answer, tx, err, reverts, walk, offset, node>>
  BY DEF RouteSingle, GoOn
<1>2. calls \in Seq(Call) /\ Len(calls) = 1 /\ calls[1] \in Call
  <2>1. calls \in Seq(Call) /\ calls # <<>> /\ ~(Len(calls) >= 2)
    BY <1>1 DEF Typed, Several
  <2> DEFINE n == Len(calls)
  <2>2. n \in Nat /\ n # 0 /\ ~(n >= 2)
    BY <2>1
  <2> HIDE DEF n
  <2>3. n = 1
    BY <2>2
  <2>4. Len(calls) = 1
    BY <2>3 DEF n
  <2>5. calls[1] \in Call
    BY <2>1, <2>4
  <2> QED
    BY <2>1, <2>4, <2>5, Zenon
<1>3. c \in Call /\ c.to = calls[1].to /\ c.parent = calls[1].parent
  <2>1. 0 \in Nat /\ Data(to, 1) \in Nat
    BY DataType
  <2>2. c = Answered(calls[1], 0) \/ c = Answered(calls[1], Data(to, 1))
    BY DEF Answered, DeliveredAlone
  <2> HIDE DEF c, to
  <2> QED
    BY <1>2, <2>1, <2>2, WithAnswer
<1>4. to \in Targets
  BY <1>2 DEF Call
<1>5. back \in Seq(ReturnTo(Len(calls)))
  <2>1. Promoted(to) \in Seq(ReturnTo(Len(calls)))
    <3> HIDE DEF to
    <3> QED
      BY <1>2, <1>4, PromotedType
  <2> QED
    BY <2>1
<1> HIDE DEF c, back
<1>6. calls' \in Seq(Call) /\ SameCalls(calls, calls')
  BY <1>1, <1>2, <1>3 DEF SameCalls
<1>7. faults' \in 0..MaxFaults
  BY <1>1, RequestType DEF Typed
<1>8. Typed'
  <2>1. answer = "none" /\ calls # <<>>
    BY <1>1 DEF Typed
  <2> QED
    BY <1>1, <1>5, <1>6, <1>7, <2>1, SameCallsTyped DEF Phases
<1>9. ASSUME Ordered PROVE Ordered'
  <2>1. FirstSteps(tx.steps, calls)
    BY <1>1, <1>9 DEF Ordered, Later
  <2>2. FirstSteps(tx'.steps, calls')
    BY <1>1, <1>2, <1>6, <2>1, SameKeepsOrder
  <2> QED
    BY <1>1, <2>2 DEF Ordered
<1> QED
  BY <1>8, <1>9
\* A part of the calls.
LEMMA PartType ==
  ASSUME NEW E, NEW s \in Seq(E), NEW n \in 0..Len(s)
  PROVE  /\ SubSeq(s, 1, n) \in Seq(E) /\ Len(SubSeq(s, 1, n)) = n
         /\ SubSeq(s, n + 1, Len(s)) \in Seq(E) /\ Len(SubSeq(s, n + 1, Len(s))) = Len(s) - n
         /\ \A k \in 1..n : SubSeq(s, 1, n)[k] = s[k]
         /\ \A k \in 1..Len(s) - n : SubSeq(s, n + 1, Len(s))[k] = s[n + k]
  OBVIOUS

\* Answers for the last calls leave the calls as they are.
LEMMA LastAnswered ==
  ASSUME NEW cs \in Seq(Call), NEW n \in 0..Len(cs), NEW ds \in Seq(Call),
         SameCalls(SubSeq(cs, n + 1, Len(cs)), ds)
  PROVE  SubSeq(cs, 1, n) \o ds \in Seq(Call) /\ SameCalls(cs, SubSeq(cs, 1, n) \o ds)
<1> DEFINE a == SubSeq(cs, 1, n)
           b == SubSeq(cs, n + 1, Len(cs))
           all == a \o ds
<1>1. /\ a \in Seq(Call) /\ Len(a) = n /\ b \in Seq(Call) /\ Len(b) = Len(cs) - n
      /\ Len(cs) \in Nat /\ n \in Nat /\ n <= Len(cs)
      /\ \A k \in 1..n : a[k] = cs[k]
      /\ \A k \in 1..Len(cs) - n : b[k] = cs[n + k]
  BY PartType
<1> HIDE DEF a, b
<1>2. Len(ds) = Len(cs) - n /\ \A k \in 1..Len(cs) - n : ds[k].to = b[k].to /\ ds[k].parent = b[k].parent
  BY <1>1 DEF SameCalls, b
<1>3. /\ all \in Seq(Call) /\ Len(all) = Len(cs)
      /\ \A k \in 1..n : all[k] = a[k]
      /\ \A k \in 1..Len(cs) : k > n => all[k] = ds[k - n]
  BY <1>1, <1>2
<1> HIDE DEF all
<1>4. \A k \in 1..Len(cs) : all[k].to = cs[k].to /\ all[k].parent = cs[k].parent
  <2> TAKE k \in 1..Len(cs)
  <2>1. CASE k <= n
    BY <1>1, <1>3, <2>1
  <2>2. CASE k > n
    <3>1. k - n \in 1..Len(cs) - n /\ n + (k - n) = k
      BY <1>1, <2>2
    <3>2. b[k - n] = cs[k] /\ all[k] = ds[k - n]
      BY <1>1, <1>3, <2>2, <3>1
    <3> QED
      BY <1>2, <3>1, <3>2
  <2> QED
    BY <1>1, <2>1, <2>2
<1> QED
  BY <1>3, <1>4 DEF SameCalls, a, all

\* The current calls are delivered together; what they call back is linked to them.
LEMMA DeliverTyped ==
  ASSUME Typed, NEW ok \in BOOLEAN, Deliver(ok)
  PROVE  Typed' /\ Ordered'
<1> DEFINE cur == SubSeq(calls, offset + 1, Len(calls))
           new == EnrichReturnCalls(SeenFromEach(cur))
<1>1. /\ phase = "deliver" /\ Request(ok) /\ phase' \in {"nested", "multi"}
      /\ UNCHANGED <<answer, tx, err, reverts, walk, offset, node>>
      /\ \/ /\ calls' = SubSeq(calls, 1, offset) \o DeliveredTogether(cur)
            /\ returns' = returns \o new /\ fresh' = new
         \/ UNCHANGED <<calls, returns, fresh>> /\ phase' = "multi"
  BY DEF Deliver, GoOn
<1>2. calls \in Seq(Call) /\ returns \in Seq(ReturnTo(Len(calls))) /\ offset \in 0..Len(calls)
  BY DEF Typed
<1>3. cur \in Seq(Call) /\ Len(cur) = Len(calls) - offset /\ offset \in Nat /\ Len(calls) \in Nat
  <2>1. offset \in Nat /\ Len(calls) \in Nat
    BY <1>2
  <2>2. cur \in Seq(Call) /\ Len(cur) = Len(calls) - offset
    BY <1>2, PartType, Zenon
  <2> QED
    BY <2>1, <2>2
<1>4. DeliveredTogether(cur) \in Seq(Call) /\ SameCalls(cur, DeliveredTogether(cur))
  <2> HIDE DEF cur
  <2> QED
    BY <1>3, AnswersOnly
<1>5. new \in Seq(ReturnTo(Len(calls)))
  <2> HIDE DEF cur
  <2>1. SeenFromEach(cur) \in Seq(ReturnTo(offset + Len(cur)))
    BY <1>3, SeenFromEachType
  <2>2. offset + Len(cur) = Len(calls)
    BY <1>3
  <2> QED
    BY <2>1, <2>2, EnrichReturnsType
<1>6. returns \o new \in Seq(ReturnTo(Len(calls)))
  <2> HIDE DEF new
  <2> QED
    BY <1>2, <1>5, CallOfConcat
<1>7. /\ SubSeq(calls, 1, offset) \o DeliveredTogether(cur) \in Seq(Call)
      /\ SameCalls(calls, SubSeq(calls, 1, offset) \o DeliveredTogether(cur))
  BY <1>2, <1>4, LastAnswered
<1>8. SameCalls(calls, calls)
  BY DEF SameCalls
<1> HIDE DEF new, cur
<1>9. /\ calls' \in Seq(Call) /\ SameCalls(calls, calls') /\ returns' \in Seq(ReturnTo(Len(calls)))
      /\ phase' = "nested" => fresh' \in Seq(ReturnTo(Len(calls)))
  BY <1>1, <1>2, <1>5, <1>6, <1>7, <1>8
<1>10. Typed'
  <2>1. answer = "none" /\ calls # <<>>
    BY <1>1 DEF Typed
  <2>2. faults' \in 0..MaxFaults
    BY <1>1, RequestType DEF Typed
  <2> QED
    BY <1>1, <1>9, <2>1, <2>2, SameCallsTyped DEF Phases
<1> QED
  BY <1>1, <1>10 DEF Ordered, Later

\* The calls that the calls back make are put behind the others.
LEMMA NestedCallsTyped ==
  ASSUME Typed, NEW ok \in BOOLEAN, NestedCalls(ok)
  PROVE  Typed' /\ Ordered'
<1> DEFINE new == IF ok THEN CallsOfReturns(fresh) ELSE <<>>
<1>1. /\ phase = "nested" /\ Request(ok) /\ calls' = calls \o new /\ offset' = Len(calls)
      /\ phase' \in {"deliver", "multi"}
      /\ UNCHANGED <<answer, tx, returns, err, reverts, walk, fresh, node>>
  BY DEF NestedCalls, GoOn
<1>2. fresh \in Seq(ReturnTo(Len(calls))) /\ calls # <<>>
  BY <1>1 DEF Typed
<1>3. new \in Seq(Call) /\ \A k \in 1..Len(new) : new[k].parent = 0
  <2>1. /\ CallsOfReturns(fresh) \in Seq(Call)
        /\ \A k \in 1..Len(CallsOfReturns(fresh)) : CallsOfReturns(fresh)[k].parent = 0
    BY <1>2, CallsOfReturnsType
  <2> QED
    BY <2>1
<1> HIDE DEF new
<1>4. Len(calls) \in Nat /\ Len(new) \in Nat
  BY <1>3 DEF Typed
<1>5. \A k \in 1..Len(new) : new[k].parent \in 0..Len(calls) + Len(new)
  BY <1>3, <1>4
<1>6. /\ calls' \in Seq(Call) /\ Len(calls') = Len(calls) + Len(new) /\ (calls # <<>> => calls' # <<>>)
      /\ \A k \in 1..Len(calls') : calls'[k].parent \in 0..Len(calls')
      /\ returns \in Seq(ReturnTo(Len(calls')))
  BY <1>1, <1>3, <1>5, LongerTyped
<1>7. offset' \in 0..Len(calls')
  BY <1>1, <1>4, <1>6
<1>8. Typed'
  <2>1. faults' \in 0..MaxFaults
    BY <1>1, RequestType DEF Typed
  <2> QED
    BY <1>1, <1>2, <1>6, <1>7, <2>1 DEF Typed, Phases
<1> QED
  BY <1>1, <1>8 DEF Ordered, Later

\* The requests to the builder leave the calls alone.
LEMMA QueueTyped ==
  ASSUME Typed, NEW out \in Outcomes,
         QueueMultiCall(out) \/ QueueFallback(out) \/ QueueSingleCall(out) \/ QueueIndependentCall(out)
  PROVE  Typed' /\ (Ordered => Ordered')
<1>1. /\ phase \in {"multi", "fallback", "queue", "independent"} /\ Request(out = "accepted")
      /\ UNCHANGED <<tx, calls, returns, err, reverts, walk, offset, fresh>>
      /\ \/ phase' = "done" /\ answer' \in {"held", "forwarded"}
         \/ phase' \in {"fallback", "independent"} /\ answer' = answer
      /\ phase' = "independent" => phase = "independent"
  BY DEF QueueMultiCall, QueueFallback, QueueSingleCall, QueueIndependentCall, IndependentCall, Enqueue,
         End, GoOn, found
<1>2. faults' \in 0..MaxFaults
  BY <1>1, RequestType DEF Typed
<1>3. Typed'
  BY <1>1, <1>2 DEF Typed, Phases
<1>4. Ordered => Ordered'
  BY <1>1 DEF Ordered, Later
<1> QED
  BY <1>3, <1>4

\* Every step keeps the types, and the order if calls back are told apart from calls.
LEMMA NextTyped ==
  ASSUME Typed, [Next]_vars
  PROVE  Typed' /\ (CallsBackDiffer /\ Ordered => Ordered')
<1>1. CASE UNCHANGED vars
  BY <1>1, StutterTyped
<1>2. ASSUME NEW t \in Txs, phase = "idle", HandleRequest(t) \/ HandleL2Request(t)
      PROVE  Typed' /\ Ordered'
  BY <1>2, ReceiveTyped
<1>3. ASSUME NEW ok \in BOOLEAN, TraceAndDetectInternalCalls(ok) \/ TraceAndDetectL2InternalCalls(ok)
      PROVE  Typed' /\ (Ordered => Ordered')
  <2>1. PICK next \in {"enrich", "postDiscovery"} : FirstTrace(ok, next)
    BY <1>3 DEF TraceAndDetectInternalCalls, TraceAndDetectL2InternalCalls
  <2> QED
    BY <2>1, FirstTraceTyped
<1>4. ASSUME NEW ok \in BOOLEAN,
             \/ EnrichChildren(ok) \/ BottomUp(ok) \/ PostDiscoveryRetrace(ok)
             \/ RouteSingle(ok) \/ Deliver(ok) \/ NestedCalls(ok)
      PROVE  Typed' /\ (Ordered => Ordered')
  <2>1. "accepted" \in Outcomes
    BY DEF Outcomes
  <2> QED
    BY <1>4, <2>1, EnrichChildrenTyped, BottomUpTyped, PostDiscoveryTyped, RouteSingleTyped, DeliverTyped,
       NestedCallsTyped
<1>5. ASSUME NEW ok \in BOOLEAN, NEW other \in BOOLEAN,
             DiscoverRound(other, ok) \/ RetraceRound(other, ok) \/ RouteDuplicates(ok, other)
      PROVE  Typed' /\ (CallsBackDiffer /\ Ordered => Ordered')
  BY <1>5, DiscoverRoundTyped, RetraceRoundTyped, RouteTyped
<1>6. ASSUME NEW bad \in 0..Len(calls), EnrichCalls(bad)
      PROVE  Typed' /\ (CallsBackDiffer /\ Ordered => Ordered')
  BY <1>6, EnrichCallsTyped
<1>7. CASE RoutePartialRevert \/ RouteSeveral
  BY <1>7, RouteTyped
<1>8. CASE Rest
  BY <1>8, StutterTyped DEF Rest
<1>9. ASSUME NEW out \in Outcomes,
             \/ QueueExecutionTable(out) \/ QueueMultiCall(out) \/ QueueFallback(out)
             \/ QueueSingleCall(out) \/ QueueIndependentCall(out)
      PROVE  Typed' /\ (Ordered => Ordered')
  <2>1. TRUE \in BOOLEAN
    OBVIOUS
  <2> QED
    BY <1>9, <2>1, BottomUpTyped, QueueTyped
<1> QED
  BY <1>1, <1>2, <1>3, <1>4, <1>5, <1>6, <1>7, <1>8, <1>9, Zenon DEF Next

\* TypeOK with the calls as sequences.
LEMMA TypedGivesTypeOK == Typed => TypeOK
<1> SUFFICES ASSUME Typed PROVE TypeOK
  OBVIOUS
<1>1. \A k \in DOMAIN calls : /\ calls[k].to \in Targets /\ calls[k].rev \in BOOLEAN
                              /\ calls[k].ret \in Nat /\ calls[k].parent \in 0..Len(calls)
  <2>1. calls \in Seq(Call) /\ \A k \in 1..Len(calls) : calls[k].parent \in 0..Len(calls)
    BY DEF Typed
  <2>2. DOMAIN calls = 1..Len(calls) /\ \A k \in 1..Len(calls) : calls[k] \in Call
    BY <2>1
  <2> QED
    BY <2>1, <2>2 DEF Call
<1>2. \A k \in DOMAIN returns : returns[k].to \in Targets /\ returns[k].parent \in 0..Len(calls)
  <2>1. returns \in Seq(ReturnTo(Len(calls)))
    BY DEF Typed
  <2>2. \A k \in DOMAIN returns : returns[k] \in ReturnTo(Len(calls))
    BY <2>1
  <2> QED
    BY <2>2 DEF ReturnTo
<1> QED
  BY <1>1, <1>2 DEF TypeOK, Typed, Phases

\* The first steps of the transaction are a prefix of its steps.
LEMMA OrderedGivesPrefix == Typed /\ Ordered => NothingInvented
<1> SUFFICES ASSUME Typed, Ordered, phase \notin Later PROVE NothingInvented
  BY DEF NothingInvented, Later
<1> DEFINE roots == Roots(calls)
           found1 == [k \in DOMAIN roots |-> roots[k].to]
           steps == tx.steps
           made == [k \in DOMAIN steps |-> steps[k].to]
<1>1. /\ Len(roots) <= Len(steps) /\ \A k \in 1..Len(roots) : roots[k].to = steps[k].to
  BY DEF Ordered, FirstSteps
<1>2. roots \in Seq(Call) /\ steps \in Seq(Steps)
  BY RootsFacts DEF Typed
<1> HIDE DEF roots, steps
<1>3. /\ DOMAIN roots = 1..Len(roots) /\ Len(roots) \in Nat
      /\ DOMAIN steps = 1..Len(steps) /\ Len(steps) \in Nat
  BY <1>2
<1>4. \A k \in 1..Len(roots) : roots[k].to \in Targets
  <2>1. \A c \in Call : c.to \in Targets
    BY DEF Call
  <2> QED
    BY <1>2, <2>1
<1>5. \A k \in 1..Len(steps) : steps[k].to \in Targets
  <2>1. \A st \in Steps : st.to \in Entry
    BY DEF Steps
  <2> QED
    BY <1>2, <2>1, ComposerAssumption
<1>6. found1 \in Seq(Targets) /\ Len(found1) = Len(roots) /\ \A k \in 1..Len(roots) : found1[k] = roots[k].to
  <2>1. found1 \in [1..Len(roots) -> Targets]
    BY <1>3, <1>4
  <2>2. \A k \in 1..Len(roots) : found1[k] = roots[k].to
    BY <1>3
  <2> HIDE DEF found1
  <2> QED
    BY <1>3, <2>1, <2>2
<1>7. made \in Seq(Targets) /\ Len(made) = Len(steps) /\ \A k \in 1..Len(steps) : made[k] = steps[k].to
  <2>1. made \in [1..Len(steps) -> Targets]
    BY <1>3, <1>5
  <2>2. \A k \in 1..Len(steps) : made[k] = steps[k].to
    BY <1>3
  <2> HIDE DEF made
  <2> QED
    BY <1>3, <2>1, <2>2
<1> HIDE DEF found1, made
<1>8. IsPrefix(found1, made)
  <2>1. Len(found1) <= Len(made) /\ \A k \in 1..Len(found1) : found1[k] = made[k]
    BY <1>1, <1>3, <1>6, <1>7
  <2>2. SubSeq(found1, 1, Len(found1)) = SubSeq(made, 1, Len(found1))
    BY <1>6, <1>7, <2>1
  <2> QED
    BY <2>1, <2>2 DEF IsPrefix
<1> QED
  BY <1>8 DEF NothingInvented, found1, made, roots, steps

\* TypeOK holds in every run of the composer, for any contracts and bounds: every call back and
\* every return call is linked to a call that was found, or to the transaction, although the
\* loops add calls in rounds, and the handler has answered exactly when it is done.
THEOREM ComposerTypeCorrect == Spec => []TypeOK
<1>1. Init => Typed
  BY InitTyped
<1>2. Typed /\ [Next]_vars => Typed'
  BY NextTyped
<1>3. Typed => TypeOK
  BY TypedGivesTypeOK
<1> QED
  BY <1>1, <1>2, <1>3, PTL DEF Spec

\* NothingInvented holds in every run if no contract that transactions call calls another one of
\* them back: whatever requests fail and however often the transaction is traced again, the
\* calls found before the deliveries are the first ones it makes, each once and in order.
THEOREM CallsInOrder == CallsBackDiffer => (Spec => []NothingInvented)
<1> SUFFICES ASSUME CallsBackDiffer PROVE Spec => []NothingInvented
  OBVIOUS
<1>1. Init => Typed /\ Ordered
  BY InitTyped
<1>2. (Typed /\ Ordered) /\ [Next]_vars => (Typed /\ Ordered)'
  BY NextTyped
<1>3. Typed /\ Ordered => NothingInvented
  BY OrderedGivesPrefix
<1> QED
  BY <1>1, <1>2, <1>3, PTL DEF Spec
=============================================================================
