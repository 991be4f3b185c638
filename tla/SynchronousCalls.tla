--------------------------- MODULE SynchronousCalls ---------------------------
(***************************************************************************)
(* What cross-chain composition promises its users: a transaction and all  *)
(* it does on the other chain happen as one step on each chain, in the     *)
(* order of the block, first on L2 and then on L1, and every answer it was *)
(* given is the one the other chain computes.  How the answers get there,  *)
(* through tables written before the calls run, is not visible.            *)
(***************************************************************************)
EXTENDS Naturals, Sequences

VARIABLES
    plan,     \* the transactions: per chain the calls that take effect and the answers given
    landed,   \* how many have happened on each chain
    effects,  \* the calls that took effect: <<chain, transaction, call>>
    answers   \* what callers were told: <<chain, transaction, call, data>>

vars == <<plan, landed, effects, answers>>

Chains == {"L2", "L1"}

Init == plan = <<>> /\ landed = [c \in Chains |-> 0] /\ effects = {} /\ answers = {}

\* Users decide what they want before anything happens.
Decide == /\ landed["L2"] = 0
          /\ UNCHANGED <<landed, effects, answers>>

\* The next transaction happens on chain c, whole.
Land(c) ==
    LET n == landed[c] + 1
    IN  /\ n <= Len(plan)
        /\ c = "L1" => landed["L2"] = Len(plan)
        /\ landed' = [landed EXCEPT ![c] = n]
        /\ effects' = effects \cup {<<c, n, i>> : i \in plan[n][c].takeEffect}
        /\ answers' = answers \cup {<<c, n>> \o a : a \in plan[n][c].answers}
        /\ UNCHANGED plan

Next == Decide \/ \E c \in Chains : Land(c)

Spec == Init /\ [][Next]_vars
=============================================================================
