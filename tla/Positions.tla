------------------------------ MODULE Positions ------------------------------
(***************************************************************************)
(* Filters of a sequence by position: what a retain or a filter keeps, in  *)
(* its old order.  SelectSeq takes an operator, of which the provers know  *)
(* nothing; a set of positions can be reasoned about.                      *)
(***************************************************************************)
EXTENDS Integers, FiniteSets

\* The k-th smallest member of a set of numbers.
Nth(S, k) == CHOOSE n \in S : Cardinality({m \in S : m < n}) = k - 1

\* The members of a set of numbers from the smallest on.
InOrder(S) == [k \in 1 .. Cardinality(S) |-> Nth(S, k)]

\* Vec::retain: what is at the positions in `keep`, in order.
Retain(s, keep) == [k \in 1 .. Cardinality(keep) |-> s[Nth(keep, k)]]
=============================================================================
