---------------------------- MODULE MCCallQueues ----------------------------
(* Small instances of CallQueues for TLC. *)
EXTENDS CallQueues

CONSTANTS s1, k1, k2, w1, d1

\* Two continuations of different price, and entries in groups of one and two.
MCPrice ==
  [c \in Incoming \cup Direct |-> IF c = k2 THEN 3 ELSE IF c = k1 THEN 2 ELSE 1]
MCL1Count == [c \in Calls |-> IF c \in Simple THEN 1 ELSE 2]
=============================================================================
