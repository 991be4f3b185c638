---------------------------- MODULE MCEntryQueue ----------------------------
(* TLC instance of EntryQueue: three composer tasks, batches of two. *)
EXTENDS EntryQueue, TLC

CONSTANTS t1, t2, t3

MCTask == {t1, t2, t3}
Symm == Permutations(MCTask)
=============================================================================
