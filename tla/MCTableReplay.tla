---------------------------- MODULE MCTableReplay ----------------------------
EXTENDS TableReplay

\* Targets are only compared for equality.
Symmetry == Permutations(Targets)
=============================================================================
