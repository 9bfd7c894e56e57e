---------------------------- MODULE MCSharedTable ---------------------------
(* A small instance of SharedTable.                                        *)
EXTENDS SharedTable, TLC

Symmetry == Permutations(Pid) \cup Permutations(Rid)
=============================================================================
