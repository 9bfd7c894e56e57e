-------------------------- MODULE MCCompatScheduler -------------------------
(* A small instance of CompatScheduler: three queues, a window of one call *)
(* with one reserve.                                                       *)
EXTENDS CompatScheduler, TLC

MCQuanta == << 1, 1, 2 >>
MCInner == << 1, 3 >>

Symmetry == Permutations(Pid) \cup Permutations(Rid \ Foreign)
=============================================================================
