----------------------------- MODULE MCPaperPlan ----------------------------
(* Four calls on a device that holds the KV of one or two of them. *)
EXTENDS PaperPlan

MCQuanta == << 1 >>
MCInner == << >>
Symmetry == Permutations(Rid)
=============================================================================
