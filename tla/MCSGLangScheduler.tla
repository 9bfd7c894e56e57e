--------------------------- MODULE MCSGLangScheduler ------------------------
(* Four calls on a device that holds the KV of two of them for a while. *)
EXTENDS SGLangScheduler

MCQuanta == << 1 >>
MCInner == << >>
Symmetry == Permutations(Rid)
=============================================================================
