--------------------------- MODULE MCSGLangBackend --------------------------
(* A small instance of SGLangBackend.                                      *)
EXTENDS SGLangBackend, TLC

Symmetry == Permutations(Rid)
=============================================================================
