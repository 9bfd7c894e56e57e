-------------------------- MODULE MCInferenceEngine -------------------------
(* Small instances of InferenceEngine.                                     *)
EXTENDS InferenceEngine, TLC

CallSymmetry == Permutations(Rid)
Symmetry == Permutations(Pid) \cup Permutations(Rid)
=============================================================================
