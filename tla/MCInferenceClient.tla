--------------------------- MODULE MCInferenceClient ------------------------
(* Two callers that may choose the same request id, and two sessions. *)
EXTENDS InferenceClient, TLC

Symmetry == Permutations(Caller) \cup Permutations(Sid)
=============================================================================
