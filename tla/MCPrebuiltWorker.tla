-------------------------- MODULE MCPrebuiltWorker --------------------------
(* The prepared-package worker with a few nonces, tokens and requests. *)
EXTENDS PrebuiltWorker, TLC

Symmetry == Permutations(Nonce) \cup Permutations(Token) \cup Permutations(Request)
=============================================================================
