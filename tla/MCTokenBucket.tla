--------------------------- MODULE MCTokenBucket ---------------------------
(***************************************************************************)
(* Model values and symmetry for the TLC runs of TokenBucket.              *)
(***************************************************************************)
EXTENDS TokenBucket, TLC

BackendSymmetry == Permutations(Backends)
============================================================================
