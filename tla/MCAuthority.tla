---------------------------- MODULE MCAuthority ----------------------------
(* Evidence and results, reviewers, a coordinator and a writer. *)
EXTENDS Authority, TLC

Symmetry == Permutations(Evidence)
=============================================================================
