-------------------------- MODULE MCContinuations --------------------------
(* Flights of several host processes over one literature search chain. *)
EXTENDS Continuations, TLC

Symmetry == Permutations(Flights) \union Permutations(Keys) \union Permutations(Items)
=============================================================================
