--------------------------- MODULE MCInstallation ---------------------------
(* Installers, a Host and a user over one DSH home. *)
EXTENDS Installation, TLC

Symmetry == Permutations(Callers)
=============================================================================
