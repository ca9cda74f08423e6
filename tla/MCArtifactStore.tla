-------------------------- MODULE MCArtifactStore --------------------------
(* Two contents; the calls are interchangeable, and so are the contents. *)
EXTENDS ArtifactStore, TLC

CONSTANTS a, b, d1, d2

Alike == Permutations(Workers) \cup Permutations(Digests)
=============================================================================
