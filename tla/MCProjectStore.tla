-------------------------- MODULE MCProjectStore --------------------------
(* Two processes, one of them with two concurrent callers. *)
EXTENDS ProjectStore, TLC

CONSTANTS p1, p2, c1, c2, c3

MCProcs == {p1, p2}
MCThreeClients == {c1, c2, c3}
\* c1 and c2 share a process; c3 lives in the other one.
MCProcOfThree == [c \in MCThreeClients |-> IF c = c3 THEN p2 ELSE p1]
\* Callers of one process are interchangeable.
SameProcess == Permutations({c1, c2})
=============================================================================
