---------------------------- MODULE MCOperations ----------------------------
(* Two calls in one process and one in another, two request digests. *)
EXTENDS Operations

CONSTANTS p1, p2, c1, c2, c3

MCProcs == {p1, p2}
MCClients == {c1, c2, c3}
MCProcOf == [c \in MCClients |-> IF c = c3 THEN p2 ELSE p1]
=============================================================================
