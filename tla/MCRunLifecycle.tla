--------------------------- MODULE MCRunLifecycle ---------------------------
(* One submission of the run, and one caller beside the startup reconciliation. *)
EXTENDS RunLifecycle

CONSTANTS s1, startup, c1

MCSubmitters == {s1}
MCCallers == {startup, c1}
=============================================================================
