------------------------ MODULE IdempotentOperation ------------------------
(***************************************************************************)
(* What an operation key promises, whatever records, locks and recoveries   *)
(* stand behind it: the key belongs to the first request made under it, the *)
(* operation never takes effect where its effect stands, nor once somebody  *)
(* was answered, and whoever is given a result is given the same one, for   *)
(* that request, after the effect.  The effect is not the operation's own   *)
(* for good: others may undo it, or bring it about themselves.              *)
(***************************************************************************)
EXTENDS Naturals

CONSTANTS
    Requests,   \* digests of what may be asked under the key
    Results,    \* what the operation may return
    Nothing     \* no request has the key yet

VARIABLES
    bound,      \* the request the key belongs to
    applied,    \* how often the operation took effect
    stands,     \* whether its effect stands now
    ready,      \* its result is at hand: kept, or in a caller's hands
    answers     \* every result given, with the request it was given for

onceVars == <<bound, applied, stands, ready, answers>>

OnceInit == bound = Nothing /\ applied = 0 /\ ~stands /\ ~ready /\ answers = {}

\* The first request takes the key, for good.
Bind(d) ==
    /\ bound = Nothing
    /\ bound' = d
    /\ UNCHANGED <<applied, stands, ready, answers>>

\* The effect: the result may be lost on the way, to a crash or to a failed write.
Apply ==
    /\ bound # Nothing /\ ~stands /\ answers = {}
    /\ applied' = applied + 1 /\ stands' = TRUE /\ ready' \in {ready, TRUE}
    /\ UNCHANGED <<bound, answers>>

\* The effect is there already, whoever brought it about.
Find ==
    /\ bound # Nothing /\ stands /\ answers = {}
    /\ ready' = TRUE
    /\ UNCHANGED <<bound, applied, stands, answers>>

Lose ==
    /\ answers = {}
    /\ ready' = FALSE
    /\ UNCHANGED <<bound, applied, stands, answers>>

\* Other operations undo the effect, or bring it about.
Others ==
    /\ stands' \in BOOLEAN
    /\ UNCHANGED <<bound, applied, ready, answers>>

\* A caller is given the result: the one given before, if there is one.
Answer(a) ==
    /\ ready /\ a.digest = bound
    /\ answers \subseteq {a}
    /\ answers' = {a}
    /\ UNCHANGED <<bound, applied, stands, ready>>

OnceNext ==
    \/ Apply \/ Find \/ Lose \/ Others
    \/ \E d \in Requests : Bind(d)
    \/ \E a \in [digest : Requests, result : Results] : Answer(a)

OnceSpec == OnceInit /\ [][OnceNext]_onceVars
=============================================================================
