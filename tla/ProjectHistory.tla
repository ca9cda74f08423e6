--------------------------- MODULE ProjectHistory ---------------------------
(***************************************************************************)
(* What a Project promises its callers, whatever files keep it: one         *)
(* history of events that only grows, one event at a time; callers are      *)
(* handed the history as it is; and a commit extends either the history its *)
(* caller validated, or the history under a lease that excludes the others. *)
(***************************************************************************)
EXTENDS Naturals, Sequences

CONSTANTS
    Clients,    \* callers of the store: tool handlers, services, child roles
    Events,     \* identities (digests) of events
    Unknown,    \* what a caller that has loaded nothing knows
    Nobody      \* no caller holds the mutation lease

VARIABLES
    history,    \* the committed events, oldest first
    known,      \* known[c]: the history the store last handed to c
    lease       \* the caller that holds the mutation lease

historyVars == <<history, known, lease>>

HInit ==
    /\ history = <<>>
    /\ known = [c \in Clients |-> Unknown]
    /\ lease = Nobody

WithoutLease(cs) == IF lease \in cs THEN Nobody ELSE lease

\* A call returns: its caller is handed the current history.
Return(c) ==
    /\ history # <<>>
    /\ known' = [known EXCEPT ![c] = history]
    /\ lease' = WithoutLease({c})
    /\ UNCHANGED history

TakeLease(c) ==
    /\ lease = Nobody
    /\ lease' = c
    /\ UNCHANGED <<history, known>>

\* A call under the lease fails.
DropLease(c) ==
    /\ lease = c
    /\ lease' = Nobody
    /\ UNCHANGED <<history, known>>

\* One event more, and every earlier one unchanged.
Grows ==
    /\ Len(history') = Len(history) + 1
    /\ \A i \in 1..Len(history) : history'[i] = history[i]
    /\ history'[Len(history')] \in Events
    /\ UNCHANGED <<known, lease>>

\* The first event creates the Project.
Begin == history = <<>> /\ Grows

\* Compare-and-swap: the caller's validated history is the current one.
Extend(c) == history # <<>> /\ lease = Nobody /\ known[c] = history /\ Grows

\* The holder of the lease reads, decides and commits in one step.
ExtendUnderLease == history # <<>> /\ lease # Nobody /\ Grows

\* A crash makes some callers forget what they knew; the history stays.
Forget(cs) ==
    /\ known' = [c \in Clients |-> IF c \in cs THEN Unknown ELSE known[c]]
    /\ lease' = WithoutLease(cs)
    /\ UNCHANGED history

HNext ==
    \/ Begin \/ ExtendUnderLease
    \/ \E c \in Clients : Return(c) \/ TakeLease(c) \/ DropLease(c) \/ Extend(c)
    \/ \E cs \in SUBSET Clients : Forget(cs)

HSpec == HInit /\ [][HNext]_historyVars
=============================================================================
