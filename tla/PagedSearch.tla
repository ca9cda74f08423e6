----------------------------- MODULE PagedSearch -----------------------------
(***************************************************************************)
(* What a literature search promises its callers, whatever tokens, leases,  *)
(* recoveries and credentials stand behind it: one sequence of results,     *)
(* each going on where the one before it ended, with no item twice, within  *)
(* the limit; and every answer is one of them.                              *)
(***************************************************************************)
EXTENDS Naturals, FiniteSets

CONSTANT Limit      \* of the items of one search

VARIABLES
    handed,         \* the results of the search so far, in the order of their gen
    answers         \* the results that callers were given

searchVars == <<handed, answers>>

SearchInit == handed = {} /\ answers = {}

Seen == UNION {r.items : r \in handed}

\* Results tell whether the search goes on, and the totals up to them.
GoesOn(s, r) == s.more /\ r.gen = s.gen + 1 /\ s.pages <= r.pages

\* One more result, and only after the last of those there are.
HandOut(r) ==
    /\ \A s \in handed : s.gen < r.gen
    /\ \/ handed = {} /\ r.gen = 1
       \/ \E s \in handed : GoesOn(s, r)
    /\ r.items \cap Seen = {}
    /\ r.unique = Cardinality(Seen \cup r.items) /\ r.unique <= Limit
    /\ handed' = handed \cup {r}
    /\ answers' \in {answers, answers \cup {r}}

\* A caller is given a result, for the first time or again.
Give(r) == answers' = answers \cup {r} /\ UNCHANGED handed

SearchNext ==
    \/ \E r \in handed' \ handed : HandOut(r)
    \/ \E r \in handed : Give(r)

SearchSpec == SearchInit /\ [][SearchNext]_searchVars
=============================================================================
