---------------------------- MODULE Continuations ----------------------------
(***************************************************************************)
(* A literature search chain and the continuation tokens that advance it:  *)
(* the continuation store of packages/evidence-service/src/store.ts, every *)
(* method one atomic transaction of the Project's store.json, and the      *)
(* coordinator (coordinator.ts) that calls it, whose awaits between two    *)
(* transactions are the interleavings.                                     *)
(*                                                                         *)
(* One chain is modelled, of one owner: chains share nothing in the store  *)
(* but the credential binding.  A flight is one call in progress, in any   *)
(* of the host processes; Crash ends it anywhere, and any idle flight may  *)
(* be a host that starts and recovers.  The fence's nonce makes it unique, *)
(* as the reservation epoch is: the epoch stands for both.  The provider's *)
(* version, format and credential reference and the credential's epoch are *)
(* one binding, since reserve treats a change of either alike.  A call     *)
(* that joins the same operation in its own process answers with that      *)
(* flight's result and is left out with the refusals: neither writes.      *)
(***************************************************************************)
EXTENDS Naturals, FiniteSets

CONSTANTS Flights,          \* the calls that may be in progress
          Keys,             \* operation keys of literature_continue
          Items,            \* what the provider can return
          MaxChainItems,    \* this.maxChainItems
          MaxPages,         \* bound: pages one call reads
          MaxGenerations,   \* bound: continuations of the chain
          MaxReservations,  \* bound: reservations of one continuation
          MaxRotations,     \* bound: changes of the credential
          MaxCalls,         \* bound: calls that begin
          NoKey             \* no reservation was made

ASSUME ContinuationsAssumption ==
    /\ NoKey \notin Keys
    /\ IsFiniteSet(Items)
    /\ {MaxChainItems, MaxPages, MaxGenerations, MaxReservations, MaxRotations} \subseteq Nat

VARIABLES secret,    \* the configured credential's value
          binding,   \* credentialBindings: its fingerprint and epoch
          chain,     \* the chain's record, {} before it is committed
          cont,      \* the continuations, by generation
          outcomes,  \* the recorded advance outcomes
          flight,    \* the calls in progress
          answers,   \* results returned to callers
          calls      \* how many calls have begun

vars == <<secret, binding, chain, cont, outcomes, flight, answers, calls>>

Generations == 1..MaxGenerations
Secrets == 1..(MaxRotations + 1)

\* A result names its generation, what it returned, the totals it reports
\* and the reservation (or the flight) that made it, for its unique token.
Result(gen, items, pages, unique, more, by) ==
    [gen |-> gen, items |-> items, pages |-> pages, unique |-> unique,
     more |-> more, by |-> by]

NoContinuation ==
    [state |-> "none", credential |-> 0, epoch |-> 0, key |-> NoKey,
     lease |-> FALSE, fresh |-> TRUE, result |-> {}]

Active(credential) ==
    [NoContinuation EXCEPT !.state = "active", !.credential = credential]

Idle == [at |-> "idle", does |-> "none", gen |-> 0, key |-> NoKey,
         secret |-> 0, credential |-> 0, epoch |-> 0,
         seen |-> {}, pages |-> 0, outcome |-> {}]

Init ==
    /\ secret = 1
    /\ binding = [fingerprint |-> 0, epoch |-> 0]
    /\ chain = {}
    /\ cont = [g \in Generations |-> NoContinuation]
    /\ outcomes = {}
    /\ flight = [f \in Flights |-> Idle]
    /\ answers = {}
    /\ calls = 0

The(set) == CHOOSE x \in set : TRUE

Goes(f, at) == flight' = [flight EXCEPT ![f].at = at]
Ends(f) == flight' = [flight EXCEPT ![f] = Idle]

\* A call starts by reading the credential (resolveCredential): the secret is
\* read here and bound in a transaction of its own.
Begin(f, does, g, k) ==
    /\ flight[f].at = "idle"
    /\ calls < MaxCalls
    /\ calls' = calls + 1
    /\ flight' = [flight EXCEPT ![f] =
           [Idle EXCEPT !.at = "resolving", !.does = does, !.gen = g, !.key = k,
                        !.secret = secret]]
    /\ UNCHANGED <<secret, binding, chain, cont, outcomes, answers>>

\* literatureSearch: initialReplay answers a repeated operation.
Search(f) == chain = {} /\ Begin(f, "search", 0, NoKey)

SearchReplay(f) ==
    /\ flight[f].at = "idle"
    /\ chain # {}
    /\ answers' = answers \union {The(chain).result}
    /\ UNCHANGED <<secret, binding, chain, cont, outcomes, flight, calls>>

Continue(f) ==
    \E g \in Generations, k \in Keys :
        cont[g].state # "none" /\ Begin(f, "continue", g, k)

\* A changed binding is not the one the token was issued under.  Mutant
\* BindingIgnored: a resumed token takes whatever credential is configured.
BindingIgnored(g, epoch) == TRUE
SameBinding(g, epoch) == cont[g].credential = epoch

\* bindCredential: a changed fingerprint takes the next epoch.
BindCredential(f) ==
    LET own == flight[f].secret
        epoch == IF binding.fingerprint = own THEN binding.epoch ELSE binding.epoch + 1
        does == flight[f].does
        changed == does = "recover" /\ ~SameBinding(flight[f].gen, epoch)
    IN
    /\ flight[f].at = "resolving"
    /\ binding' = [fingerprint |-> own, epoch |-> epoch]
    /\ flight' = [flight EXCEPT ![f] = [flight[f] EXCEPT
           !.credential = epoch,
           !.at = CASE does = "search" -> "searching"
                    [] does = "continue" -> "reserving"
                    [] changed -> "revoking"
                    [] OTHER -> "holding"]]
    /\ UNCHANGED <<secret, chain, cont, outcomes, answers, calls>>

\* What one call reads of the provider: new items within the chain's limit,
\* in one or several pages, and whether a continuation goes on from there.
Responses(seen, g) ==
    {r \in [items : SUBSET (Items \ seen), pages : 1..MaxPages, more : BOOLEAN] :
        /\ Cardinality(seen \union r.items) <= MaxChainItems
        /\ r.more => Cardinality(seen \union r.items) < MaxChainItems
                     /\ g < MaxGenerations}

\* Mutant CommitsAgain: a search that raced another replaces its chain.
CommitsAgain == FALSE
AlreadyCommitted == chain # {}

\* runInitialSearch and commitInitial: the chain and its first continuation.
CommitInitial(f) ==
    /\ flight[f].at = "searching"
    /\ \E r \in Responses({}, 0) :
           LET result == Result(1, r.items, r.pages, Cardinality(r.items), r.more, f)
               credential == flight[f].credential
           IN IF AlreadyCommitted
              THEN answers' = answers \union {The(chain).result} /\ UNCHANGED <<chain, cont>>
              ELSE /\ chain' = {[pages |-> r.pages, seen |-> r.items, result |-> result,
                                 secret |-> flight[f].secret]}
                   /\ cont' = IF r.more THEN [cont EXCEPT ![1] = Active(credential)] ELSE cont
                   /\ answers' = answers \union {result}
    /\ Ends(f)
    /\ UNCHANGED <<secret, binding, outcomes, calls>>

\* The outcome recorded for the continuation's present reservation.  Mutant
\* OutcomesMissed: it is looked up under the reservation about to be made.
OutcomesMissed(g) ==
    {o \in outcomes : o.gen = g /\ o.epoch = cont[g].epoch + 1 /\ o.key = cont[g].key}

OutcomesOf(g) ==
    {o \in outcomes : o.gen = g /\ o.epoch = cont[g].epoch /\ o.key = cont[g].key}

\* assertReservation and assertOutcomeMatches: the state and the fence.  Mutants
\* HoldsUnchecked, MatchesByKey: without the check; by the operation key alone.
HoldsUnchecked(f, state) == state # "none"

Holds(f, state) ==
    LET c == cont[flight[f].gen] IN
    c.state = state /\ c.epoch = flight[f].epoch /\ c.key = flight[f].key

MatchesByKey(o) ==
    cont[o.gen].state = "dispatched-unknown" /\ cont[o.gen].key = o.key

Matches(o) ==
    LET c == cont[o.gen] IN
    /\ c.state = "dispatched-unknown"
    /\ c.epoch = o.epoch
    /\ c.key = o.key
    /\ c.credential = o.credential

\* consumeOutcomeInState: the chain moves on, the token is spent with its exact
\* result and its successor appears.
\* Mutant SeenAnew: only the newest items are remembered.
SeenAnew(o) == o.result.items
SeenWith(o) == The(chain).seen \union o.result.items

Consumed(o) ==
    /\ chain' = {[The(chain) EXCEPT !.pages = @ + o.pages, !.seen = SeenWith(o)]}
    /\ cont' = [g \in Generations |->
           IF g = o.gen
           THEN [cont[g] EXCEPT !.state = "consumed", !.result = {o.result}]
           ELSE IF g = o.gen + 1 /\ o.result.more
           THEN Active(cont[o.gen].credential)
           ELSE cont[g]]

\* newReservation, for the operation key that holds it from now on.
Reserved(f, g, k) ==
    /\ cont[g].epoch < MaxReservations
    /\ cont' = [cont EXCEPT ![g] =
           [cont[g] EXCEPT !.state = "reserved", !.epoch = @ + 1, !.key = k, !.lease = TRUE]]
    /\ flight' = [flight EXCEPT ![f] =
           [flight[f] EXCEPT !.gen = g, !.key = k, !.epoch = cont[g].epoch + 1,
                     !.at = IF @ = "pending" THEN "resolving" ELSE "holding",
                     !.secret = IF flight[f].at = "pending" THEN secret ELSE @]]

\* reserve's checks in their order; the first that applies decides.
ReservationCase(f) ==
    LET g == flight[f].gen
        c == cont[g]
    IN IF ~c.fresh /\ c.state # "consumed" THEN "expire"
       ELSE IF ~SameBinding(g, flight[f].credential) THEN "revoke"
       ELSE IF c.state = "consumed" THEN "replay"
       ELSE IF c.state \in {"expired", "revoked"} THEN "refuse"
       ELSE IF c.state = "dispatched-unknown" /\ OutcomesOf(g) # {} THEN "settle"
       ELSE IF c.state \in {"reserved", "dispatched-unknown"} /\ c.lease THEN "refuse"
       ELSE IF c.state = "dispatched-unknown" THEN "take over"
       ELSE "take"

ReserveRefused(f) ==
    LET state == CASE ReservationCase(f) = "expire" -> "expired"
                   [] ReservationCase(f) = "revoke" -> "revoked"
                   [] OTHER -> cont[flight[f].gen].state
    IN
    /\ flight[f].at = "reserving"
    /\ ReservationCase(f) \in {"expire", "revoke", "refuse"}
    /\ cont' = [cont EXCEPT ![flight[f].gen].state = state]
    /\ Ends(f)
    /\ UNCHANGED <<secret, binding, chain, outcomes, answers, calls>>

ReserveReplayed(f) ==
    /\ flight[f].at = "reserving"
    /\ \/ /\ ReservationCase(f) = "replay"
          /\ answers' = answers \union cont[flight[f].gen].result
          /\ UNCHANGED <<chain, cont>>
       \/ /\ ReservationCase(f) = "settle"
          /\ Consumed(The(OutcomesOf(flight[f].gen)))
          /\ answers' = answers \union {The(OutcomesOf(flight[f].gen)).result}
    /\ Ends(f)
    /\ UNCHANGED <<secret, binding, outcomes, calls>>

\* An expired holder that may have reached the provider keeps its operation key.
ReserveTaken(f) ==
    LET g == flight[f].gen IN
    /\ flight[f].at = "reserving"
    /\ \/ ReservationCase(f) = "take" /\ Reserved(f, g, flight[f].key)
       \/ ReservationCase(f) = "take over" /\ Reserved(f, g, cont[g].key)
    /\ UNCHANGED <<secret, binding, chain, outcomes, answers, calls>>

MarkDispatched(f) ==
    /\ flight[f].at = "holding"
    /\ IF Holds(f, "reserved")
       THEN /\ cont' = [cont EXCEPT ![flight[f].gen].state = "dispatched-unknown"]
            /\ Goes(f, "dispatched")
       ELSE Ends(f) /\ UNCHANGED cont
    /\ UNCHANGED <<secret, binding, chain, outcomes, answers, calls>>

\* markDispatched could not write: releaseUndispatched.
ReleaseUndispatched(f) ==
    /\ flight[f].at = "holding"
    /\ cont' = IF Holds(f, "reserved")
               THEN [cont EXCEPT ![flight[f].gen] =
                        [cont[flight[f].gen] EXCEPT !.state = "active", !.key = NoKey, !.lease = FALSE]]
               ELSE cont
    /\ Ends(f)
    /\ UNCHANGED <<secret, binding, chain, outcomes, answers, calls>>

\* The sealed upstream state cannot be opened.
OpenFails(f) ==
    /\ flight[f].at = "holding"
    /\ Goes(f, "revoking")
    /\ UNCHANGED <<secret, binding, chain, cont, outcomes, answers, calls>>

ReadChain(f) ==
    /\ flight[f].at = "dispatched"
    /\ flight' = [flight EXCEPT ![f] =
           [flight[f] EXCEPT !.at = "reading", !.seen = The(chain).seen, !.pages = The(chain).pages]]
    /\ UNCHANGED <<secret, binding, chain, cont, outcomes, answers, calls>>

\* advancePages and the outcome built from it, over the chain as it was read.
Respond(f) ==
    LET me == flight[f] IN
    /\ me.at = "reading"
    /\ \E r \in Responses(me.seen, me.gen) :
           LET result == Result(me.gen + 1, r.items, me.pages + r.pages,
                                Cardinality(me.seen) + Cardinality(r.items), r.more, me.epoch)
               outcome == [gen |-> me.gen, epoch |-> me.epoch, key |-> me.key,
                           credential |-> cont[me.gen].credential,
                           pages |-> r.pages, result |-> result]
           IN flight' = [flight EXCEPT ![f] =
                  [flight[f] EXCEPT !.at = "responded", !.seen = {}, !.pages = 0, !.outcome = {outcome}]]
    /\ UNCHANGED <<secret, binding, chain, cont, outcomes, answers, calls>>

\* LITERATURE_PAGINATION_STALLED revokes; any other failure leaves the
\* continuation dispatched, for a later call or a start to take over.
ProviderFails(f) ==
    /\ flight[f].at = "reading"
    /\ Goes(f, "revoking") \/ Ends(f)
    /\ UNCHANGED <<secret, binding, chain, cont, outcomes, answers, calls>>

\* revoke names the continuation, not the reservation.
Revoke(f) ==
    LET g == flight[f].gen IN
    /\ flight[f].at = "revoking"
    /\ cont' = IF cont[g].state = "consumed" THEN cont
               ELSE [cont EXCEPT ![g].state = "revoked"]
    /\ Ends(f)
    /\ UNCHANGED <<secret, binding, chain, outcomes, answers, calls>>

RecordOutcome(f) ==
    LET o == The(flight[f].outcome) IN
    /\ flight[f].at = "responded"
    /\ IF Matches(o) THEN outcomes' = outcomes \union {o} /\ Goes(f, "recorded")
       ELSE Ends(f) /\ UNCHANGED outcomes
    /\ UNCHANGED <<secret, binding, chain, cont, answers, calls>>

ConsumeOutcome(f) ==
    LET o == The(flight[f].outcome)
        c == cont[o.gen]
    IN
    /\ flight[f].at = "recorded"
    /\ IF c.state = "consumed"
       THEN answers' = answers \union c.result /\ UNCHANGED <<chain, cont>>
       ELSE IF Matches(o)
       THEN Consumed(o) /\ answers' = answers \union {o.result}
       ELSE UNCHANGED <<chain, cont, answers>>
    /\ Ends(f)
    /\ UNCHANGED <<secret, binding, outcomes, calls>>

\* recover: the recorded outcomes are consumed, the rest is replayed.
Unresolved == {g \in Generations : cont[g].state = "dispatched-unknown"}

RecoverOutcome(f) ==
    \E g \in Unresolved :
        /\ flight[f].at = "idle"
        /\ OutcomesOf(g) # {}
        /\ Consumed(The(OutcomesOf(g)))
        /\ UNCHANGED <<secret, binding, outcomes, flight, answers, calls>>

RecoverPending(f) ==
    \E g \in Unresolved :
        /\ flight[f].at = "idle"
        /\ calls < MaxCalls
        /\ calls' = calls + 1
        /\ OutcomesOf(g) = {}
        /\ flight' = [flight EXCEPT ![f] =
               [flight[f] EXCEPT !.at = "pending", !.does = "recover", !.gen = g]]
        /\ UNCHANGED <<secret, binding, chain, cont, outcomes, answers>>

\* reserveRecovery, forced as every start forces it: the lease is not asked.
ReserveRecovery(f) ==
    LET g == flight[f].gen IN
    /\ flight[f].at = "pending"
    /\ IF g \notin Unresolved \/ OutcomesOf(g) # {}
       THEN Ends(f) /\ UNCHANGED cont
       ELSE IF ~cont[g].fresh
       THEN Ends(f) /\ cont' = [cont EXCEPT ![g].state = "expired"]
       ELSE Reserved(f, g, cont[g].key)
    /\ UNCHANGED <<secret, binding, chain, outcomes, answers, calls>>

\* The process of a flight dies, or its transaction cannot be written.
Crash(f) ==
    /\ flight[f].at # "idle"
    /\ Ends(f)
    /\ UNCHANGED <<secret, binding, chain, cont, outcomes, answers, calls>>

\* Time: a lease runs out, a token outlives its TTL.
LeaseEnds(g) ==
    /\ cont[g].state \in {"reserved", "dispatched-unknown"} /\ cont[g].lease
    /\ cont' = [cont EXCEPT ![g].lease = FALSE]
    /\ UNCHANGED <<secret, binding, chain, outcomes, flight, answers, calls>>

TokenExpires(g) ==
    /\ cont[g].state # "none"
    /\ cont[g].fresh
    /\ cont' = [cont EXCEPT ![g].fresh = FALSE]
    /\ UNCHANGED <<secret, binding, chain, outcomes, flight, answers, calls>>

Rotate ==
    /\ secret <= MaxRotations
    /\ secret' = secret + 1
    /\ UNCHANGED <<binding, chain, cont, outcomes, flight, answers, calls>>

Step(f) ==
    \/ Search(f) \/ SearchReplay(f) \/ Continue(f) \/ BindCredential(f) \/ CommitInitial(f)
    \/ ReserveRefused(f) \/ ReserveReplayed(f) \/ ReserveTaken(f)
    \/ MarkDispatched(f) \/ ReleaseUndispatched(f) \/ OpenFails(f)
    \/ ReadChain(f) \/ Respond(f) \/ ProviderFails(f) \/ Revoke(f)
    \/ RecordOutcome(f) \/ ConsumeOutcome(f)
    \/ RecoverOutcome(f) \/ RecoverPending(f) \/ ReserveRecovery(f) \/ Crash(f)

Next ==
    \/ \E f \in Flights : Step(f)
    \/ \E g \in Generations : LeaseEnds(g) \/ TokenExpires(g)
    \/ Rotate

Spec == Init /\ [][Next]_vars

-----------------------------------------------------------------------------
ResultType ==
    [gen : 1..(MaxGenerations + 1), items : SUBSET Items, pages : Nat, unique : Nat,
     more : BOOLEAN, by : Flights \union (1..MaxReservations)]

\* Every record has its fields; a spent token has its one exact result and a
\* reserved one the key of the operation that holds it.
TypeOK ==
    /\ secret \in Secrets
    /\ binding.fingerprint \in {0} \union Secrets
    /\ binding.epoch \in Nat
    /\ Cardinality(chain) <= 1
    /\ answers \subseteq ResultType
    /\ \A g \in Generations :
           /\ cont[g].state \in {"none", "active", "reserved", "dispatched-unknown",
                                 "consumed", "expired", "revoked"}
           /\ cont[g].result \subseteq ResultType
           /\ cont[g].state = "consumed" => Cardinality(cont[g].result) = 1
           /\ cont[g].state \in {"reserved", "dispatched-unknown"} => cont[g].key \in Keys
    /\ \A o \in outcomes : o.gen \in Generations /\ o.result \in ResultType

\* However often a search or a continuation is called, retried, taken over or
\* recovered, all its callers are given the same result.
OneAnswer ==
    \A a, b \in answers : a.gen = b.gen => a = b

\* What the chain has handed out (the results that spent its tokens).
Handed == (UNION {cont[g].result : g \in Generations}) \union {c.result : c \in chain}

\* Over the whole chain no item is returned twice, the newest result reports
\* the totals the chain has, and the chain's limit holds (coordinator.ts reads
\* the chain long before the outcome built on it is consumed).
ItemsReturnedOnce ==
    \A c \in chain :
        /\ \A r, s \in Handed : r.gen # s.gen => r.items \intersect s.items = {}
        /\ \E r \in Handed : r.pages = c.pages /\ r.unique = Cardinality(c.seen)
        /\ Cardinality(c.seen) <= MaxChainItems

\* A response that arrives under a superseded reservation is never what the
\* token is spent on.
LateResponsesAreRejected ==
    \A g \in Generations : \A r \in cont[g].result : r.by = cont[g].epoch

\* The provider is asked to go on only with the credential the chain was
\* issued under.
AsksWithIssuingCredential ==
    \A f \in Flights, c \in chain :
        flight[f].at \in {"dispatched", "reading", "responded", "recorded"} =>
            flight[f].secret = c.secret

\* Once an outcome of a continuation is recorded, only requests that were superseded
\* before it may still be under way (coordinator.ts asks page after page without looking
\* at its reservation): the reservation that has its outcome asks for no more, and no
\* retry, takeover or recovery asks for the continuation anew.
OnlySupersededAskAfterOutcome ==
    \A f \in Flights, o \in outcomes :
        flight[f].at \in {"dispatched", "reading"} /\ flight[f].gen = o.gen =>
            flight[f].epoch < o.epoch

\* The tokens, reservations, outcomes and recoveries implement one search whose
\* results follow one another and are given as they are.
Paged == INSTANCE PagedSearch WITH Limit <- MaxChainItems, handed <- Handed

RefinesSearch == Paged!SearchSpec
=============================================================================
