------------------------ MODULE ContinuationsProofs ------------------------
(***************************************************************************)
(* Proofs about Continuations, for any calls, keys, items and bounds.  At  *)
(* most one continuation of a chain is issued and not yet spent, and only  *)
(* spending it changes the chain: so whatever a call reads of the chain    *)
(* while its continuation is unspent is still what the chain says.         *)
(***************************************************************************)
EXTENDS Continuations, FiniteSetTheorems, TLAPS

-----------------------------------------------------------------------------
(* Types *)

States == {"none", "active", "reserved", "dispatched-unknown", "consumed", "expired", "revoked"}
Final == {"consumed", "expired", "revoked"}

ChainRecords == [pages : Nat, seen : SUBSET Items, result : ResultType, secret : Nat]

ContRecords == [state : States, credential : Nat, epoch : 0..MaxReservations,
                key : Keys \cup {NoKey}, lease : BOOLEAN, fresh : BOOLEAN,
                result : SUBSET ResultType]

OutcomeRecords == [gen : Generations, epoch : 1..MaxReservations, key : Keys,
                   credential : Nat, pages : Nat, result : ResultType]

Places == {"idle", "resolving", "searching", "reserving", "pending", "holding", "dispatched",
           "reading", "responded", "recorded", "revoking"}

FlightRecords == [at : Places, does : {"none", "search", "continue", "recover"},
                  gen : {0} \cup Generations, key : Keys \cup {NoKey}, secret : Nat,
                  credential : Nat, epoch : 0..MaxReservations, seen : SUBSET Items,
                  pages : Nat, outcome : SUBSET OutcomeRecords]

Typed ==
    /\ secret \in Secrets
    /\ binding \in [fingerprint : {0} \cup Secrets, epoch : Nat]
    /\ \/ chain = {}
       \/ \E c \in ChainRecords : chain = {c}
    /\ cont \in [Generations -> ContRecords]
    /\ outcomes \subseteq OutcomeRecords
    /\ flight \in [Flights -> FlightRecords]
    /\ answers \subseteq ResultType

-----------------------------------------------------------------------------
(* The inductive invariant *)

\* A continuation that was issued, and one whose token is spent.
Issued(g) == cont[g].state # "none"
Spent(g) == cont[g].result # {}

\* The continuations follow one another, and a spent one has one result.
ContOK ==
    /\ \A g \in Generations :
           /\ ~Issued(g) => cont[g] = NoContinuation
           /\ Issued(g) => chain # {}
           /\ Spent(g) => cont[g].state \in Final
           /\ cont[g].state = "consumed" => Spent(g)
           /\ \A r, s \in cont[g].result : r = s
           /\ \A r \in cont[g].result : r.gen = g + 1 /\ r.by = cont[g].epoch
           /\ cont[g].state \in {"reserved", "dispatched-unknown"} =>
                  cont[g].key \in Keys /\ cont[g].epoch > 0
    /\ \A g, h \in Generations : Issued(g) /\ ~Spent(g) /\ Issued(h) /\ ~Spent(h) => g = h
    /\ \A g \in Generations : g + 1 \in Generations /\ Issued(g + 1) => Spent(g)

\* The chain knows what was handed out.
ChainOK ==
    \A c \in chain :
        /\ c.result.gen = 1
        /\ \A r \in Handed : r.items \subseteq c.seen
        /\ \A r, s \in Handed : r.gen # s.gen => r.items \cap s.items = {}
        /\ \E r \in Handed : r.pages = c.pages /\ r.unique = Cardinality(c.seen)
        /\ Cardinality(c.seen) <= MaxChainItems

\* While its continuation is unspent, an outcome extends the chain as it is.
Extends(o) ==
    \A c \in chain : ~Spent(o.gen) =>
        /\ o.result.items \cap c.seen = {}
        /\ o.result.pages = c.pages + o.pages
        /\ o.result.unique = Cardinality(c.seen) + Cardinality(o.result.items)
        /\ Cardinality(c.seen \cup o.result.items) <= MaxChainItems

OutcomeOK(o) ==
    /\ Issued(o.gen)
    /\ o.result.gen = o.gen + 1
    /\ o.result.by = o.epoch
    /\ Extends(o)

\* Once an outcome is recorded its continuation is not reserved again.
OutcomesOK ==
    \A o \in outcomes :
        /\ OutcomeOK(o)
        /\ \/ cont[o.gen].state \in Final
           \/ /\ cont[o.gen].state = "dispatched-unknown"
              /\ cont[o.gen].epoch = o.epoch
              /\ cont[o.gen].key = o.key

Asking == {"dispatched", "reading", "responded", "recorded"}

FlightOK(f) ==
    LET me == flight[f] IN
    /\ me.at = "idle" => me = Idle
    /\ me.does = "none" <=> me.at = "idle"
    /\ me.at = "searching" => me.does = "search"
    /\ me.at = "reserving" => me.does = "continue"
    /\ me.at = "pending" => me.does = "recover"
    /\ me.at = "pending" => me.credential = 0
    /\ me.does = "search" => me.at \in {"resolving", "searching"}
    /\ me.does \in {"continue", "recover"} => me.gen \in Generations /\ Issued(me.gen)
    /\ me.does = "continue" => me.key \in Keys
    /\ me.does = "recover" /\ me.at # "pending" => me.key \in Keys /\ me.epoch > 0
    /\ me.at \in {"holding"} \cup Asking =>
           /\ me.credential = cont[me.gen].credential
           /\ me.key \in Keys /\ me.epoch > 0
    /\ me.at = "reading" /\ ~Spent(me.gen) =>
           \A c \in chain : me.seen = c.seen /\ me.pages = c.pages
    /\ me.at \in {"responded", "recorded"} =>
           \E o \in me.outcome : me.outcome = {o} /\ OutcomeOK(o)
    /\ me.at \notin {"idle", "pending"} => me.secret \in Secrets
    /\ me.at \notin {"idle", "pending", "resolving"} => me.credential # 0

\* Two bindings under one epoch of the credential are bindings to one secret:
\* the present one, a call's and the one the chain was issued under.
CredentialsOK ==
    /\ binding.epoch = 0 => binding.fingerprint = 0
    /\ \A f \in Flights : flight[f].credential # 0 =>
           /\ flight[f].credential <= binding.epoch
           /\ flight[f].credential = binding.epoch => flight[f].secret = binding.fingerprint
    /\ \A f, e \in Flights :
           flight[f].credential # 0 /\ flight[e].credential = flight[f].credential =>
               flight[e].secret = flight[f].secret
    /\ \A g \in Generations, c \in chain : Issued(g) =>
           /\ cont[g].credential # 0
           /\ cont[g].credential <= binding.epoch
           /\ cont[g].credential = binding.epoch => binding.fingerprint = c.secret
           /\ \A f \in Flights :
                  flight[f].credential = cont[g].credential => flight[f].secret = c.secret

AnswersOK == answers \subseteq Handed

IInv ==
    /\ Typed
    /\ ContOK
    /\ ChainOK
    /\ OutcomesOK
    /\ \A f \in Flights : FlightOK(f)
    /\ CredentialsOK
    /\ AnswersOK

-----------------------------------------------------------------------------
(* What the helpers return *)

LEMMA TheMember == ASSUME NEW x PROVE The({x}) = x
BY DEF The

LEMMA TheSome == ASSUME NEW S, S # {} PROVE The(S) \in S
BY DEF The

LEMMA FewItems ==
    ASSUME NEW S \in SUBSET Items
    PROVE /\ IsFiniteSet(S)
          /\ Cardinality(S) \in Nat
BY FS_Subset, FS_CardinalityType, ContinuationsAssumption

LEMMA DisjointItems ==
    ASSUME NEW S \in SUBSET Items, NEW T \in SUBSET Items, S \cap T = {}
    PROVE Cardinality(S \cup T) = Cardinality(S) + Cardinality(T)
<1>1. IsFiniteSet(S) /\ IsFiniteSet(T) /\ Cardinality(S) \in Nat /\ Cardinality(T) \in Nat
  BY FewItems
<1>2. Cardinality(S \cup T) = Cardinality(S) + Cardinality(T) - Cardinality(S \cap T)
  BY <1>1, FS_Union
<1>3. Cardinality(S \cap T) = 0
  BY FS_EmptySet
<1> QED
  BY <1>1, <1>2, <1>3

\* The bounds are numbers.
LEMMA Bounds ==
    /\ MaxChainItems \in Nat /\ MaxPages \in Nat /\ MaxGenerations \in Nat
    /\ MaxReservations \in Nat /\ MaxRotations \in Nat
BY ContinuationsAssumption

LEMMA OutcomesOfGeneration ==
    ASSUME NEW g, NEW o \in OutcomesOf(g)
    PROVE o \in outcomes /\ o.gen = g /\ o.epoch = cont[g].epoch /\ o.key = cont[g].key
BY DEF OutcomesOf

\* A result made within the bounds has the type of results.
LEMMA ResultTyped ==
    ASSUME NEW gen \in 1..(MaxGenerations + 1), NEW items \in SUBSET Items, NEW pages \in Nat,
           NEW unique \in Nat, NEW more \in BOOLEAN, NEW by \in Flights \cup (1..MaxReservations)
    PROVE Result(gen, items, pages, unique, more, by) \in ResultType
BY DEF Result, ResultType

-----------------------------------------------------------------------------
(* Types are kept *)

LEMMA TypedInit == Init => Typed
<1> SUFFICES ASSUME Init PROVE Typed
  OBVIOUS
<1>1. NoContinuation \in ContRecords
  BY Bounds DEF NoContinuation, ContRecords, States
<1>2. Idle \in FlightRecords
  BY Bounds DEF Idle, FlightRecords, Places
<1> QED
  BY <1>1, <1>2, Bounds DEF Init, Typed, Secrets

\* What only moves calls keeps the types when the records it makes have them.
LEMMA FlightTyped ==
    ASSUME Typed, NEW f \in Flights, NEW r \in FlightRecords,
           flight' = [flight EXCEPT ![f] = r]
    PROVE flight' \in [Flights -> FlightRecords]
BY DEF Typed

LEMMA ContTyped ==
    ASSUME Typed, NEW g \in Generations, NEW r \in ContRecords,
           cont' = [cont EXCEPT ![g] = r]
    PROVE cont' \in [Generations -> ContRecords]
BY DEF Typed

LEMMA IdleTyped == Idle \in FlightRecords
BY Bounds DEF Idle, FlightRecords, Places

LEMMA EndsTyped ==
    ASSUME Typed, NEW f \in Flights, Ends(f)
    PROVE flight' \in [Flights -> FlightRecords]
BY IdleTyped, FlightTyped DEF Ends

LEMMA GoesTyped ==
    ASSUME Typed, NEW f \in Flights, NEW at \in Places, Goes(f, at)
    PROVE flight' \in [Flights -> FlightRecords]
BY DEF Goes, Typed, FlightRecords

LEMMA StartTyped ==
    ASSUME NEW i \in FlightRecords, NEW does \in {"search", "continue"},
           NEW g \in {0} \cup Generations, NEW k \in Keys \cup {NoKey}, NEW own \in Nat
    PROVE [i EXCEPT !.at = "resolving", !.does = does, !.gen = g, !.key = k, !.secret = own]
              \in FlightRecords
BY DEF FlightRecords, Places

LEMMA BeginTyped ==
    ASSUME Typed, NEW f \in Flights, NEW does \in {"search", "continue"},
           NEW g \in {0} \cup Generations, NEW k \in Keys \cup {NoKey}, Begin(f, does, g, k)
    PROVE Typed'
<1> DEFINE r == [Idle EXCEPT !.at = "resolving", !.does = does, !.gen = g, !.key = k,
                             !.secret = secret]
<1>1. r \in FlightRecords
  <2>1. secret \in Nat
    BY Bounds DEF Typed, Secrets
  <2> QED
    BY <2>1, IdleTyped, StartTyped
<1>2. flight' \in [Flights -> FlightRecords]
  BY <1>1, FlightTyped DEF Begin
<1> QED
  BY <1>2 DEF Begin, Typed

LEMMA ActiveTyped ==
    ASSUME NEW credential \in Nat
    PROVE Active(credential) \in ContRecords
<1>1. NoContinuation \in ContRecords
  BY Bounds DEF NoContinuation, ContRecords, States
<1> QED
  BY <1>1 DEF Active, ContRecords, States

\* A spent outcome: the chain and the continuations keep their types.
LEMMA ConsumedTyped ==
    ASSUME Typed, NEW o \in OutcomeRecords, NEW c \in ChainRecords, chain = {c}, Consumed(o)
    PROVE /\ chain' = {[c EXCEPT !.pages = @ + o.pages, !.seen = @ \cup o.result.items]}
          /\ \E d \in ChainRecords : chain' = {d}
          /\ cont' \in [Generations -> ContRecords]
<1>1. The(chain) = c
  BY TheMember
<1>2. chain' = {[c EXCEPT !.pages = c.pages + o.pages, !.seen = c.seen \cup o.result.items]}
  BY <1>1 DEF Consumed, SeenWith
<1>3. [c EXCEPT !.pages = c.pages + o.pages, !.seen = c.seen \cup o.result.items] \in ChainRecords
  <2>1. o.pages \in Nat /\ o.result \in ResultType
    BY DEF OutcomeRecords
  <2>2. o.result.items \in SUBSET Items
    BY <2>1 DEF ResultType
  <2>3. c.pages + o.pages \in Nat /\ c.seen \cup o.result.items \in SUBSET Items
    BY <2>1, <2>2 DEF ChainRecords
  <2> QED
    BY <2>3 DEF ChainRecords
<1>4. ASSUME NEW g \in Generations
      PROVE cont'[g] \in ContRecords
  <2>1. cont[g] \in ContRecords /\ cont[o.gen] \in ContRecords
    BY DEF Typed, OutcomeRecords
  <2>2. [cont[g] EXCEPT !.state = "consumed", !.result = {o.result}] \in ContRecords
    BY <2>1 DEF ContRecords, OutcomeRecords, States
  <2>3. Active(cont[o.gen].credential) \in ContRecords
    BY <2>1, ActiveTyped DEF ContRecords
  <2> QED
    BY <2>1, <2>2, <2>3 DEF Consumed
<1>5. cont' \in [Generations -> ContRecords]
  BY <1>4 DEF Consumed
<1> QED
  BY <1>2, <1>3, <1>5

LEMMA ReservedTyped ==
    ASSUME Typed, NEW f \in Flights, NEW g \in Generations, NEW k \in Keys \cup {NoKey},
           Reserved(f, g, k)
    PROVE /\ cont' \in [Generations -> ContRecords]
          /\ flight' \in [Flights -> FlightRecords]
<1> DEFINE c == [cont[g] EXCEPT !.state = "reserved", !.epoch = @ + 1, !.key = k, !.lease = TRUE]
           r == [flight[f] EXCEPT
                    !.gen = g, !.key = k, !.epoch = cont[g].epoch + 1,
                    !.at = IF @ = "pending" THEN "resolving" ELSE "holding",
                    !.secret = IF flight[f].at = "pending" THEN secret ELSE @]
<1>1. cont[g] \in ContRecords /\ flight[f] \in FlightRecords
  BY DEF Typed
<1>2. cont[g].epoch \in Nat /\ cont[g].epoch + 1 \in 0..MaxReservations
  BY <1>1, Bounds DEF Reserved, ContRecords
<1>3. secret \in Nat
  BY Bounds DEF Typed, Secrets
<1>4. c \in ContRecords
  BY <1>1, <1>2 DEF ContRecords, States
<1>5. r \in FlightRecords
  BY <1>1, <1>2, <1>3 DEF FlightRecords, Places
<1>6. cont' = [cont EXCEPT ![g] = c]
  BY DEF Reserved
<1>7. flight' = [flight EXCEPT ![f] = r]
  BY DEF Reserved
<1> HIDE DEF c, r
<1> QED
  BY <1>4, <1>5, <1>6, <1>7, ContTyped, FlightTyped

\* The outcome a call has built.
LEMMA FlightOutcome ==
    ASSUME Typed, NEW f \in Flights, FlightOK(f), flight[f].at \in {"responded", "recorded"}
    PROVE /\ The(flight[f].outcome) \in OutcomeRecords
          /\ OutcomeOK(The(flight[f].outcome))
<1>1. PICK o \in flight[f].outcome : flight[f].outcome = {o} /\ OutcomeOK(o)
  BY DEF FlightOK
<1>2. The(flight[f].outcome) = o
  BY <1>1, TheMember
<1>3. flight[f].outcome \subseteq OutcomeRecords
  BY DEF Typed, FlightRecords
<1> QED
  BY <1>1, <1>2, <1>3

\* A continuation that was issued belongs to a chain.
LEMMA TheChain ==
    ASSUME Typed, chain # {}
    PROVE /\ The(chain) \in ChainRecords
          /\ chain = {The(chain)}
<1>1. PICK c \in ChainRecords : chain = {c}
  BY DEF Typed
<1>2. The(chain) = c
  BY <1>1, TheMember
<1> QED
  BY <1>1, <1>2

LEMMA ConsumedTypes ==
    ASSUME Typed, NEW o \in OutcomeRecords, chain # {}, Consumed(o)
    PROVE /\ \E d \in ChainRecords : chain' = {d}
          /\ cont' \in [Generations -> ContRecords]
<1>1. PICK p \in OutcomeRecords : p = o
  OBVIOUS
<1>2. PICK c \in ChainRecords : chain = {c}
  BY DEF Typed
<1> QED
  BY <1>1, <1>2, ConsumedTyped

\* The answer a spent continuation gives.
LEMMA ConsumedAnswer ==
    ASSUME Typed, NEW g \in Generations
    PROVE cont[g].result \subseteq ResultType
BY DEF Typed, ContRecords

LEMMA TypedBind ==
    ASSUME Typed, NEW f \in Flights, FlightOK(f), BindCredential(f)
    PROVE Typed'
<1> DEFINE own == flight[f].secret
           epoch == IF binding.fingerprint = own THEN binding.epoch ELSE binding.epoch + 1
           at == CASE flight[f].does = "search" -> "searching"
                   [] flight[f].does = "continue" -> "reserving"
                   [] flight[f].does = "recover" /\ ~SameBinding(flight[f].gen, epoch) -> "revoking"
                   [] OTHER -> "holding"
           r == [flight[f] EXCEPT !.credential = epoch, !.at = at]
<1>1. flight[f] \in FlightRecords
  BY DEF Typed
<1>2. epoch \in Nat /\ own \in Secrets
  BY DEF Typed, FlightOK, BindCredential
<1>3. at \in Places
  BY DEF Places
<1>4. flight' = [flight EXCEPT ![f] = r]
  BY DEF BindCredential
<1>5. binding' = [fingerprint |-> own, epoch |-> epoch]
  BY DEF BindCredential
<1> HIDE DEF at, epoch, own
<1>6. r \in FlightRecords
  BY <1>1, <1>2, <1>3 DEF FlightRecords
<1>7. flight' \in [Flights -> FlightRecords]
  <2> HIDE DEF r
  <2> QED
    BY <1>4, <1>6, FlightTyped
<1> QED
  BY <1>2, <1>5, <1>7 DEF BindCredential, Typed

LEMMA ResponseTyped ==
    ASSUME NEW seen \in SUBSET Items, NEW g, NEW r \in Responses(seen, g)
    PROVE /\ r.items \in SUBSET Items
          /\ r.items \cap seen = {}
          /\ r.pages \in Nat /\ r.more \in BOOLEAN
          /\ Cardinality(seen \cup r.items) <= MaxChainItems
          /\ r.more => g < MaxGenerations
BY Bounds DEF Responses

LEMMA TypedRespond ==
    ASSUME Typed, NEW f \in Flights, FlightOK(f), Respond(f)
    PROVE Typed'
<1> DEFINE me == flight[f]
           built(r) == Result(me.gen + 1, r.items, me.pages + r.pages,
                              Cardinality(me.seen) + Cardinality(r.items), r.more, me.epoch)
           outcome(r) == [gen |-> me.gen, epoch |-> me.epoch, key |-> me.key,
                          credential |-> cont[me.gen].credential,
                          pages |-> r.pages, result |-> built(r)]
           moved(r) == [me EXCEPT !.at = "responded", !.seen = {}, !.pages = 0,
                                  !.outcome = {outcome(r)}]
<1>1. me \in FlightRecords /\ me.at = "reading"
  BY DEF Typed, Respond
<1>2. me.gen \in Generations /\ me.key \in Keys /\ me.epoch \in 1..MaxReservations
  <2>1. me.does \in {"continue", "recover"}
    BY <1>1 DEF FlightOK, FlightRecords
  <2>2. me.gen \in Generations
    BY <2>1 DEF FlightOK
  <2>3. me.key \in Keys /\ me.epoch > 0
    BY <1>1 DEF FlightOK, Asking
  <2> QED
    BY <1>1, <2>2, <2>3, Bounds DEF FlightRecords
<1>3. me.seen \in SUBSET Items /\ me.pages \in Nat
  BY <1>1 DEF FlightRecords
<1>4. PICK r \in Responses(me.seen, me.gen) : flight' = [flight EXCEPT ![f] = moved(r)]
  BY DEF Respond
<1>5. r.items \in SUBSET Items /\ r.pages \in Nat /\ r.more \in BOOLEAN
  BY <1>3, <1>4, ResponseTyped
<1>6. built(r) \in ResultType
  <2>1. me.gen + 1 \in 1..(MaxGenerations + 1)
    BY <1>2, Bounds DEF Generations
  <2>2. Cardinality(me.seen) \in Nat /\ Cardinality(r.items) \in Nat
    BY <1>3, <1>5, FewItems
  <2>3. Cardinality(me.seen) + Cardinality(r.items) \in Nat /\ me.pages + r.pages \in Nat
    BY <1>3, <1>5, <2>2
  <2> QED
    BY <1>2, <1>5, <2>1, <2>3, ResultTyped
<1>7. outcome(r) \in OutcomeRecords
  <2>1. cont[me.gen].credential \in Nat
    BY <1>2 DEF Typed, ContRecords
  <2> HIDE DEF built
  <2> QED
    BY <1>2, <1>5, <1>6, <2>1 DEF OutcomeRecords
<1> HIDE DEF outcome
<1>8. moved(r) \in FlightRecords
  BY <1>1, <1>7 DEF FlightRecords, Places
<1> HIDE DEF moved
<1>9. flight' \in [Flights -> FlightRecords]
  BY <1>4, <1>8, FlightTyped
<1> QED
  BY <1>9 DEF Respond, Typed

LEMMA TypedCommit ==
    ASSUME Typed, NEW f \in Flights, CommitInitial(f)
    PROVE Typed'
<1>1. flight' \in [Flights -> FlightRecords]
  BY EndsTyped DEF CommitInitial
<1>2. CASE chain # {}
  <2>1. The(chain) \in ChainRecords
    BY <1>2, TheChain
  <2>2. The(chain).result \in ResultType
    BY <2>1 DEF ChainRecords
  <2>3. answers' = answers \cup {The(chain).result} /\ UNCHANGED <<chain, cont>>
    BY <1>2 DEF CommitInitial, AlreadyCommitted
  <2> QED
    BY <1>1, <2>2, <2>3 DEF CommitInitial, Typed
<1>3. CASE chain = {}
  <2> DEFINE built(r) == Result(1, r.items, r.pages, Cardinality(r.items), r.more, f)
             made(r) == [pages |-> r.pages, seen |-> r.items, result |-> built(r),
                         secret |-> flight[f].secret]
  <2>1. PICK r \in Responses({}, 0) :
            /\ chain' = {made(r)}
            /\ cont' = IF r.more THEN [cont EXCEPT ![1] = Active(flight[f].credential)] ELSE cont
            /\ answers' = answers \cup {built(r)}
    BY <1>3 DEF CommitInitial, AlreadyCommitted
  <2>2. /\ r.items \in SUBSET Items /\ r.pages \in Nat /\ r.more \in BOOLEAN
        /\ r.more => 0 < MaxGenerations
    BY <2>1, ResponseTyped
  <2>3. built(r) \in ResultType
    <3>1. 1 \in 1..(MaxGenerations + 1)
      BY Bounds
    <3>2. Cardinality(r.items) \in Nat
      BY <2>2, FewItems
    <3> QED
      BY <2>2, <3>1, <3>2, ResultTyped
  <2>4. flight[f].secret \in Nat /\ flight[f].credential \in Nat
    BY DEF Typed, FlightRecords
  <2> HIDE DEF built
  <2>5. made(r) \in ChainRecords
    BY <2>2, <2>3, <2>4 DEF ChainRecords
  <2>6. cont' \in [Generations -> ContRecords]
    <3>1. CASE r.more
      <4>1. 1 \in Generations
        BY <2>2, <3>1, Bounds DEF Generations
      <4>2. Active(flight[f].credential) \in ContRecords
        BY <2>4, ActiveTyped
      <4> QED
        BY <2>1, <3>1, <4>1, <4>2, ContTyped
    <3> QED
      BY <2>1, <3>1 DEF Typed
  <2> HIDE DEF made
  <2> QED
    BY <1>1, <2>1, <2>3, <2>5, <2>6 DEF CommitInitial, Typed
<1> QED
  BY <1>2, <1>3

\* A continuation that was issued has its chain.
LEMMA IssuedChain ==
    ASSUME ContOK, NEW g \in Generations, Issued(g)
    PROVE chain # {}
BY DEF ContOK

LEMMA TypedReplayed ==
    ASSUME Typed, ContOK, OutcomesOK, NEW f \in Flights, FlightOK(f), ReserveReplayed(f)
    PROVE Typed'
<1> DEFINE g == flight[f].gen
<1>1. flight' \in [Flights -> FlightRecords]
  BY EndsTyped DEF ReserveReplayed
<1>2. g \in Generations
  <2>1. flight[f].does = "continue"
    BY DEF FlightOK, ReserveReplayed
  <2> QED
    BY <2>1 DEF FlightOK
<1>3. CASE answers' = answers \cup cont[g].result /\ UNCHANGED <<chain, cont>>
  BY <1>1, <1>2, <1>3, ConsumedAnswer DEF ReserveReplayed, Typed
<1>4. CASE /\ ReservationCase(f) = "settle"
           /\ Consumed(The(OutcomesOf(g)))
           /\ answers' = answers \cup {The(OutcomesOf(g)).result}
  <2> DEFINE o == The(OutcomesOf(g))
  <2>1. OutcomesOf(g) # {}
    BY <1>4 DEF ReservationCase
  <2>2. o \in outcomes
    BY <2>1, TheSome, OutcomesOfGeneration
  <2>3. o \in OutcomeRecords /\ Issued(o.gen)
    BY <2>2 DEF Typed, OutcomesOK, OutcomeOK
  <2>4. o.gen \in Generations /\ o.result \in ResultType
    BY <2>3 DEF OutcomeRecords
  <2>5. chain # {}
    BY <2>3, <2>4, IssuedChain
  <2> HIDE DEF o
  <2>6. /\ \E d \in ChainRecords : chain' = {d}
        /\ cont' \in [Generations -> ContRecords]
    BY <1>4, <2>3, <2>5, ConsumedTypes DEF o
  <2>7. answers' = answers \cup {o.result}
    BY <1>4 DEF o
  <2> QED
    BY <1>1, <2>4, <2>6, <2>7 DEF ReserveReplayed, Typed
<1> QED
  BY <1>3, <1>4 DEF ReserveReplayed

LEMMA TypedConsume ==
    ASSUME Typed, ContOK, NEW f \in Flights, FlightOK(f), ConsumeOutcome(f)
    PROVE Typed'
<1> DEFINE o == The(flight[f].outcome)
<1>1. flight' \in [Flights -> FlightRecords]
  BY EndsTyped DEF ConsumeOutcome
<1>2. o \in OutcomeRecords /\ OutcomeOK(o)
  BY FlightOutcome DEF ConsumeOutcome
<1>3. o.gen \in Generations /\ o.result \in ResultType
  BY <1>2 DEF OutcomeRecords
<1>4. chain # {}
  BY <1>2, <1>3, IssuedChain DEF OutcomeOK
<1> HIDE DEF o
<1>5. CASE answers' = answers \cup cont[o.gen].result /\ UNCHANGED <<chain, cont>>
  BY <1>1, <1>3, <1>5, ConsumedAnswer DEF ConsumeOutcome, Typed
<1>6. CASE Consumed(o) /\ answers' = answers \cup {o.result}
  <2>1. /\ \E d \in ChainRecords : chain' = {d}
        /\ cont' \in [Generations -> ContRecords]
    BY <1>2, <1>4, <1>6, ConsumedTypes
  <2> QED
    BY <1>1, <1>3, <1>6, <2>1 DEF ConsumeOutcome, Typed
<1>7. CASE UNCHANGED <<chain, cont, answers>>
  BY <1>1, <1>7 DEF ConsumeOutcome, Typed
<1> QED
  BY <1>5, <1>6, <1>7 DEF ConsumeOutcome, o

LEMMA TypedRecover ==
    ASSUME Typed, ContOK, OutcomesOK, NEW f \in Flights, RecoverOutcome(f)
    PROVE Typed'
<1>1. PICK g \in Unresolved : OutcomesOf(g) # {} /\ Consumed(The(OutcomesOf(g)))
  BY DEF RecoverOutcome
<1> DEFINE o == The(OutcomesOf(g))
<1>2. o \in outcomes
  BY <1>1, TheSome, OutcomesOfGeneration
<1>3. o \in OutcomeRecords /\ Issued(o.gen)
  BY <1>2 DEF Typed, OutcomesOK, OutcomeOK
<1>4. chain # {}
  BY <1>3, IssuedChain DEF OutcomeRecords
<1> HIDE DEF o
<1>5. /\ \E d \in ChainRecords : chain' = {d}
      /\ cont' \in [Generations -> ContRecords]
  BY <1>1, <1>3, <1>4, ConsumedTypes DEF o
<1> QED
  BY <1>5 DEF RecoverOutcome, Typed

\* A state of a continuation is changed to another.
LEMMA StateTyped ==
    ASSUME Typed, NEW g \in Generations, NEW state \in States,
           cont' = [cont EXCEPT ![g].state = state]
    PROVE cont' \in [Generations -> ContRecords]
BY DEF Typed, ContRecords

LEMMA TypedStep ==
    ASSUME Typed, ContOK, OutcomesOK, \A f \in Flights : FlightOK(f), [Next]_vars
    PROVE Typed'
<1>1. CASE UNCHANGED vars
  BY <1>1 DEF vars, Typed
<1>2. ASSUME NEW f \in Flights, Step(f)
      PROVE Typed'
  <2>0. flight[f] \in FlightRecords /\ FlightOK(f)
    BY DEF Typed
  <2>1. CASE Search(f)
    BY <2>1, BeginTyped DEF Search
  <2>2. CASE SearchReplay(f)
    <3>1. The(chain).result \in ResultType
      BY <2>2, TheChain DEF SearchReplay, ChainRecords
    <3> QED
      BY <2>2, <3>1 DEF SearchReplay, Typed
  <2>3. CASE Continue(f)
    BY <2>3, BeginTyped DEF Continue
  <2>4. CASE BindCredential(f)
    BY <2>0, <2>4, TypedBind
  <2>5. CASE CommitInitial(f)
    BY <2>5, TypedCommit
  <2>6. CASE ReserveRefused(f)
    <3>1. flight' \in [Flights -> FlightRecords]
      BY <2>6, EndsTyped DEF ReserveRefused
    <3>2. flight[f].gen \in Generations
      BY <2>0, <2>6 DEF FlightOK, ReserveRefused
    <3>3. cont[flight[f].gen].state \in States
      BY <3>2 DEF Typed, ContRecords
    <3> DEFINE state == CASE ReservationCase(f) = "expire" -> "expired"
                          [] ReservationCase(f) = "revoke" -> "revoked"
                          [] OTHER -> cont[flight[f].gen].state
    <3>4. state \in States
      BY <3>3 DEF States
    <3>5. cont' = [cont EXCEPT ![flight[f].gen].state = state]
      BY <2>6 DEF ReserveRefused
    <3> HIDE DEF state
    <3>6. cont' \in [Generations -> ContRecords]
      <4>1. PICK h \in Generations : h = flight[f].gen
        BY <3>2
      <4>2. PICK t \in States : t = state
        BY <3>4
      <4>3. cont' = [cont EXCEPT ![h].state = t]
        BY <3>5, <4>1, <4>2
      <4> QED
        BY <4>3, StateTyped
    <3> QED
      BY <2>6, <3>1, <3>6 DEF ReserveRefused, Typed
  <2>7. CASE ReserveReplayed(f)
    BY <2>0, <2>7, TypedReplayed
  <2>8. CASE ReserveTaken(f)
    <3> DEFINE g == flight[f].gen
    <3>1. g \in Generations
      BY <2>0, <2>8 DEF FlightOK, ReserveTaken
    <3>2. flight[f].key \in Keys \cup {NoKey} /\ cont[g].key \in Keys \cup {NoKey}
      BY <2>0, <3>1 DEF Typed, FlightRecords, ContRecords
    <3>3. cont' \in [Generations -> ContRecords] /\ flight' \in [Flights -> FlightRecords]
      <4>1. PICK h \in Generations : h = g
        BY <3>1
      <4>2. PICK k \in Keys \cup {NoKey} : Reserved(f, h, k)
        BY <2>8, <3>2, <4>1 DEF ReserveTaken
      <4> QED
        BY <4>2, ReservedTyped
    <3> QED
      BY <2>8, <3>3 DEF ReserveTaken, Typed
  <2>9. CASE MarkDispatched(f)
    <3>1. flight[f].gen \in Generations
      BY <2>0, <2>9 DEF FlightOK, MarkDispatched, FlightRecords
    <3>2. flight' \in [Flights -> FlightRecords]
      BY <2>9, EndsTyped, GoesTyped DEF MarkDispatched, Places
    <3>3. cont' \in [Generations -> ContRecords]
      BY <2>9, <3>1 DEF MarkDispatched, Typed, ContRecords, States
    <3> QED
      BY <2>9, <3>2, <3>3 DEF MarkDispatched, Typed
  <2>10. CASE ReleaseUndispatched(f)
    <3> DEFINE g == flight[f].gen
               c == [cont[g] EXCEPT !.state = "active", !.key = NoKey, !.lease = FALSE]
    <3>1. g \in Generations
      BY <2>0, <2>10 DEF FlightOK, ReleaseUndispatched, FlightRecords
    <3>2. flight' \in [Flights -> FlightRecords]
      BY <2>10, EndsTyped DEF ReleaseUndispatched
    <3>3. c \in ContRecords
      <4>1. cont[g] \in ContRecords
        BY <3>1 DEF Typed
      <4> HIDE DEF g
      <4> QED
        BY <4>1 DEF ContRecords, States
    <3>4. cont' = [cont EXCEPT ![g] = c] \/ cont' = cont
      BY <2>10 DEF ReleaseUndispatched
    <3> HIDE DEF c, g
    <3>5. cont' \in [Generations -> ContRecords]
      BY <3>1, <3>3, <3>4 DEF Typed
    <3> QED
      BY <2>10, <3>2, <3>5 DEF ReleaseUndispatched, Typed
  <2>11. CASE OpenFails(f)
    BY <2>11, GoesTyped DEF OpenFails, Typed, Places
  <2>12. CASE ReadChain(f)
    <3> DEFINE r == [flight[f] EXCEPT !.at = "reading", !.seen = The(chain).seen,
                                      !.pages = The(chain).pages]
    <3>1. flight[f].gen \in Generations /\ Issued(flight[f].gen)
      BY <2>0, <2>12 DEF FlightOK, ReadChain, FlightRecords
    <3>2. The(chain) \in ChainRecords
      BY <3>1, IssuedChain, TheChain
    <3>3. The(chain).seen \in SUBSET Items /\ The(chain).pages \in Nat
      BY <3>2 DEF ChainRecords
    <3>4. r \in FlightRecords
      BY <2>0, <3>3 DEF FlightRecords, Places
    <3>5. flight' = [flight EXCEPT ![f] = r]
      BY <2>12 DEF ReadChain
    <3> HIDE DEF r
    <3>6. flight' \in [Flights -> FlightRecords]
      BY <3>4, <3>5, FlightTyped
    <3> QED
      BY <2>12, <3>6 DEF ReadChain, Typed
  <2>13. CASE Respond(f)
    BY <2>0, <2>13, TypedRespond
  <2>14. CASE ProviderFails(f)
    <3>1. flight' \in [Flights -> FlightRecords]
      BY <2>14, GoesTyped, EndsTyped DEF ProviderFails, Places
    <3> QED
      BY <2>14, <3>1 DEF ProviderFails, Typed
  <2>15. CASE Revoke(f)
    <3>1. flight' \in [Flights -> FlightRecords]
      BY <2>15, EndsTyped DEF Revoke
    <3>2. cont' = cont \/ cont' = [cont EXCEPT ![flight[f].gen].state = "revoked"]
      BY <2>15 DEF Revoke
    <3>3. flight[f].gen \in Generations
      BY <2>0, <2>15 DEF FlightOK, Revoke, FlightRecords
    <3>4. cont' \in [Generations -> ContRecords]
      BY <3>2, <3>3 DEF Typed, ContRecords, States
    <3> QED
      BY <2>15, <3>1, <3>4 DEF Revoke, Typed
  <2>16. CASE RecordOutcome(f)
    <3>1. The(flight[f].outcome) \in OutcomeRecords
      BY <2>0, <2>16, FlightOutcome DEF RecordOutcome
    <3>2. flight' \in [Flights -> FlightRecords]
      BY <2>16, GoesTyped, EndsTyped DEF RecordOutcome, Places
    <3> QED
      BY <2>16, <3>1, <3>2 DEF RecordOutcome, Typed
  <2>17. CASE ConsumeOutcome(f)
    BY <2>0, <2>17, TypedConsume
  <2>18. CASE RecoverOutcome(f)
    BY <2>18, TypedRecover
  <2>19. CASE RecoverPending(f)
    <3>1. PICK g \in Unresolved :
              flight' = [flight EXCEPT ![f] =
                  [flight[f] EXCEPT !.at = "pending", !.does = "recover", !.gen = g]]
      BY <2>19 DEF RecoverPending
    <3>2. [flight[f] EXCEPT !.at = "pending", !.does = "recover", !.gen = g] \in FlightRecords
      BY <2>0, <3>1 DEF FlightRecords, Places, Unresolved
    <3>3. flight' \in [Flights -> FlightRecords]
      BY <3>1, <3>2, FlightTyped
    <3> QED
      BY <2>19, <3>3 DEF RecoverPending, Typed
  <2>20. CASE ReserveRecovery(f)
    <3> DEFINE g == flight[f].gen
    <3>1. g \in Generations
      BY <2>0, <2>20 DEF FlightOK, ReserveRecovery
    <3>2. CASE Ends(f) /\ (UNCHANGED cont \/ cont' = [cont EXCEPT ![g].state = "expired"])
      <4>1. cont' \in [Generations -> ContRecords]
        BY <3>1, <3>2 DEF Typed, ContRecords, States
      <4> QED
        BY <2>20, <3>2, <4>1, EndsTyped DEF ReserveRecovery, Typed
    <3>3. CASE Reserved(f, g, cont[g].key)
      <4>1. PICK h \in Generations : h = g
        BY <3>1
      <4>2. PICK k \in Keys \cup {NoKey} : k = cont[g].key
        BY <3>1 DEF Typed, ContRecords
      <4>3. cont' \in [Generations -> ContRecords] /\ flight' \in [Flights -> FlightRecords]
        BY <3>3, <4>1, <4>2, ReservedTyped
      <4> QED
        BY <2>20, <4>3 DEF ReserveRecovery, Typed
    <3> QED
      BY <2>20, <3>2, <3>3 DEF ReserveRecovery
  <2>21. CASE Crash(f)
    BY <2>21, EndsTyped DEF Crash, Typed
  <2> QED
    BY <1>2, <2>1, <2>2, <2>3, <2>4, <2>5, <2>6, <2>7, <2>8, <2>9, <2>10, <2>11, <2>12, <2>13,
       <2>14, <2>15, <2>16, <2>17, <2>18, <2>19, <2>20, <2>21 DEF Step
<1>3. ASSUME NEW g \in Generations, LeaseEnds(g) \/ TokenExpires(g)
      PROVE Typed'
  <2>1. cont' \in [Generations -> ContRecords]
    <3>1. CASE LeaseEnds(g)
      BY <3>1 DEF LeaseEnds, Typed, ContRecords
    <3>2. CASE TokenExpires(g)
      BY <3>2 DEF TokenExpires, Typed, ContRecords
    <3> QED
      BY <1>3, <3>1, <3>2
  <2> QED
    BY <1>3, <2>1 DEF LeaseEnds, TokenExpires, Typed
<1>4. CASE Rotate
  BY <1>4, Bounds DEF Rotate, Typed, Secrets
<1> QED
  BY <1>1, <1>2, <1>3, <1>4 DEF Next

-----------------------------------------------------------------------------
(* What every step carries over *)

\* Issued continuations stay issued, under their credential, and what is still
\* unspent after a step was so before it, with the chain as it was.
Carries ==
    \A g \in Generations : Issued(g) =>
        /\ Issued(g)'
        /\ cont'[g].credential = cont[g].credential
        /\ ~Spent(g)' => ~Spent(g) /\ chain' = chain

\* Continuations change their state and reservation and nothing is spent.
Moves ==
    /\ chain' = chain
    /\ \A g \in Generations :
           /\ cont'[g].result = cont[g].result
           /\ cont'[g].credential = cont[g].credential
           /\ Issued(g)' <=> Issued(g)
           /\ ~Issued(g) => cont'[g] = cont[g]
           /\ Spent(g) => cont'[g].epoch = cont[g].epoch /\ cont'[g].state \in Final
           /\ cont'[g].state = "consumed" => Spent(g)
           /\ cont'[g].state \in {"reserved", "dispatched-unknown"} =>
                  cont'[g].key \in Keys /\ cont'[g].epoch > 0

\* Credentials of continuations and the chain's secret come from before the step.
Descends ==
    /\ \A g \in Generations : Issued(g)' =>
           \E h \in Generations : Issued(h) /\ cont'[g].credential = cont[h].credential
    /\ \A c \in chain' : \E d \in chain : d.secret = c.secret

LEMMA MovesDescends == ASSUME Moves PROVE Descends
BY DEF Moves, Descends

LEMMA MovesCarries == ASSUME Moves PROVE Carries
BY DEF Moves, Carries, Spent, Issued

LEMMA HandedBy ==
    ASSUME NEW r
    PROVE r \in Handed <=> \/ \E g \in Generations : r \in cont[g].result
                           \/ \E c \in chain : r = c.result
BY DEF Handed

LEMMA HandedKept ==
    ASSUME chain' = chain, \A g \in Generations : cont'[g].result = cont[g].result
    PROVE Handed' = Handed
<1>1. Handed' = (UNION {cont'[g].result : g \in Generations}) \cup {c.result : c \in chain'}
  BY DEF Handed
<1>2. UNION {cont'[g].result : g \in Generations} = UNION {cont[g].result : g \in Generations}
  OBVIOUS
<1> QED
  BY <1>1, <1>2 DEF Handed

LEMMA MovesContOK ==
    ASSUME Typed, ContOK, Moves
    PROVE ContOK'
<1>1. \A g \in Generations :
          /\ ~Issued(g)' => cont'[g] = NoContinuation
          /\ Issued(g)' => chain' # {}
          /\ Spent(g)' => cont'[g].state \in Final
          /\ cont'[g].state = "consumed" => Spent(g)'
  BY DEF Moves, ContOK, Spent
<1>2. \A g \in Generations :
          /\ \A r, s \in cont'[g].result : r = s
          /\ \A r \in cont'[g].result : r.gen = g + 1 /\ r.by = cont'[g].epoch
          /\ cont'[g].state \in {"reserved", "dispatched-unknown"} =>
                 cont'[g].key \in Keys /\ cont'[g].epoch > 0
  BY DEF Moves, ContOK, Spent
<1>3. \A g \in Generations : (Issued(g)' <=> Issued(g)) /\ (Spent(g)' <=> Spent(g))
  BY DEF Moves, Spent
<1>4. \A g, h \in Generations :
          Issued(g)' /\ ~Spent(g)' /\ Issued(h)' /\ ~Spent(h)' => g = h
  BY <1>3 DEF ContOK
<1>5. \A g \in Generations : g + 1 \in Generations /\ Issued(g + 1)' => Spent(g)'
  BY <1>3 DEF ContOK
<1> QED
  BY <1>1, <1>2, <1>4, <1>5 DEF ContOK

LEMMA SameChainOK ==
    ASSUME ChainOK, chain' = chain, \A g \in Generations : cont'[g].result = cont[g].result
    PROVE ChainOK'
BY HandedKept DEF ChainOK

LEMMA OutcomeCarried ==
    ASSUME Carries, NEW o \in OutcomeRecords, OutcomeOK(o)
    PROVE OutcomeOK(o)'
<1>1. o.gen \in Generations
  BY DEF OutcomeRecords
<1> QED
  BY <1>1 DEF Carries, OutcomeOK, Extends

\* Recorded outcomes stay what they are while their continuations move.
OutcomesKept ==
    \A o \in outcomes :
        \/ cont'[o.gen].state \in Final
        \/ /\ cont'[o.gen].state = cont[o.gen].state
           /\ cont'[o.gen].epoch = cont[o.gen].epoch
           /\ cont'[o.gen].key = cont[o.gen].key

LEMMA OutcomesCarried ==
    ASSUME Typed, OutcomesOK, Carries, OutcomesKept, outcomes' = outcomes,
           \A g \in Generations : cont[g].state \in Final => cont'[g].state \in Final
    PROVE OutcomesOK'
<1> SUFFICES ASSUME NEW o \in outcomes
             PROVE /\ OutcomeOK(o)'
                   /\ \/ cont'[o.gen].state \in Final
                      \/ /\ cont'[o.gen].state = "dispatched-unknown"
                         /\ cont'[o.gen].epoch = o.epoch
                         /\ cont'[o.gen].key = o.key
  BY DEF OutcomesOK
<1>1. PICK p \in OutcomeRecords : p = o
  BY DEF Typed
<1>2. OutcomeOK(o)'
  BY <1>1, OutcomeCarried DEF OutcomesOK
<1> QED
  BY <1>1, <1>2 DEF OutcomesOK, OutcomesKept, OutcomeRecords

-----------------------------------------------------------------------------
(* Steps that move one continuation *)

LEMMA OneMoves ==
    ASSUME Typed, ContOK, NEW g \in Generations, Issued(g), chain' = chain,
           \A h \in Generations : h # g => cont'[h] = cont[h],
           cont'[g].result = cont[g].result,
           cont'[g].credential = cont[g].credential,
           cont'[g].state # "none",
           Spent(g) => cont'[g].epoch = cont[g].epoch /\ cont'[g].state \in Final,
           cont'[g].state = "consumed" => Spent(g),
           cont'[g].state \in {"reserved", "dispatched-unknown"} =>
               cont'[g].key \in Keys /\ cont'[g].epoch > 0
    PROVE Moves
<1> SUFFICES ASSUME NEW h \in Generations
             PROVE /\ cont'[h].result = cont[h].result
                   /\ cont'[h].credential = cont[h].credential
                   /\ Issued(h)' <=> Issued(h)
                   /\ ~Issued(h) => cont'[h] = cont[h]
                   /\ Spent(h) => cont'[h].epoch = cont[h].epoch /\ cont'[h].state \in Final
                   /\ cont'[h].state = "consumed" => Spent(h)
                   /\ cont'[h].state \in {"reserved", "dispatched-unknown"} =>
                          cont'[h].key \in Keys /\ cont'[h].epoch > 0
  BY DEF Moves
<1>1. CASE h = g
  BY <1>1 DEF Issued
<1>2. CASE h # g
  BY <1>2 DEF Issued, Spent, ContOK
<1> QED
  BY <1>1, <1>2

LEMMA NoneMoves ==
    ASSUME Typed, ContOK, UNCHANGED <<chain, cont>>
    PROVE Moves
BY DEF Moves, ContOK, Issued, Spent

\* A continuation is given another state.
LEMMA StateMoves ==
    ASSUME Typed, ContOK, NEW g \in Generations, Issued(g), chain' = chain,
           NEW state \in States, cont' = [cont EXCEPT ![g].state = state],
           state # "none",
           Spent(g) => state \in Final,
           state = "consumed" => Spent(g),
           state \in {"reserved", "dispatched-unknown"} => cont[g].key \in Keys /\ cont[g].epoch > 0
    PROVE Moves
<1>1. cont'[g] = [cont[g] EXCEPT !.state = state]
  BY DEF Typed
<1>2. cont[g] \in ContRecords
  BY DEF Typed
<1>3. \A h \in Generations : h # g => cont'[h] = cont[h]
  BY DEF Typed
<1>4. /\ cont'[g].result = cont[g].result
      /\ cont'[g].credential = cont[g].credential
      /\ cont'[g].state = state
      /\ cont'[g].epoch = cont[g].epoch
      /\ cont'[g].key = cont[g].key
  BY <1>1, <1>2 DEF ContRecords
<1> QED
  BY <1>3, <1>4, OneMoves

\* A continuation is reserved: it is unspent.
LEMMA ReservedFields ==
    ASSUME Typed, NEW f \in Flights, NEW g \in Generations, NEW k \in Keys, Reserved(f, g, k)
    PROVE /\ \A h \in Generations : h # g => cont'[h] = cont[h]
          /\ cont'[g].result = cont[g].result
          /\ cont'[g].credential = cont[g].credential
          /\ cont'[g].state = "reserved"
          /\ cont'[g].key = k
          /\ cont'[g].epoch = cont[g].epoch + 1
          /\ cont'[g].epoch > 0
          /\ cont'[g].fresh = cont[g].fresh
<1>1. cont[g] \in ContRecords
  BY DEF Typed
<1>2. cont'[g] = [cont[g] EXCEPT !.state = "reserved", !.epoch = @ + 1, !.key = k, !.lease = TRUE]
  BY DEF Reserved, Typed
<1>3. \A h \in Generations : h # g => cont'[h] = cont[h]
  BY DEF Reserved, Typed
<1>4. cont[g].epoch \in Nat
  BY <1>1, Bounds DEF ContRecords
<1> QED
  BY <1>1, <1>2, <1>3, <1>4 DEF ContRecords

LEMMA ReservedMoves ==
    ASSUME Typed, ContOK, NEW f \in Flights, NEW g \in Generations, NEW k \in Keys,
           Reserved(f, g, k), chain' = chain, Issued(g), cont[g].state \notin Final
    PROVE Moves
<1>1. ~Spent(g)
  BY DEF ContOK
<1> QED
  BY <1>1, ReservedFields, OneMoves

\* The continuation of an answered reservation is neither reserved nor active.
LEMMA AnsweredState ==
    ASSUME Typed, OutcomesOK, NEW o \in outcomes
    PROVE /\ o.gen \in Generations
          /\ cont[o.gen].state \in Final \cup {"dispatched-unknown"}
          /\ cont[o.gen].state = "dispatched-unknown" => o \in OutcomesOf(o.gen)
<1>1. o.gen \in Generations
  BY DEF Typed, OutcomeRecords
<1>2. \/ cont[o.gen].state \in Final
      \/ /\ cont[o.gen].state = "dispatched-unknown"
         /\ cont[o.gen].epoch = o.epoch
         /\ cont[o.gen].key = o.key
  BY DEF OutcomesOK
<1>3. "dispatched-unknown" \notin Final
  BY DEF Final
<1> QED
  BY <1>1, <1>2, <1>3 DEF OutcomesOf

\* The steps of a call that move a continuation.
FlightMoves(f) ==
    \/ ReserveRefused(f) \/ ReserveTaken(f) \/ MarkDispatched(f) \/ ReleaseUndispatched(f)
    \/ Revoke(f) \/ ReserveRecovery(f)

MovesAll ==
    /\ Moves
    /\ OutcomesKept
    /\ \A g \in Generations : cont[g].state \in Final => cont'[g].state \in Final

LEMMA RefusedMoves ==
    ASSUME Typed, ContOK, OutcomesOK, NEW f \in Flights, FlightOK(f), ReserveRefused(f)
    PROVE MovesAll
<1>1. PICK g \in Generations : g = flight[f].gen /\ Issued(g)
  BY DEF FlightOK, ReserveRefused
<1> DEFINE new == CASE ReservationCase(f) = "expire" -> "expired"
                    [] ReservationCase(f) = "revoke" -> "revoked"
                    [] OTHER -> cont[g].state
<1>2. cont[g] \in ContRecords
  BY DEF Typed
<1>3. new \in States /\ (new = cont[g].state \/ new \in {"expired", "revoked"})
  BY <1>2 DEF ContRecords, States
<1>4. cont' = [cont EXCEPT ![g].state = new] /\ chain' = chain
  BY <1>1 DEF ReserveRefused
<1> HIDE DEF new
<1>5. PICK s \in States : s = new
  BY <1>3
<1>6. /\ s # "none"
      /\ Spent(g) => s \in Final
      /\ s = "consumed" => Spent(g)
      /\ s \in {"reserved", "dispatched-unknown"} => cont[g].key \in Keys /\ cont[g].epoch > 0
  BY <1>1, <1>3, <1>5 DEF Issued, ContOK, Final
<1>7. cont' = [cont EXCEPT ![g].state = s]
  BY <1>4, <1>5
<1>8. Moves
  BY <1>1, <1>4, <1>6, <1>7, StateMoves
<1>9. \A h \in Generations :
          \/ cont'[h].state \in Final
          \/ /\ cont'[h].state = cont[h].state
             /\ cont'[h].epoch = cont[h].epoch
             /\ cont'[h].key = cont[h].key
  <2> SUFFICES ASSUME NEW h \in Generations
               PROVE \/ cont'[h].state \in Final
                     \/ /\ cont'[h].state = cont[h].state
                        /\ cont'[h].epoch = cont[h].epoch
                        /\ cont'[h].key = cont[h].key
    OBVIOUS
  <2>1. CASE h = g
    <3>1. cont'[g] = [cont[g] EXCEPT !.state = s]
      BY <1>7 DEF Typed
    <3> QED
      BY <2>1, <1>2, <1>3, <1>5, <3>1 DEF ContRecords, Final
  <2>2. CASE h # g
    BY <1>7, <2>2 DEF Typed
  <2> QED
    BY <2>1, <2>2
<1>10. OutcomesKept
  BY <1>9, AnsweredState DEF OutcomesKept
<1> QED
  BY <1>8, <1>9, <1>10 DEF MovesAll

\* A reservation is made only of an unspent continuation without a recorded outcome.
LEMMA ReservedMovesAll ==
    ASSUME Typed, ContOK, OutcomesOK, NEW f \in Flights, NEW g \in Generations, NEW k \in Keys,
           Reserved(f, g, k), chain' = chain, Issued(g), cont[g].state \notin Final,
           cont[g].state = "dispatched-unknown" => OutcomesOf(g) = {}
    PROVE MovesAll
<1>1. \A h \in Generations : h # g => cont'[h] = cont[h]
  BY ReservedFields
<1>2. ASSUME NEW o \in outcomes
      PROVE o.gen \in Generations /\ o.gen # g
  BY AnsweredState
<1>3. OutcomesKept
  BY <1>1, <1>2 DEF OutcomesKept
<1> QED
  BY <1>1, <1>3, ReservedMoves DEF MovesAll

LEMMA TakenMoves ==
    ASSUME Typed, ContOK, OutcomesOK, NEW f \in Flights, FlightOK(f), ReserveTaken(f)
    PROVE MovesAll
<1>1. PICK g \in Generations : g = flight[f].gen /\ Issued(g)
  BY DEF FlightOK, ReserveTaken
<1>2. chain' = chain
  BY DEF ReserveTaken
<1>3. CASE ReservationCase(f) = "take" /\ Reserved(f, g, flight[f].key)
  <2>1. PICK k \in Keys : k = flight[f].key
    BY DEF FlightOK, ReserveTaken
  <2>2. cont[g].state \notin Final /\ cont[g].state # "dispatched-unknown"
    BY <1>1, <1>3 DEF ReservationCase, Final
  <2> QED
    BY <1>1, <1>2, <1>3, <2>1, <2>2, ReservedMovesAll
<1>4. CASE ReservationCase(f) = "take over" /\ Reserved(f, g, cont[g].key)
  <2>1. cont[g].state = "dispatched-unknown" /\ OutcomesOf(g) = {}
    <3>1. ASSUME cont[g].state # "dispatched-unknown"
          PROVE FALSE
      BY <1>1, <1>4, <3>1 DEF ReservationCase
    <3>2. ASSUME OutcomesOf(g) # {}
          PROVE FALSE
      BY <1>1, <1>4, <3>1, <3>2 DEF ReservationCase
    <3> QED
      BY <3>1, <3>2
  <2>2. PICK k \in Keys : k = cont[g].key
    BY <2>1 DEF ContOK
  <2>3. cont[g].state \notin Final
    BY <2>1 DEF Final
  <2> QED
    BY <1>1, <1>2, <1>4, <2>1, <2>2, <2>3, ReservedMovesAll
<1> QED
  BY <1>1, <1>3, <1>4 DEF ReserveTaken

\* A continuation without a recorded outcome moves.
LEMMA UnansweredMoves ==
    ASSUME Typed, OutcomesOK, Moves, NEW g \in Generations,
           cont[g].state \notin Final \cup {"dispatched-unknown"},
           \A h \in Generations : h # g => cont'[h] = cont[h]
    PROVE MovesAll
<1>1. ASSUME NEW o \in outcomes
      PROVE o.gen \in Generations /\ o.gen # g
  BY AnsweredState
<1>2. OutcomesKept
  BY <1>1 DEF OutcomesKept
<1> QED
  BY <1>2 DEF MovesAll

LEMMA DispatchedMoves ==
    ASSUME Typed, ContOK, OutcomesOK, NEW f \in Flights, FlightOK(f), MarkDispatched(f)
    PROVE MovesAll
<1>1. PICK g \in Generations : g = flight[f].gen /\ Issued(g)
  BY DEF FlightOK, MarkDispatched, Typed, FlightRecords
<1>2. CASE UNCHANGED cont
  BY <1>2, NoneMoves DEF MovesAll, OutcomesKept, MarkDispatched
<1>3. CASE Holds(f, "reserved") /\ cont' = [cont EXCEPT ![g].state = "dispatched-unknown"]
  <2>1. cont[g].state = "reserved" /\ ~Spent(g)
    BY <1>1, <1>3 DEF Holds, ContOK, Final
  <2>2. PICK t \in States : t = "dispatched-unknown"
    BY DEF States
  <2>3. cont' = [cont EXCEPT ![g].state = t] /\ chain' = chain
    BY <1>3, <2>2 DEF MarkDispatched
  <2>4. cont[g].key \in Keys /\ cont[g].epoch > 0
    BY <2>1 DEF ContOK
  <2>5. Moves
    BY <1>1, <2>1, <2>2, <2>3, <2>4, StateMoves
  <2>6. \A h \in Generations : h # g => cont'[h] = cont[h]
    BY <2>3 DEF Typed
  <2> QED
    BY <2>1, <2>5, <2>6, UnansweredMoves DEF Final
<1> QED
  BY <1>1, <1>2, <1>3 DEF MarkDispatched

LEMMA ReleasedMoves ==
    ASSUME Typed, ContOK, OutcomesOK, NEW f \in Flights, FlightOK(f), ReleaseUndispatched(f)
    PROVE MovesAll
<1>1. PICK g \in Generations : g = flight[f].gen /\ Issued(g)
  BY DEF FlightOK, ReleaseUndispatched, Typed, FlightRecords
<1> DEFINE new == [cont[g] EXCEPT !.state = "active", !.key = NoKey, !.lease = FALSE]
<1>2. CASE UNCHANGED cont
  BY <1>2, NoneMoves DEF MovesAll, OutcomesKept, ReleaseUndispatched
<1>3. CASE Holds(f, "reserved") /\ cont' = [cont EXCEPT ![g] = new]
  <2>1. cont[g].state = "reserved" /\ ~Spent(g)
    BY <1>1, <1>3 DEF Holds, ContOK, Final
  <2>2. cont[g] \in ContRecords /\ cont'[g] = new
    BY <1>3 DEF Typed
  <2>3. /\ cont'[g].result = cont[g].result
        /\ cont'[g].credential = cont[g].credential
        /\ cont'[g].state = "active"
    BY <2>2 DEF ContRecords
  <2>4. \A h \in Generations : h # g => cont'[h] = cont[h]
    BY <1>3 DEF Typed
  <2>5. Moves
    BY <1>1, <2>1, <2>3, <2>4, OneMoves DEF ReleaseUndispatched
  <2> QED
    BY <2>1, <2>4, <2>5, UnansweredMoves DEF Final
<1> QED
  BY <1>1, <1>2, <1>3 DEF ReleaseUndispatched

\* A continuation becomes final, whatever it was.
LEMMA FinalMoves ==
    ASSUME Typed, ContOK, OutcomesOK, NEW g \in Generations, Issued(g), chain' = chain,
           NEW t \in {"expired", "revoked"}, cont' = [cont EXCEPT ![g].state = t]
    PROVE MovesAll
<1>1. t \in States /\ t \in Final /\ t # "none" /\ t # "consumed"
      /\ t \notin {"reserved", "dispatched-unknown"}
  BY DEF States, Final
<1>2. Moves
  BY <1>1, StateMoves
<1>3. \A h \in Generations : h # g => cont'[h] = cont[h]
  BY DEF Typed
<1>4. cont'[g].state \in Final
  <2>1. cont[g] \in ContRecords /\ cont'[g] = [cont[g] EXCEPT !.state = t]
    BY DEF Typed
  <2> QED
    BY <1>1, <2>1 DEF ContRecords
<1>5. OutcomesKept
  BY <1>3, <1>4, AnsweredState DEF OutcomesKept
<1> QED
  BY <1>2, <1>3, <1>4, <1>5 DEF MovesAll

LEMMA RevokedMoves ==
    ASSUME Typed, ContOK, OutcomesOK, NEW f \in Flights, FlightOK(f), Revoke(f)
    PROVE MovesAll
<1>1. PICK g \in Generations : g = flight[f].gen /\ Issued(g)
  BY DEF FlightOK, Revoke, Typed, FlightRecords
<1>2. CASE UNCHANGED cont
  BY <1>2, NoneMoves DEF MovesAll, OutcomesKept, Revoke
<1>3. CASE cont' = [cont EXCEPT ![g].state = "revoked"]
  BY <1>1, <1>3, FinalMoves DEF Revoke
<1> QED
  BY <1>1, <1>2, <1>3 DEF Revoke

LEMMA RecoveryMoves ==
    ASSUME Typed, ContOK, OutcomesOK, NEW f \in Flights, FlightOK(f), ReserveRecovery(f)
    PROVE MovesAll
<1>1. PICK g \in Generations : g = flight[f].gen /\ Issued(g)
  BY DEF FlightOK, ReserveRecovery
<1>2. CASE UNCHANGED cont
  BY <1>2, NoneMoves DEF MovesAll, OutcomesKept, ReserveRecovery
<1>3. CASE cont' = [cont EXCEPT ![g].state = "expired"]
  BY <1>1, <1>3, FinalMoves DEF ReserveRecovery
<1>4. CASE g \in Unresolved /\ OutcomesOf(g) = {} /\ Reserved(f, g, cont[g].key)
  <2>1. cont[g].state = "dispatched-unknown"
    BY <1>4 DEF Unresolved
  <2>2. PICK k \in Keys : k = cont[g].key
    BY <2>1 DEF ContOK
  <2>3. cont[g].state \notin Final
    BY <2>1 DEF Final
  <2> QED
    BY <1>1, <1>4, <2>2, <2>3, ReservedMovesAll DEF ReserveRecovery
<1> QED
  BY <1>1, <1>2, <1>3, <1>4 DEF ReserveRecovery

LEMMA TimeMoves ==
    ASSUME Typed, ContOK, OutcomesOK, NEW g \in Generations, LeaseEnds(g) \/ TokenExpires(g)
    PROVE MovesAll
<1>1. cont[g] \in ContRecords /\ Issued(g) /\ chain' = chain
  BY DEF Typed, LeaseEnds, TokenExpires, Issued
<1>2. /\ cont'[g].result = cont[g].result
      /\ cont'[g].credential = cont[g].credential
      /\ cont'[g].state = cont[g].state
      /\ cont'[g].epoch = cont[g].epoch
      /\ cont'[g].key = cont[g].key
      /\ \A h \in Generations : h # g => cont'[h] = cont[h]
  <2>1. CASE LeaseEnds(g)
    BY <2>1, <1>1 DEF LeaseEnds, Typed, ContRecords
  <2>2. CASE TokenExpires(g)
    BY <2>2, <1>1 DEF TokenExpires, Typed, ContRecords
  <2> QED
    BY <2>1, <2>2
<1>3. Moves
  BY <1>1, <1>2, OneMoves DEF ContOK, Issued
<1>4. OutcomesKept
  BY <1>2, AnsweredState DEF OutcomesKept
<1> QED
  BY <1>2, <1>3, <1>4 DEF MovesAll

LEMMA FlightMovesAll ==
    ASSUME Typed, ContOK, OutcomesOK, NEW f \in Flights, FlightOK(f), FlightMoves(f)
    PROVE MovesAll
BY RefusedMoves, TakenMoves, DispatchedMoves, ReleasedMoves, RevokedMoves, RecoveryMoves
   DEF FlightMoves

-----------------------------------------------------------------------------
(* Spending a continuation *)

\* An outcome that may be consumed: its continuation is unspent.
Consumable(o) ==
    /\ o \in OutcomeRecords
    /\ OutcomeOK(o)
    /\ cont[o.gen].state = "dispatched-unknown"
    /\ cont[o.gen].epoch = o.epoch

LEMMA ConsumedFields ==
    ASSUME Typed, ContOK, NEW o, Consumable(o), Consumed(o)
    PROVE /\ o.gen \in Generations /\ Issued(o.gen) /\ ~Spent(o.gen)
          /\ cont'[o.gen].state = "consumed"
          /\ cont'[o.gen].result = {o.result}
          /\ cont'[o.gen].epoch = o.epoch
          /\ cont'[o.gen].credential = cont[o.gen].credential
          /\ o.gen + 1 \in Generations => ~Issued(o.gen + 1)
          /\ o.gen + 1 \in Generations /\ o.result.more =>
                 cont'[o.gen + 1] = Active(cont[o.gen].credential)
          /\ o.gen + 1 \in Generations /\ ~o.result.more => cont'[o.gen + 1] = cont[o.gen + 1]
          /\ \A g \in Generations : g # o.gen /\ g # o.gen + 1 => cont'[g] = cont[g]
<1>1. o.gen \in Generations /\ Issued(o.gen)
  BY DEF Consumable, OutcomeRecords, OutcomeOK
<1>2. ~Spent(o.gen)
  BY <1>1 DEF Consumable, ContOK, Final
<1>3. cont[o.gen] \in ContRecords
  BY <1>1 DEF Typed
<1>4. cont'[o.gen] = [cont[o.gen] EXCEPT !.state = "consumed", !.result = {o.result}]
  BY <1>1 DEF Consumed
<1>5. /\ cont'[o.gen].state = "consumed"
      /\ cont'[o.gen].result = {o.result}
      /\ cont'[o.gen].epoch = cont[o.gen].epoch
      /\ cont'[o.gen].credential = cont[o.gen].credential
  BY <1>3, <1>4 DEF ContRecords
<1>6. o.gen # o.gen + 1
  BY <1>1 DEF Generations
<1>7. /\ o.gen + 1 \in Generations /\ o.result.more =>
             cont'[o.gen + 1] = Active(cont[o.gen].credential)
      /\ o.gen + 1 \in Generations /\ ~o.result.more => cont'[o.gen + 1] = cont[o.gen + 1]
      /\ \A g \in Generations : g # o.gen /\ g # o.gen + 1 => cont'[g] = cont[g]
  BY <1>6 DEF Consumed
<1>8. o.gen + 1 \in Generations => ~Issued(o.gen + 1)
  BY <1>1, <1>2 DEF ContOK
<1> QED
  BY <1>1, <1>2, <1>5, <1>7, <1>8 DEF Consumable

LEMMA ActiveFields ==
    ASSUME NEW credential
    PROVE /\ Active(credential).state = "active"
          /\ Active(credential).credential = credential
          /\ Active(credential).result = {}
BY DEF Active, NoContinuation

LEMMA NoContinuationFields ==
    /\ NoContinuation.state = "none"
    /\ NoContinuation.result = {}
BY DEF NoContinuation

\* What was issued before is kept but for the spent one; only the successor is new.
LEMMA ConsumedOthers ==
    ASSUME Typed, ContOK, NEW o, Consumable(o), Consumed(o), NEW g \in Generations, g # o.gen
    PROVE /\ Spent(g)' <=> Spent(g)
          /\ cont'[g].result = cont[g].result
          /\ Issued(g) => cont'[g] = cont[g]
          /\ Issued(g)' /\ ~Issued(g) =>
                 /\ g = o.gen + 1
                 /\ cont'[g] = Active(cont[o.gen].credential)
          /\ Issued(g) => Spent(g)
<1>1. Issued(g) => Spent(g)
  BY ConsumedFields DEF ContOK
<1>2. CASE g = o.gen + 1
  <2>1. cont[g] = NoContinuation
    BY <1>2, ConsumedFields DEF ContOK
  <2>2. cont'[g] = Active(cont[o.gen].credential) \/ cont'[g] = cont[g]
    BY <1>2, ConsumedFields
  <2>3. cont'[g].result = cont[g].result
    BY <2>1, <2>2, ActiveFields, NoContinuationFields
  <2> QED
    BY <1>1, <1>2, <2>1, <2>2, <2>3, NoContinuationFields DEF Issued, Spent
<1>3. CASE g # o.gen + 1
  BY <1>1, <1>3, ConsumedFields DEF Issued, Spent
<1> QED
  BY <1>2, <1>3

LEMMA ConsumedCarries ==
    ASSUME Typed, ContOK, NEW o, Consumable(o), Consumed(o)
    PROVE Carries
<1> SUFFICES ASSUME NEW g \in Generations, Issued(g)
             PROVE /\ Issued(g)'
                   /\ cont'[g].credential = cont[g].credential
                   /\ Spent(g)'
  BY DEF Carries
<1>1. CASE g = o.gen
  BY <1>1, ConsumedFields DEF Issued, Spent
<1>2. CASE g # o.gen
  BY <1>2, ConsumedOthers DEF Issued
<1> QED
  BY <1>1, <1>2

LEMMA ConsumedContOK ==
    ASSUME Typed, ContOK, NEW o, Consumable(o), Consumed(o)
    PROVE ContOK'
<1>1. o.gen \in Generations /\ chain' # {}
  BY ConsumedFields DEF Consumed
<1>2. ASSUME NEW g \in Generations
      PROVE /\ ~Issued(g)' => cont'[g] = NoContinuation
            /\ Issued(g)' => chain' # {}
            /\ Spent(g)' => cont'[g].state \in Final
            /\ cont'[g].state = "consumed" => Spent(g)'
            /\ \A r, s \in cont'[g].result : r = s
            /\ \A r \in cont'[g].result : r.gen = g + 1 /\ r.by = cont'[g].epoch
            /\ cont'[g].state \in {"reserved", "dispatched-unknown"} =>
                   cont'[g].key \in Keys /\ cont'[g].epoch > 0
  <2>1. CASE g = o.gen
    <3>1. o.result.gen = o.gen + 1 /\ o.result.by = o.epoch
      BY DEF Consumable, OutcomeOK
    <3> QED
      BY <1>1, <2>1, <3>1, ConsumedFields DEF Issued, Spent, Final
  <2>2. CASE g # o.gen /\ cont'[g] = cont[g]
    BY <1>1, <2>2 DEF ContOK, Issued, Spent
  <2>3. CASE g # o.gen /\ cont'[g] # cont[g]
    <3>1. ~Issued(g)
      BY <2>3, ConsumedOthers
    <3>2. Issued(g)'
      <4>1. cont[g] = NoContinuation
        BY <3>1 DEF ContOK
      <4>2. cont'[g] = Active(cont[o.gen].credential) \/ cont'[g] = cont[g]
        BY <2>3, ConsumedFields
      <4> QED
        BY <2>3, <4>2, ActiveFields DEF Issued
    <3>3. cont'[g] = Active(cont[o.gen].credential)
      BY <2>3, <3>1, <3>2, ConsumedOthers
    <3> QED
      BY <1>1, <3>3, ActiveFields DEF Issued, Spent
  <2> QED
    BY <2>1, <2>2, <2>3
<1>3. ASSUME NEW g \in Generations, Issued(g)', ~Spent(g)'
      PROVE g = o.gen + 1
  <2>1. g # o.gen
    BY <1>3, ConsumedFields DEF Spent
  <2> QED
    BY <1>3, <2>1, ConsumedOthers
<1>4. ASSUME NEW g \in Generations, g + 1 \in Generations, Issued(g + 1)'
      PROVE Spent(g)'
  <2>1. CASE g = o.gen
    BY <2>1, ConsumedFields DEF Spent
  <2>2. CASE g # o.gen
    <3>1. Issued(g + 1)
      <4>1. CASE g + 1 = o.gen
        BY <4>1, ConsumedFields
      <4>2. CASE g + 1 # o.gen
        <5>1. g + 1 # o.gen + 1
          BY <1>1, <2>2 DEF Generations
        <5> QED
          BY <1>4, <4>2, <5>1, ConsumedOthers
      <4> QED
        BY <4>1, <4>2
    <3>2. Spent(g)
      BY <1>4, <3>1 DEF ContOK
    <3> QED
      BY <2>2, <3>2, ConsumedOthers
  <2> QED
    BY <2>1, <2>2
<1> QED
  BY <1>2, <1>3, <1>4 DEF ContOK

\* The chain's record after the outcome.
LEMMA ConsumedChain ==
    ASSUME Typed, NEW o, Consumable(o), Consumed(o), NEW c \in ChainRecords, chain = {c}
    PROVE \E d \in ChainRecords :
              /\ chain' = {d}
              /\ d.pages = c.pages + o.pages
              /\ d.seen = c.seen \cup o.result.items
              /\ d.result = c.result
              /\ d.secret = c.secret
<1>1. PICK p \in OutcomeRecords : p = o
  BY DEF Consumable
<1> DEFINE d == [c EXCEPT !.pages = @ + o.pages, !.seen = @ \cup o.result.items]
<1>2. chain' = {d}
  <2>1. Consumed(p)
    BY <1>1
  <2>2. chain' = {[c EXCEPT !.pages = @ + p.pages, !.seen = @ \cup p.result.items]}
    BY <2>1, ConsumedTyped
  <2> QED
    BY <1>1, <2>2
<1>3. \E e \in ChainRecords : chain' = {e}
  <2>1. Consumed(p)
    BY <1>1
  <2> QED
    BY <2>1, ConsumedTyped
<1>4. d \in ChainRecords
  BY <1>2, <1>3
<1>5. /\ d.pages = c.pages + o.pages
      /\ d.seen = c.seen \cup o.result.items
      /\ d.result = c.result
      /\ d.secret = c.secret
  BY DEF ChainRecords
<1> HIDE DEF d
<1> QED
  BY <1>2, <1>4, <1>5

\* Handed out is what was, and the outcome's result.
LEMMA ConsumedHanded ==
    ASSUME Typed, ContOK, NEW o, Consumable(o), Consumed(o), NEW r
    PROVE r \in Handed' <=> r \in Handed \/ r = o.result
<1>1. PICK c \in ChainRecords : chain = {c}
  <2>1. chain # {}
    BY ConsumedFields, IssuedChain
  <2> QED
    BY <2>1 DEF Typed
<1>2. PICK d \in ChainRecords : chain' = {d} /\ d.result = c.result
  BY <1>1, ConsumedChain
<1>3. r \in Handed' <=> \/ \E g \in Generations : r \in cont'[g].result
                        \/ \E e \in chain' : r = e.result
  BY DEF Handed
<1>4. (\E e \in chain' : r = e.result) <=> (\E e \in chain : r = e.result)
  BY <1>1, <1>2
<1>5. (\E g \in Generations : r \in cont'[g].result) <=>
      (\E g \in Generations : r \in cont[g].result) \/ r = o.result
  <2>1. ASSUME NEW g \in Generations, r \in cont'[g].result
        PROVE (\E h \in Generations : r \in cont[h].result) \/ r = o.result
    BY <2>1, ConsumedFields, ConsumedOthers
  <2>2. ASSUME NEW g \in Generations, r \in cont[g].result
        PROVE \E h \in Generations : r \in cont'[h].result
    <3>1. g # o.gen
      BY <2>2, ConsumedFields DEF Spent
    <3> QED
      BY <2>2, <3>1, ConsumedOthers
  <2>3. ASSUME r = o.result
        PROVE \E h \in Generations : r \in cont'[h].result
    BY <2>3, ConsumedFields
  <2> QED
    BY <2>1, <2>2, <2>3
<1> QED
  BY <1>3, <1>4, <1>5, HandedBy

LEMMA ConsumedChainOK ==
    ASSUME Typed, ContOK, ChainOK, NEW o, Consumable(o), Consumed(o)
    PROVE ChainOK'
<1>1. PICK c \in ChainRecords : chain = {c}
  <2>1. chain # {}
    BY ConsumedFields, IssuedChain
  <2> QED
    BY <2>1 DEF Typed
<1>2. PICK d \in ChainRecords :
          /\ chain' = {d}
          /\ d.pages = c.pages + o.pages
          /\ d.seen = c.seen \cup o.result.items
          /\ d.result = c.result
  BY <1>1, ConsumedChain
<1>3. /\ o.result.items \cap c.seen = {}
      /\ o.result.pages = c.pages + o.pages
      /\ o.result.unique = Cardinality(c.seen) + Cardinality(o.result.items)
      /\ Cardinality(c.seen \cup o.result.items) <= MaxChainItems
  BY <1>1, ConsumedFields DEF Consumable, OutcomeOK, Extends
<1>4. c.seen \in SUBSET Items /\ o.result.items \in SUBSET Items
  BY DEF ChainRecords, Consumable, OutcomeRecords, ResultType
<1>5. o.result.unique = Cardinality(d.seen) /\ Cardinality(d.seen) <= MaxChainItems
  BY <1>2, <1>3, <1>4, DisjointItems
<1>6. \A r \in Handed : r.items \subseteq c.seen
  BY <1>1 DEF ChainOK
<1>7. \A r \in Handed' : r.items \subseteq d.seen
  BY <1>2, <1>6, ConsumedHanded
<1>8. ASSUME NEW r \in Handed', NEW s \in Handed', r.gen # s.gen
      PROVE r.items \cap s.items = {}
  <2>1. (r \in Handed \/ r = o.result) /\ (s \in Handed \/ s = o.result)
    BY ConsumedHanded
  <2>2. CASE r \in Handed /\ s \in Handed
    BY <1>1, <1>8, <2>2 DEF ChainOK
  <2>3. CASE r \in Handed /\ s = o.result
    BY <1>3, <1>6, <2>3
  <2>4. CASE r = o.result /\ s \in Handed
    BY <1>3, <1>6, <2>4
  <2> QED
    BY <1>8, <2>1, <2>2, <2>3, <2>4
<1>9. \E r \in Handed' : r.pages = d.pages /\ r.unique = Cardinality(d.seen)
  <2>1. o.result \in Handed'
    BY ConsumedHanded
  <2> QED
    BY <1>2, <1>3, <1>5, <2>1
<1>10. d.result.gen = 1
  BY <1>1, <1>2 DEF ChainOK
<1> QED
  BY <1>2, <1>5, <1>7, <1>8, <1>9, <1>10 DEF ChainOK

LEMMA ConsumedOutcomesOK ==
    ASSUME Typed, ContOK, OutcomesOK, NEW o, Consumable(o), Consumed(o), outcomes' = outcomes
    PROVE OutcomesOK'
<1>1. ASSUME NEW g \in Generations, Issued(g)
      PROVE \/ cont'[g].state \in Final
            \/ /\ cont'[g].state = cont[g].state
               /\ cont'[g].epoch = cont[g].epoch
               /\ cont'[g].key = cont[g].key
  BY <1>1, ConsumedFields, ConsumedOthers DEF Final
<1>2. ASSUME NEW g \in Generations, cont[g].state \in Final
      PROVE cont'[g].state \in Final
  <2>1. Issued(g)
    BY <1>2 DEF Issued, Final
  <2> QED
    BY <1>1, <1>2, <2>1
<1>3. OutcomesKept
  <2> SUFFICES ASSUME NEW p \in outcomes
               PROVE \/ cont'[p.gen].state \in Final
                     \/ /\ cont'[p.gen].state = cont[p.gen].state
                        /\ cont'[p.gen].epoch = cont[p.gen].epoch
                        /\ cont'[p.gen].key = cont[p.gen].key
    BY DEF OutcomesKept
  <2>1. p.gen \in Generations /\ Issued(p.gen)
    BY DEF OutcomesOK, OutcomeOK, Typed, OutcomeRecords
  <2> QED
    BY <1>1, <2>1
<1> QED
  BY <1>2, <1>3, ConsumedCarries, OutcomesCarried

\* What a step that spends an outcome keeps of the invariant.
LEMMA ConsumedAll ==
    ASSUME Typed, ContOK, ChainOK, OutcomesOK, NEW o, Consumable(o), Consumed(o),
           outcomes' = outcomes
    PROVE ContOK' /\ ChainOK' /\ OutcomesOK' /\ Carries
BY ConsumedContOK, ConsumedChainOK, ConsumedOutcomesOK, ConsumedCarries

\* A recorded outcome of a dispatched continuation may be consumed.
LEMMA SettledConsumable ==
    ASSUME Typed, OutcomesOK, NEW g, cont[g].state = "dispatched-unknown", OutcomesOf(g) # {}
    PROVE /\ Consumable(The(OutcomesOf(g)))
          /\ The(OutcomesOf(g)).gen = g
<1>1. PICK o \in OutcomesOf(g) : o = The(OutcomesOf(g))
  BY TheSome
<1>2. o \in outcomes /\ o.gen = g /\ o.epoch = cont[g].epoch
  BY OutcomesOfGeneration
<1> QED
  BY <1>1, <1>2 DEF Consumable, OutcomesOK, Typed

-----------------------------------------------------------------------------
(* The store's part of the invariant is kept by every step *)

Stored == ContOK /\ ChainOK /\ OutcomesOK /\ AnswersOK

LEMMA SameStored ==
    ASSUME Typed, Stored, UNCHANGED <<chain, cont, outcomes>>, answers' \subseteq answers \cup Handed
    PROVE Stored' /\ Carries /\ Descends
<1>1. Moves
  BY NoneMoves DEF Stored
<1>2. Carries /\ ContOK' /\ ChainOK' /\ Handed' = Handed
  BY <1>1, MovesCarries, MovesContOK, SameChainOK, HandedKept DEF Stored
<1>3. OutcomesOK'
  BY <1>2, OutcomesCarried DEF OutcomesKept, Stored
<1> QED
  BY <1>1, <1>2, <1>3, MovesDescends DEF Stored, AnswersOK

LEMMA MovedStored ==
    ASSUME Typed, Stored, MovesAll, UNCHANGED <<outcomes, answers>>
    PROVE Stored' /\ Carries /\ Descends
<1>1. Carries /\ ContOK' /\ ChainOK' /\ Handed' = Handed
  BY MovesCarries, MovesContOK, SameChainOK, HandedKept DEF Stored, MovesAll, Moves
<1>2. OutcomesOK'
  BY <1>1, OutcomesCarried DEF MovesAll, Stored
<1> QED
  BY <1>1, <1>2, MovesDescends DEF Stored, AnswersOK, MovesAll

LEMMA ConsumedDescends ==
    ASSUME Typed, ContOK, NEW o, Consumable(o), Consumed(o)
    PROVE Descends
<1>1. PICK c \in ChainRecords : chain = {c}
  <2>1. chain # {}
    BY ConsumedFields, IssuedChain
  <2> QED
    BY <2>1 DEF Typed
<1>2. PICK d \in ChainRecords : chain' = {d} /\ d.secret = c.secret
  BY <1>1, ConsumedChain
<1>3. ASSUME NEW g \in Generations, Issued(g)'
      PROVE \E h \in Generations : Issued(h) /\ cont'[g].credential = cont[h].credential
  <2>1. CASE g = o.gen
    BY <2>1, ConsumedFields
  <2>2. CASE g # o.gen /\ Issued(g)
    BY <2>2, ConsumedOthers
  <2>3. CASE g # o.gen /\ ~Issued(g)
    BY <1>3, <2>3, ConsumedOthers, ConsumedFields, ActiveFields
  <2> QED
    BY <2>1, <2>2, <2>3
<1> QED
  BY <1>1, <1>2, <1>3 DEF Descends

LEMMA ConsumedStored ==
    ASSUME Typed, Stored, NEW o, Consumable(o), Consumed(o), outcomes' = outcomes,
           answers' \subseteq answers \cup {o.result}
    PROVE Stored' /\ Carries /\ Descends
<1>1. ContOK' /\ ChainOK' /\ OutcomesOK' /\ Carries
  BY ConsumedAll DEF Stored
<1>2. \A r \in answers' : r \in Handed'
  BY ConsumedHanded DEF Stored, AnswersOK
<1> QED
  BY <1>1, <1>2, ConsumedDescends DEF Stored, AnswersOK

LEMMA RecordedStored ==
    ASSUME Typed, Stored, NEW f \in Flights, FlightOK(f), RecordOutcome(f)
    PROVE Stored' /\ Carries /\ Descends
<1>1. UNCHANGED <<chain, cont, answers>>
  BY DEF RecordOutcome
<1>2. Moves
  BY <1>1, NoneMoves DEF Stored
<1>3. Carries /\ Descends /\ ContOK' /\ ChainOK' /\ Handed' = Handed
  BY <1>1, <1>2, MovesCarries, MovesDescends, MovesContOK, SameChainOK, HandedKept DEF Stored
<1>4. PICK o \in OutcomeRecords : o = The(flight[f].outcome) /\ OutcomeOK(o)
  BY FlightOutcome DEF RecordOutcome
<1>5. OutcomeOK(o)'
  BY <1>3, <1>4, OutcomeCarried
<1>6. CASE UNCHANGED outcomes
  BY <1>1, <1>3, <1>6, OutcomesCarried DEF OutcomesKept, Stored, AnswersOK
<1>7. CASE Matches(o) /\ outcomes' = outcomes \cup {o}
  <2>1. ASSUME NEW p \in outcomes'
        PROVE /\ OutcomeOK(p)'
              /\ \/ cont'[p.gen].state \in Final
                 \/ /\ cont'[p.gen].state = "dispatched-unknown"
                    /\ cont'[p.gen].epoch = p.epoch
                    /\ cont'[p.gen].key = p.key
    <3>1. CASE p = o
      BY <1>1, <1>5, <1>7, <3>1 DEF Matches
    <3>2. CASE p \in outcomes
      <4>1. PICK q \in OutcomeRecords : q = p
        BY <3>2 DEF Typed
      <4>2. OutcomeOK(q)'
        BY <1>3, <3>2, <4>1, OutcomeCarried DEF Stored, OutcomesOK
      <4>3. OutcomeOK(p)'
        BY <1>1, <4>1, <4>2 DEF OutcomeOK, Issued, Extends, Spent
      <4> QED
        BY <1>1, <3>2, <4>3 DEF Stored, OutcomesOK
    <3> QED
      BY <1>7, <2>1, <3>1, <3>2
  <2>2. OutcomesOK'
    BY <2>1 DEF OutcomesOK
  <2> QED
    BY <1>1, <1>3, <2>2 DEF Stored, AnswersOK
<1> QED
  BY <1>4, <1>6, <1>7 DEF RecordOutcome

LEMMA CommittedStored ==
    ASSUME Typed, Stored, NEW f \in Flights, CommitInitial(f)
    PROVE Stored' /\ Carries /\ (chain = {} \/ Descends)
<1>1. CASE chain # {}
  <2>1. UNCHANGED <<chain, cont, outcomes>> /\ answers' = answers \cup {The(chain).result}
    BY <1>1 DEF CommitInitial, AlreadyCommitted
  <2>2. The(chain) \in chain
    BY <1>1, TheSome
  <2>3. The(chain).result \in Handed
    BY <2>2, HandedBy
  <2> QED
    BY <2>1, <2>3, SameStored
<1>2. CASE chain = {}
  <2>1. \A g \in Generations : ~Issued(g) /\ cont[g] = NoContinuation
    BY <1>2 DEF Stored, ContOK
  <2>2. Carries
    BY <2>1 DEF Carries
  <2>3. outcomes = {}
    <3> SUFFICES ASSUME NEW o \in outcomes
                 PROVE FALSE
      OBVIOUS
    <3> QED
      BY <2>1 DEF Stored, OutcomesOK, OutcomeOK, Typed, OutcomeRecords
  <2>4. \A r : r \notin Handed
    BY <1>2, <2>1, NoContinuationFields, HandedBy
  <2>5. answers = {}
    BY <2>4 DEF Stored, AnswersOK
  <2> DEFINE built(r) == Result(1, r.items, r.pages, Cardinality(r.items), r.more, f)
             made(r) == [pages |-> r.pages, seen |-> r.items, result |-> built(r),
                         secret |-> flight[f].secret]
  <2>6. PICK r \in Responses({}, 0) :
            /\ chain' = {made(r)}
            /\ cont' = IF r.more THEN [cont EXCEPT ![1] = Active(flight[f].credential)] ELSE cont
            /\ answers' = answers \cup {built(r)}
    BY <1>2 DEF CommitInitial, AlreadyCommitted
  <2>7. Cardinality(r.items) <= MaxChainItems
    <3>1. Cardinality({} \cup r.items) <= MaxChainItems
      BY ResponseTyped
    <3>2. {} \cup r.items = r.items
      OBVIOUS
    <3> QED
      BY <3>1, <3>2
  <2>8. /\ built(r).gen = 1 /\ built(r).items = r.items
        /\ built(r).pages = r.pages /\ built(r).unique = Cardinality(r.items)
    BY DEF Result
  <2>9. /\ made(r).result = built(r) /\ made(r).seen = r.items /\ made(r).pages = r.pages
    OBVIOUS
  <2> HIDE DEF built, made
  <2>10. ASSUME NEW g \in Generations
         PROVE \/ cont'[g] = NoContinuation
               \/ g = 1 /\ cont'[g] = Active(flight[f].credential)
    BY <2>1, <2>6 DEF Typed
  <2>11. \A g \in Generations : cont'[g].result = {}
    BY <2>10, NoContinuationFields, ActiveFields
  <2>12. Handed' = {built(r)}
    <3>1. ASSUME NEW x
          PROVE x \in Handed' <=> x = built(r)
      <4>1. x \in Handed' <=> \/ \E g \in Generations : x \in cont'[g].result
                              \/ \E e \in chain' : x = e.result
        BY DEF Handed
      <4> QED
        BY <2>6, <2>9, <2>11, <4>1
    <3> QED
      BY <3>1
  <2>13. ChainOK'
    BY <2>6, <2>7, <2>8, <2>9, <2>12 DEF ChainOK
  <2>14. ContOK'
    <3>1. \A g \in Generations :
              /\ ~Issued(g)' => cont'[g] = NoContinuation
              /\ Issued(g)' => g = 1 /\ cont'[g].state = "active"
              /\ ~Spent(g)'
      BY <2>10, <2>11, NoContinuationFields, ActiveFields DEF Issued, Spent
    <3>2. \A g \in Generations :
              cont'[g].state \notin {"consumed", "reserved", "dispatched-unknown"}
      BY <2>10, NoContinuationFields, ActiveFields
    <3>3. \A g \in Generations : g + 1 # 1
      BY Bounds DEF Generations
    <3> QED
      BY <2>6, <2>11, <3>1, <3>2, <3>3 DEF ContOK
  <2>15. OutcomesOK'
    BY <2>3 DEF OutcomesOK, CommitInitial
  <2> QED
    BY <1>2, <2>2, <2>5, <2>6, <2>12, <2>13, <2>14, <2>15 DEF Stored, AnswersOK
<1> QED
  BY <1>1, <1>2

\* The chain is committed.
FirstCommit == chain = {} /\ \E f \in Flights : CommitInitial(f)

LEMMA StoredStep ==
    ASSUME Typed, Stored, \A f \in Flights : FlightOK(f), [Next]_vars
    PROVE /\ Stored' /\ Carries
          /\ Descends \/ FirstCommit
<1>1. CASE UNCHANGED vars
  BY <1>1, SameStored DEF vars
<1>2. ASSUME NEW f \in Flights, Step(f)
      PROVE Stored' /\ Carries /\ (Descends \/ FirstCommit)
  <2>0. FlightOK(f)
    OBVIOUS
  <2>1. CASE Search(f) \/ Continue(f)
    BY <2>1, SameStored DEF Search, Continue, Begin
  <2>2. CASE SearchReplay(f)
    <3>1. The(chain) \in chain
      BY <2>2, TheSome DEF SearchReplay
    <3>2. The(chain).result \in Handed
      BY <3>1, HandedBy
    <3> QED
      BY <2>2, <3>2, SameStored DEF SearchReplay
  <2>3. CASE BindCredential(f) \/ OpenFails(f) \/ ReadChain(f)
    BY <2>3, SameStored DEF BindCredential, OpenFails, ReadChain
  <2>4. CASE Respond(f) \/ ProviderFails(f) \/ Crash(f)
    BY <2>4, SameStored DEF Respond, ProviderFails, Crash
  <2>5. CASE RecoverPending(f)
    BY <2>5, SameStored DEF RecoverPending
  <2>6. CASE CommitInitial(f)
    BY <2>6, CommittedStored DEF FirstCommit
  <2>7. CASE FlightMoves(f)
    <3>1. MovesAll
      BY <2>0, <2>7, FlightMovesAll DEF Stored
    <3>2. UNCHANGED <<outcomes, answers>>
      BY <2>7 DEF FlightMoves, ReserveRefused, ReserveTaken, MarkDispatched,
                  ReleaseUndispatched, Revoke, ReserveRecovery
    <3> QED
      BY <3>1, <3>2, MovedStored
  <2>8. CASE RecordOutcome(f)
    BY <2>0, <2>8, RecordedStored
  <2>9. CASE ReserveReplayed(f)
    <3>1. PICK g \in Generations : g = flight[f].gen
      BY <2>0, <2>9 DEF FlightOK, ReserveReplayed
    <3>2. CASE answers' = answers \cup cont[g].result /\ UNCHANGED <<chain, cont>>
      <4>1. cont[g].result \subseteq Handed
        BY HandedBy
      <4> QED
        BY <2>9, <3>2, <4>1, SameStored DEF ReserveReplayed
    <3>3. CASE /\ ReservationCase(f) = "settle"
               /\ Consumed(The(OutcomesOf(g)))
               /\ answers' = answers \cup {The(OutcomesOf(g)).result}
      <4>1. cont[g].state = "dispatched-unknown" /\ OutcomesOf(g) # {}
        BY <3>1, <3>3 DEF ReservationCase
      <4>2. PICK o \in OutcomesOf(g) : o = The(OutcomesOf(g))
        BY <4>1, TheSome
      <4>3. Consumable(o)
        BY <4>1, <4>2, SettledConsumable DEF Stored
      <4> QED
        BY <2>9, <3>3, <4>2, <4>3, ConsumedStored DEF ReserveReplayed
    <3> QED
      BY <2>9, <3>1, <3>2, <3>3 DEF ReserveReplayed
  <2>10. CASE ConsumeOutcome(f)
    <3>1. PICK o \in OutcomeRecords : o = The(flight[f].outcome) /\ OutcomeOK(o)
      BY <2>0, <2>10, FlightOutcome DEF ConsumeOutcome
    <3>2. CASE answers' = answers \cup cont[o.gen].result /\ UNCHANGED <<chain, cont>>
      <4>1. o.gen \in Generations
        BY DEF OutcomeRecords
      <4>2. cont[o.gen].result \subseteq Handed
        BY <4>1, HandedBy
      <4> QED
        BY <2>10, <3>2, <4>2, SameStored DEF ConsumeOutcome
    <3>3. CASE Matches(o) /\ Consumed(o) /\ answers' = answers \cup {o.result}
      <4>1. Consumable(o)
        BY <3>1, <3>3 DEF Consumable, Matches
      <4> QED
        BY <2>10, <3>3, <4>1, ConsumedStored DEF ConsumeOutcome
    <3>4. CASE UNCHANGED <<chain, cont, answers>>
      BY <2>10, <3>4, SameStored DEF ConsumeOutcome
    <3> QED
      BY <2>10, <3>1, <3>2, <3>3, <3>4 DEF ConsumeOutcome
  <2>11. CASE RecoverOutcome(f)
    <3>1. PICK g \in Unresolved : OutcomesOf(g) # {} /\ Consumed(The(OutcomesOf(g)))
      BY <2>11 DEF RecoverOutcome
    <3>2. cont[g].state = "dispatched-unknown"
      BY DEF Unresolved
    <3>3. PICK o \in OutcomesOf(g) : o = The(OutcomesOf(g))
      BY <3>1, TheSome
    <3>4. Consumable(o)
      BY <3>1, <3>2, <3>3, SettledConsumable DEF Stored
    <3> QED
      BY <2>11, <3>1, <3>3, <3>4, ConsumedStored DEF RecoverOutcome
  <2> QED
    BY <1>2, <2>1, <2>2, <2>3, <2>4, <2>5, <2>6, <2>7, <2>8, <2>9, <2>10, <2>11
       DEF Step, FlightMoves
<1>3. ASSUME NEW g \in Generations, LeaseEnds(g) \/ TokenExpires(g)
      PROVE Stored' /\ Carries /\ (Descends \/ FirstCommit)
  <2>1. MovesAll
    BY <1>3, TimeMoves DEF Stored
  <2>2. UNCHANGED <<outcomes, answers>>
    BY <1>3 DEF LeaseEnds, TokenExpires
  <2> QED
    BY <2>1, <2>2, MovedStored
<1>4. CASE Rotate
  BY <1>4, SameStored DEF Rotate
<1> QED
  BY <1>1, <1>2, <1>3, <1>4 DEF Next

-----------------------------------------------------------------------------
(* The calls' part of the invariant *)

LEMMA OtherFlight ==
    ASSUME Typed, Carries, NEW e \in Flights, FlightOK(e), flight'[e] = flight[e]
    PROVE FlightOK(e)'
<1> DEFINE me == flight[e]
<1>1. me \in FlightRecords
  BY DEF Typed
<1>2. /\ me.at = "idle" => me = Idle
      /\ me.does = "none" <=> me.at = "idle"
      /\ me.at = "searching" => me.does = "search"
      /\ me.at = "reserving" => me.does = "continue"
      /\ me.at = "pending" => me.does = "recover"
      /\ me.at = "pending" => me.credential = 0
      /\ me.does = "search" => me.at \in {"resolving", "searching"}
      /\ me.does = "continue" => me.key \in Keys
      /\ me.does = "recover" /\ me.at # "pending" => me.key \in Keys /\ me.epoch > 0
      /\ me.at \notin {"idle", "pending"} => me.secret \in Secrets
      /\ me.at \notin {"idle", "pending", "resolving"} => me.credential # 0
  BY DEF FlightOK
<1>3. me.at \in {"holding", "reading"} \cup Asking => me.gen \in Generations /\ Issued(me.gen)
  <2>1. me.at \in {"holding", "reading"} \cup Asking => me.does \in {"continue", "recover"}
    BY <1>1, <1>2 DEF FlightRecords, Asking
  <2> QED
    BY <2>1 DEF FlightOK
<1>4. me.does \in {"continue", "recover"} => me.gen \in Generations /\ Issued(me.gen)'
  BY DEF FlightOK, Carries
<1>5. me.at \in {"holding"} \cup Asking =>
          /\ me.credential = cont'[me.gen].credential
          /\ me.key \in Keys /\ me.epoch > 0
  BY <1>3 DEF FlightOK, Carries
<1>6. me.at = "reading" /\ ~Spent(me.gen)' =>
          \A c \in chain' : me.seen = c.seen /\ me.pages = c.pages
  BY <1>3 DEF FlightOK, Carries
<1>7. me.at \in {"responded", "recorded"} =>
          \E o \in me.outcome : me.outcome = {o} /\ OutcomeOK(o)'
  <2> SUFFICES ASSUME me.at \in {"responded", "recorded"}
               PROVE \E o \in me.outcome : me.outcome = {o} /\ OutcomeOK(o)'
    OBVIOUS
  <2>1. PICK o \in me.outcome : me.outcome = {o} /\ OutcomeOK(o)
    BY DEF FlightOK
  <2>2. o \in OutcomeRecords
    BY <1>1, <2>1 DEF FlightRecords
  <2> QED
    BY <2>1, <2>2, OutcomeCarried
<1> QED
  BY <1>2, <1>4, <1>5, <1>6, <1>7 DEF FlightOK

LEMMA IdleFlight ==
    ASSUME NEW e \in Flights, flight'[e] = Idle
    PROVE FlightOK(e)'
<1>1. Idle.at = "idle" /\ Idle.does = "none" /\ Idle.credential = 0
  BY DEF Idle
<1> QED
  BY <1>1 DEF FlightOK, Asking

LEMMA EndedFlight ==
    ASSUME Typed, NEW f \in Flights, Ends(f)
    PROVE FlightOK(f)'
<1>1. flight'[f] = Idle
  BY DEF Ends, Typed
<1> QED
  BY <1>1, IdleFlight

LEMMA BegunFlight ==
    ASSUME Typed, Carries, NEW f \in Flights, NEW does \in {"search", "continue"},
           NEW g \in {0} \cup Generations, NEW k \in Keys \cup {NoKey}, Begin(f, does, g, k),
           does = "continue" => g \in Generations /\ Issued(g) /\ k \in Keys
    PROVE FlightOK(f)'
<1> DEFINE r == [Idle EXCEPT !.at = "resolving", !.does = does, !.gen = g, !.key = k,
                             !.secret = secret]
<1>1. flight'[f] = r
  BY DEF Begin, Typed
<1>2. r.at = "resolving" /\ r.does = does /\ r.gen = g /\ r.key = k /\ r.secret = secret
  BY IdleTyped DEF FlightRecords
<1>3. secret \in Secrets
  BY DEF Typed
<1> HIDE DEF r
<1> QED
  BY <1>1, <1>2, <1>3 DEF FlightOK, Asking, Carries

LEMMA BoundFlight ==
    ASSUME Typed, Carries, NEW f \in Flights, FlightOK(f), BindCredential(f),
           binding.epoch = 0 => binding.fingerprint = 0
    PROVE /\ FlightOK(f)'
          /\ flight'[f].secret = flight[f].secret
          /\ flight'[f].credential = binding'.epoch
          /\ binding'.fingerprint = flight[f].secret
          /\ flight[f].secret # 0
<1> DEFINE own == flight[f].secret
           epoch == IF binding.fingerprint = own THEN binding.epoch ELSE binding.epoch + 1
           at == CASE flight[f].does = "search" -> "searching"
                   [] flight[f].does = "continue" -> "reserving"
                   [] flight[f].does = "recover" /\ ~SameBinding(flight[f].gen, epoch) -> "revoking"
                   [] OTHER -> "holding"
           r == [flight[f] EXCEPT !.credential = epoch, !.at = at]
<1>1. flight[f] \in FlightRecords /\ flight[f].at = "resolving"
  BY DEF Typed, BindCredential
<1>2. own \in Secrets /\ own # 0
  BY <1>1, Bounds DEF FlightOK, Secrets
<1>3. epoch \in Nat /\ epoch # 0
  BY <1>2 DEF Typed
<1>4. flight[f].does \in {"search", "continue", "recover"}
  BY <1>1 DEF FlightOK, FlightRecords
<1>5. /\ flight[f].does = "search" => at = "searching"
      /\ flight[f].does = "continue" => at = "reserving"
      /\ flight[f].does = "recover" =>
             at = "revoking" \/ (at = "holding" /\ cont[flight[f].gen].credential = epoch)
  BY DEF SameBinding
<1>6. flight'[f] = r
  BY DEF BindCredential, Typed
<1>7. binding'.fingerprint = own /\ binding'.epoch = epoch
  BY DEF BindCredential
<1> HIDE DEF at, epoch, own
<1>8. /\ r.at = at /\ r.credential = epoch /\ r.does = flight[f].does /\ r.gen = flight[f].gen
      /\ r.key = flight[f].key /\ r.secret = flight[f].secret /\ r.epoch = flight[f].epoch
  BY <1>1 DEF FlightRecords
<1> HIDE DEF r
<1>9. /\ flight[f].does \in {"continue", "recover"} =>
             \E g \in Generations : /\ g = flight[f].gen
                                    /\ Issued(g)'
                                    /\ cont'[g].credential = cont[g].credential
      /\ flight[f].does = "continue" => flight[f].key \in Keys
      /\ flight[f].does = "recover" => flight[f].key \in Keys /\ flight[f].epoch > 0
  BY <1>1 DEF FlightOK, Carries
<1>10. FlightOK(f)'
  <2>1. CASE flight[f].does = "search"
    BY <1>2, <1>3, <1>5, <1>6, <1>8, <2>1 DEF FlightOK, Asking, own
  <2>2. CASE flight[f].does = "continue"
    BY <1>2, <1>3, <1>5, <1>6, <1>8, <1>9, <2>2 DEF FlightOK, Asking, own
  <2>3. CASE flight[f].does = "recover"
    BY <1>2, <1>3, <1>5, <1>6, <1>8, <1>9, <2>3 DEF FlightOK, Asking, own
  <2> QED
    BY <1>4, <2>1, <2>2, <2>3
<1> QED
  BY <1>2, <1>6, <1>7, <1>8, <1>10 DEF own

\* A call that goes on from where it was, with all it knows.
LEMMA WentFlight ==
    ASSUME Typed, Carries, NEW f \in Flights, FlightOK(f), NEW at \in Places, Goes(f, at),
           flight[f].at \in {"holding"} \cup Asking,
           at \in {"revoking", "dispatched"} \/ (at = "recorded" /\ flight[f].at = "responded")
    PROVE FlightOK(f)'
<1>1. flight[f] \in FlightRecords
  BY DEF Typed
<1>2. flight'[f] = [flight[f] EXCEPT !.at = at]
  BY DEF Goes, Typed
<1>3. /\ flight'[f].at = at
      /\ flight'[f].does = flight[f].does
      /\ flight'[f].gen = flight[f].gen
      /\ flight'[f].key = flight[f].key
      /\ flight'[f].epoch = flight[f].epoch
      /\ flight'[f].secret = flight[f].secret
      /\ flight'[f].credential = flight[f].credential
      /\ flight'[f].outcome = flight[f].outcome
  BY <1>1, <1>2 DEF FlightRecords
<1>4. flight[f].does \in {"continue", "recover"}
  BY <1>1 DEF FlightOK, FlightRecords, Asking
<1>5. PICK g \in Generations : g = flight[f].gen /\ Issued(g)
  BY <1>4 DEF FlightOK
<1>6. /\ Issued(g)'
      /\ cont'[g].credential = cont[g].credential
      /\ flight[f].credential = cont[g].credential
  BY <1>5 DEF FlightOK, Carries, Asking
<1>7. /\ flight[f].key \in Keys /\ flight[f].epoch > 0
      /\ flight[f].secret \in Secrets /\ flight[f].credential # 0
  BY <1>4 DEF FlightOK, Asking
<1>8. at = "recorded" => \E o \in flight[f].outcome : flight[f].outcome = {o} /\ OutcomeOK(o)'
  <2> SUFFICES ASSUME flight[f].at = "responded"
               PROVE \E o \in flight[f].outcome : flight[f].outcome = {o} /\ OutcomeOK(o)'
    BY DEF Asking
  <2>1. PICK o \in flight[f].outcome : flight[f].outcome = {o} /\ OutcomeOK(o)
    BY DEF FlightOK
  <2>2. o \in OutcomeRecords
    BY <1>1, <2>1 DEF FlightRecords
  <2> QED
    BY <2>1, <2>2, OutcomeCarried
<1> QED
  BY <1>3, <1>4, <1>5, <1>6, <1>7, <1>8 DEF FlightOK, Asking

LEMMA ReservedFlight ==
    ASSUME Typed, Carries, NEW f \in Flights, FlightOK(f),
           NEW g \in Generations, g = flight[f].gen, Issued(g), NEW k \in Keys, Reserved(f, g, k),
           flight[f].at \in {"pending", "reserving"},
           flight[f].at = "reserving" => flight[f].credential = cont[g].credential
    PROVE /\ FlightOK(f)'
          /\ flight'[f].credential = flight[f].credential
          /\ flight[f].at = "reserving" => flight'[f].secret = flight[f].secret
          /\ flight'[f].at \in {"resolving", "holding"}
<1> DEFINE r == [flight[f] EXCEPT
                    !.gen = g, !.key = k, !.epoch = cont[g].epoch + 1,
                    !.at = IF @ = "pending" THEN "resolving" ELSE "holding",
                    !.secret = IF flight[f].at = "pending" THEN secret ELSE @]
<1>1. flight[f] \in FlightRecords /\ secret \in Secrets
  BY DEF Typed
<1>2. flight'[f] = r
  BY DEF Reserved, Typed
<1>3. /\ r.gen = g /\ r.key = k /\ r.epoch = cont[g].epoch + 1
      /\ r.does = flight[f].does /\ r.credential = flight[f].credential
      /\ flight[f].at = "pending" => r.at = "resolving" /\ r.secret = secret
      /\ flight[f].at = "reserving" => r.at = "holding" /\ r.secret = flight[f].secret
  BY <1>1 DEF FlightRecords
<1> HIDE DEF r
<1>4. cont[g].epoch + 1 > 0
  <2>1. cont[g].epoch \in Nat
    BY Bounds DEF Typed, ContRecords
  <2> QED
    BY <2>1
<1>5. /\ flight[f].at = "pending" => flight[f].does = "recover"
      /\ flight[f].at = "reserving" =>
             /\ flight[f].does = "continue"
             /\ flight[f].secret \in Secrets /\ flight[f].credential # 0
  BY DEF FlightOK
<1>6. Issued(g)' /\ cont'[g].credential = cont[g].credential
  BY DEF Carries
<1>7. CASE flight[f].at = "pending"
  BY <1>1, <1>2, <1>3, <1>4, <1>5, <1>6, <1>7 DEF FlightOK, Asking
<1>8. CASE flight[f].at = "reserving"
  BY <1>2, <1>3, <1>4, <1>5, <1>6, <1>8 DEF FlightOK, Asking
<1> QED
  BY <1>7, <1>8

LEMMA ReadFlight ==
    ASSUME Typed, ContOK, Carries, NEW f \in Flights, FlightOK(f), ReadChain(f)
    PROVE /\ FlightOK(f)'
          /\ flight'[f].credential = flight[f].credential
          /\ flight'[f].secret = flight[f].secret
<1> DEFINE r == [flight[f] EXCEPT !.at = "reading", !.seen = The(chain).seen,
                                  !.pages = The(chain).pages]
<1>1. flight[f] \in FlightRecords /\ flight[f].at = "dispatched"
  BY DEF Typed, ReadChain
<1>2. flight'[f] = r /\ chain' = chain
  BY DEF ReadChain, Typed
<1>3. /\ r.at = "reading" /\ r.seen = The(chain).seen /\ r.pages = The(chain).pages
      /\ r.gen = flight[f].gen /\ r.key = flight[f].key /\ r.epoch = flight[f].epoch
      /\ r.does = flight[f].does /\ r.credential = flight[f].credential
      /\ r.secret = flight[f].secret
  BY <1>1 DEF FlightRecords
<1> HIDE DEF r
<1>4. flight[f].does \in {"continue", "recover"}
  BY <1>1 DEF FlightOK, FlightRecords
<1>5. PICK g \in Generations : g = flight[f].gen /\ Issued(g)
  BY <1>4 DEF FlightOK
<1>6. Issued(g)' /\ flight[f].credential = cont'[g].credential
  BY <1>1, <1>5 DEF FlightOK, Carries, Asking
<1>7. /\ flight[f].key \in Keys /\ flight[f].epoch > 0
      /\ flight[f].secret \in Secrets /\ flight[f].credential # 0
  BY <1>1 DEF FlightOK, Asking
<1>8. chain = {The(chain)}
  BY <1>5, IssuedChain, TheChain
<1>9. \A c \in chain' : r.seen = c.seen /\ r.pages = c.pages
  BY <1>2, <1>3, <1>8
<1>10. FlightOK(f)'
  BY <1>2, <1>3, <1>4, <1>5, <1>6, <1>7, <1>9 DEF FlightOK, Asking
<1> QED
  BY <1>2, <1>3, <1>10

\* What a call has read is still what the chain says if its continuation is
\* unspent: the outcome it builds extends the chain.
LEMMA RespondedFlight ==
    ASSUME Typed, ContOK, Carries, NEW f \in Flights, FlightOK(f), Respond(f)
    PROVE /\ FlightOK(f)'
          /\ flight'[f].credential = flight[f].credential
          /\ flight'[f].secret = flight[f].secret
<1> DEFINE me == flight[f]
           built(r) == Result(me.gen + 1, r.items, me.pages + r.pages,
                              Cardinality(me.seen) + Cardinality(r.items), r.more, me.epoch)
           outcome(r) == [gen |-> me.gen, epoch |-> me.epoch, key |-> me.key,
                          credential |-> cont[me.gen].credential,
                          pages |-> r.pages, result |-> built(r)]
           moved(r) == [me EXCEPT !.at = "responded", !.seen = {}, !.pages = 0,
                                  !.outcome = {outcome(r)}]
<1>1. me \in FlightRecords /\ me.at = "reading"
  BY DEF Typed, Respond
<1>2. me.does \in {"continue", "recover"}
  BY <1>1 DEF FlightOK, FlightRecords
<1>3. PICK g \in Generations : g = me.gen /\ Issued(g)
  BY <1>2 DEF FlightOK
<1>4. PICK r \in Responses(me.seen, me.gen) : flight'[f] = moved(r)
  BY DEF Respond, Typed
<1>5. UNCHANGED <<chain, cont>>
  BY DEF Respond
<1>6. /\ moved(r).at = "responded" /\ moved(r).outcome = {outcome(r)}
      /\ moved(r).gen = me.gen /\ moved(r).key = me.key /\ moved(r).epoch = me.epoch
      /\ moved(r).does = me.does /\ moved(r).credential = me.credential
      /\ moved(r).secret = me.secret
  BY <1>1 DEF FlightRecords
<1>7. /\ outcome(r).gen = g /\ outcome(r).epoch = me.epoch /\ outcome(r).pages = r.pages
      /\ outcome(r).result = built(r)
      /\ built(r).gen = g + 1 /\ built(r).items = r.items /\ built(r).by = me.epoch
      /\ built(r).pages = me.pages + r.pages
      /\ built(r).unique = Cardinality(me.seen) + Cardinality(r.items)
  BY <1>3 DEF Result
<1>8. PICK o : o = outcome(r)
  OBVIOUS
<1> HIDE DEF outcome, built, moved
<1>9. /\ r.items \cap me.seen = {} /\ r.items \in SUBSET Items
      /\ Cardinality(me.seen \cup r.items) <= MaxChainItems
  <2>1. me.seen \in SUBSET Items
    BY <1>1 DEF FlightRecords
  <2> QED
    BY <1>4, <2>1, ResponseTyped
<1>10. ~Spent(g) => \A c \in chain : me.seen = c.seen /\ me.pages = c.pages
  BY <1>1, <1>3 DEF FlightOK
<1>11. Extends(o)
  BY <1>7, <1>8, <1>9, <1>10 DEF Extends
<1>12. OutcomeOK(o)
  BY <1>3, <1>7, <1>8, <1>11 DEF OutcomeOK
<1>13. OutcomeOK(o)'
  BY <1>5, <1>12 DEF OutcomeOK, Issued, Extends, Spent
<1>14. Issued(g)' /\ me.credential = cont'[g].credential
  BY <1>1, <1>3 DEF FlightOK, Carries, Asking
<1>15. /\ me.key \in Keys /\ me.epoch > 0
       /\ me.secret \in Secrets /\ me.credential # 0
  BY <1>1 DEF FlightOK, Asking
<1>16. FlightOK(f)'
  BY <1>2, <1>3, <1>4, <1>6, <1>8, <1>13, <1>14, <1>15 DEF FlightOK, Asking
<1> QED
  BY <1>4, <1>6, <1>16

LEMMA PendingFlight ==
    ASSUME Typed, ContOK, Carries, NEW f \in Flights, FlightOK(f), RecoverPending(f)
    PROVE FlightOK(f)' /\ flight'[f].credential = 0
<1>1. PICK g \in Generations :
          /\ cont[g].state = "dispatched-unknown"
          /\ flight' = [flight EXCEPT ![f] =
                 [flight[f] EXCEPT !.at = "pending", !.does = "recover", !.gen = g]]
  BY DEF RecoverPending, Unresolved
<1>2. flight'[f] = [flight[f] EXCEPT !.at = "pending", !.does = "recover", !.gen = g]
  BY <1>1 DEF Typed
<1>3. flight[f] = Idle
  BY DEF RecoverPending, FlightOK
<1>4. flight[f].credential = 0
  BY <1>3 DEF Idle
<1>5. flight[f] \in FlightRecords
  BY DEF Typed
<1>6. /\ flight'[f].at = "pending" /\ flight'[f].does = "recover" /\ flight'[f].gen = g
      /\ flight'[f].credential = 0
  BY <1>2, <1>4, <1>5 DEF FlightRecords
<1>7. Issued(g)'
  BY <1>1 DEF Issued, Carries
<1> QED
  BY <1>6, <1>7 DEF FlightOK, Asking

\* What a step of one call does to the call, and that it leaves the others alone.
LEMMA StepFlight ==
    ASSUME Typed, ContOK, Carries, NEW f \in Flights, FlightOK(f), Step(f),
           binding.epoch = 0 => binding.fingerprint = 0
    PROVE /\ \A e \in Flights : e # f => flight'[e] = flight[e]
          /\ FlightOK(f)'
          /\ \/ BindCredential(f)
             \/ /\ binding' = binding
                /\ \/ flight'[f].credential = 0
                   \/ /\ flight'[f].credential = flight[f].credential
                      /\ flight'[f].secret = flight[f].secret
<1> DEFINE Aside == \A e \in Flights : e # f => flight'[e] = flight[e]
           Kept == \/ flight'[f].credential = 0
                   \/ /\ flight'[f].credential = flight[f].credential
                      /\ flight'[f].secret = flight[f].secret
<1>1. ASSUME Ends(f)
      PROVE Aside /\ Kept /\ FlightOK(f)'
  <2>1. Aside /\ flight'[f] = Idle
    BY <1>1 DEF Ends, Typed
  <2>2. Idle.credential = 0
    BY DEF Idle
  <2> QED
    BY <1>1, <2>1, <2>2, EndedFlight
<1>2. ASSUME NEW at, Goes(f, at)
      PROVE Aside /\ Kept
  <2>1. flight'[f] = [flight[f] EXCEPT !.at = at] /\ flight[f] \in FlightRecords
    BY <1>2 DEF Goes, Typed
  <2> QED
    BY <1>2, <2>1 DEF Goes, Typed, FlightRecords
<1>3. CASE Search(f)
  <2>1. Begin(f, "search", 0, NoKey)
    BY <1>3 DEF Search
  <2>2. FlightOK(f)'
    BY <2>1, BegunFlight
  <2>3. flight'[f].credential = 0
    <3>1. flight'[f] = [Idle EXCEPT !.at = "resolving", !.does = "search", !.gen = 0,
                                    !.key = NoKey, !.secret = secret]
      BY <2>1 DEF Begin, Typed
    <3>2. Idle.credential = 0
      BY DEF Idle
    <3> QED
      BY <3>1, <3>2, IdleTyped DEF FlightRecords
  <2> QED
    BY <2>1, <2>2, <2>3 DEF Begin, Typed
<1>4. CASE Continue(f)
  <2>1. PICK g \in Generations, k \in Keys : Issued(g) /\ Begin(f, "continue", g, k)
    BY <1>4 DEF Continue, Issued
  <2>2. FlightOK(f)'
    BY <2>1, BegunFlight
  <2>3. flight'[f].credential = 0
    <3>1. flight'[f] = [Idle EXCEPT !.at = "resolving", !.does = "continue", !.gen = g,
                                    !.key = k, !.secret = secret]
      BY <2>1 DEF Begin, Typed
    <3>2. Idle.credential = 0
      BY DEF Idle
    <3> QED
      BY <3>1, <3>2, IdleTyped DEF FlightRecords
  <2> QED
    BY <2>1, <2>2, <2>3 DEF Begin, Typed
<1>5. CASE SearchReplay(f) \/ RecoverOutcome(f)
  <2>1. UNCHANGED <<flight, binding>>
    BY <1>5 DEF SearchReplay, RecoverOutcome
  <2> QED
    BY <2>1, OtherFlight
<1>6. CASE BindCredential(f)
  <2>1. Aside
    BY <1>6 DEF BindCredential, Typed
  <2> QED
    BY <1>6, <2>1, BoundFlight
<1>7. CASE ReserveTaken(f)
  <2>1. PICK g \in Generations : g = flight[f].gen /\ Issued(g)
    BY <1>7 DEF FlightOK, ReserveTaken
  <2>2. flight[f].at = "reserving" /\ flight[f].key \in Keys
    BY <1>7 DEF FlightOK, ReserveTaken
  <2>3. SameBinding(g, flight[f].credential)
    BY <1>7, <2>1 DEF ReserveTaken, ReservationCase
  <2>4. PICK k \in Keys : Reserved(f, g, k)
    <3>1. CASE ReservationCase(f) = "take" /\ Reserved(f, g, flight[f].key)
      BY <2>2, <3>1
    <3>2. CASE ReservationCase(f) = "take over" /\ Reserved(f, g, cont[g].key)
      <4>1. cont[g].state = "dispatched-unknown"
        BY <2>1, <3>2 DEF ReservationCase
      <4>2. cont[g].key \in Keys
        BY <4>1 DEF ContOK
      <4> QED
        BY <3>2, <4>2
    <3> QED
      BY <1>7, <2>1, <3>1, <3>2 DEF ReserveTaken
  <2>5. flight[f].credential = cont[g].credential
    BY <2>3 DEF SameBinding
  <2>6. Aside
    BY <2>4 DEF Reserved, Typed
  <2> QED
    BY <1>7, <2>1, <2>2, <2>4, <2>5, <2>6, ReservedFlight DEF ReserveTaken
<1>8. CASE ReserveRecovery(f)
  <2>1. CASE Reserved(f, flight[f].gen, cont[flight[f].gen].key) /\ flight[f].gen \in Unresolved
    <3>1. PICK g \in Generations : g = flight[f].gen /\ Issued(g)
      BY <1>8 DEF FlightOK, ReserveRecovery
    <3>2. PICK k \in Keys : k = cont[g].key
      BY <2>1, <3>1 DEF ContOK, Unresolved
    <3>3. Reserved(f, g, k) /\ flight[f].at = "pending" /\ flight[f].credential = 0
      BY <1>8, <2>1, <3>1, <3>2 DEF ReserveRecovery, FlightOK
    <3>4. Aside
      BY <3>3 DEF Reserved, Typed
    <3> QED
      BY <1>8, <3>1, <3>3, <3>4, ReservedFlight DEF ReserveRecovery
  <2> QED
    BY <1>1, <1>8, <2>1 DEF ReserveRecovery
<1>9. CASE MarkDispatched(f) \/ OpenFails(f)
  <2>1. flight[f].at = "holding" /\ binding' = binding
    BY <1>9 DEF MarkDispatched, OpenFails
  <2>2. CASE Goes(f, "dispatched")
    BY <1>2, <2>1, <2>2, WentFlight DEF Places
  <2>3. CASE Goes(f, "revoking")
    BY <1>2, <2>1, <2>3, WentFlight DEF Places
  <2> QED
    BY <1>1, <1>9, <2>1, <2>2, <2>3 DEF MarkDispatched, OpenFails
<1>10. CASE ReadChain(f)
  <2>1. Aside
    BY <1>10 DEF ReadChain, Typed
  <2> QED
    BY <1>10, <2>1, ReadFlight DEF ReadChain
<1>11. CASE Respond(f)
  <2>1. Aside
    BY <1>11 DEF Respond, Typed
  <2> QED
    BY <1>11, <2>1, RespondedFlight DEF Respond
<1>12. CASE ProviderFails(f)
  <2>1. flight[f].at = "reading" /\ binding' = binding
    BY <1>12 DEF ProviderFails
  <2>2. CASE Goes(f, "revoking")
    BY <1>2, <2>1, <2>2, WentFlight DEF Places, Asking
  <2> QED
    BY <1>1, <1>12, <2>1, <2>2 DEF ProviderFails
<1>13. CASE RecordOutcome(f)
  <2>1. flight[f].at = "responded" /\ binding' = binding
    BY <1>13 DEF RecordOutcome
  <2>2. CASE Goes(f, "recorded")
    BY <1>2, <2>1, <2>2, WentFlight DEF Places, Asking
  <2> QED
    BY <1>1, <1>13, <2>1, <2>2 DEF RecordOutcome
<1>14. CASE RecoverPending(f)
  <2>1. Aside
    BY <1>14 DEF RecoverPending, Typed
  <2> QED
    BY <1>14, <2>1, PendingFlight DEF RecoverPending
<1>15. CASE \/ CommitInitial(f) \/ ReserveRefused(f) \/ ReserveReplayed(f)
            \/ ReleaseUndispatched(f) \/ Revoke(f) \/ ConsumeOutcome(f) \/ Crash(f)
  <2>1. Ends(f) /\ binding' = binding
    BY <1>15 DEF CommitInitial, ReserveRefused, ReserveReplayed, ReleaseUndispatched, Revoke,
                 ConsumeOutcome, Crash
  <2> QED
    BY <1>1, <2>1
<1> QED
  BY <1>3, <1>4, <1>5, <1>6, <1>7, <1>8, <1>9, <1>10, <1>11, <1>12, <1>13, <1>14, <1>15 DEF Step

LEMMA FlightsStep ==
    ASSUME Typed, ContOK, Carries, \A f \in Flights : FlightOK(f), [Next]_vars,
           binding.epoch = 0 => binding.fingerprint = 0
    PROVE \A f \in Flights : FlightOK(f)'
<1> SUFFICES ASSUME NEW e \in Flights
             PROVE FlightOK(e)'
  OBVIOUS
<1>1. CASE flight' = flight
  BY <1>1, OtherFlight
<1>2. ASSUME NEW f \in Flights, Step(f)
      PROVE FlightOK(e)'
  <2>1. CASE e = f
    BY <1>2, <2>1, StepFlight
  <2>2. CASE e # f
    BY <1>2, <2>2, StepFlight, OtherFlight
  <2> QED
    BY <2>1, <2>2
<1>3. CASE \/ \E g \in Generations : LeaseEnds(g) \/ TokenExpires(g)
           \/ Rotate \/ UNCHANGED vars
  BY <1>1, <1>3 DEF LeaseEnds, TokenExpires, Rotate, vars
<1> QED
  BY <1>2, <1>3 DEF Next

-----------------------------------------------------------------------------
(* Credentials *)

\* No call is bound anew.
CredentialsKept ==
    /\ binding' = binding
    /\ \A f \in Flights : \/ flight'[f].credential = 0
                          \/ /\ flight'[f].credential = flight[f].credential
                             /\ flight'[f].secret = flight[f].secret

LEMMA KeptCredentials ==
    ASSUME Typed, CredentialsOK, CredentialsKept, Descends
    PROVE CredentialsOK'
<1>1. \A f \in Flights : flight'[f].credential # 0 =>
          /\ flight'[f].credential <= binding'.epoch
          /\ flight'[f].credential = binding'.epoch => flight'[f].secret = binding'.fingerprint
  BY DEF CredentialsOK, CredentialsKept
<1>2. \A f, e \in Flights :
          flight'[f].credential # 0 /\ flight'[e].credential = flight'[f].credential =>
              flight'[e].secret = flight'[f].secret
  BY DEF CredentialsOK, CredentialsKept
<1>3. ASSUME NEW g \in Generations, NEW c \in chain', Issued(g)'
      PROVE /\ cont'[g].credential # 0
            /\ cont'[g].credential <= binding'.epoch
            /\ cont'[g].credential = binding'.epoch => binding'.fingerprint = c.secret
            /\ \A f \in Flights :
                   flight'[f].credential = cont'[g].credential => flight'[f].secret = c.secret
  <2>1. PICK h \in Generations : Issued(h) /\ cont'[g].credential = cont[h].credential
    BY <1>3 DEF Descends
  <2>2. PICK d \in chain : d.secret = c.secret
    BY <1>3 DEF Descends
  <2> QED
    BY <2>1, <2>2 DEF CredentialsOK, CredentialsKept
<1> QED
  BY <1>1, <1>2, <1>3 DEF CredentialsOK, CredentialsKept

LEMMA BoundCredentials ==
    ASSUME Typed, ContOK, CredentialsOK, Carries, Descends, NEW f \in Flights, FlightOK(f),
           BindCredential(f)
    PROVE CredentialsOK'
<1>1. /\ flight'[f].secret = flight[f].secret
      /\ flight'[f].credential = binding'.epoch
      /\ binding'.fingerprint = flight[f].secret
      /\ flight[f].secret # 0
  BY BoundFlight DEF CredentialsOK
<1>2. \A e \in Flights : e # f => flight'[e] = flight[e]
  BY DEF BindCredential, Typed
<1>3. UNCHANGED <<chain, cont>>
  BY DEF BindCredential
<1>4. binding \in [fingerprint : {0} \cup Secrets, epoch : Nat]
  BY DEF Typed
<1>5. CASE binding.fingerprint = flight[f].secret
  <2>1. binding' = binding
    BY <1>4, <1>5 DEF BindCredential
  <2>2. binding.epoch # 0
    BY <1>1, <1>5 DEF CredentialsOK
  <2>3. \A e \in Flights : flight'[e].credential # 0 =>
            /\ flight'[e].credential <= binding.epoch
            /\ flight'[e].credential = binding.epoch => flight'[e].secret = binding.fingerprint
    BY <1>1, <1>2, <1>4, <2>1 DEF CredentialsOK
  <2>4. \A d, e \in Flights :
            flight'[d].credential # 0 /\ flight'[e].credential = flight'[d].credential =>
                flight'[e].secret = flight'[d].secret
    BY <1>1, <1>2, <2>1, <2>3 DEF CredentialsOK
  <2>5. ASSUME NEW g \in Generations, NEW c \in chain, Issued(g), NEW e \in Flights,
               flight'[e].credential = cont[g].credential
        PROVE flight'[e].secret = c.secret
    BY <1>1, <1>2, <2>1, <2>5 DEF CredentialsOK
  <2> QED
    BY <1>3, <2>1, <2>3, <2>4, <2>5 DEF CredentialsOK, Issued
<1>6. CASE binding.fingerprint # flight[f].secret
  <2>1. binding'.epoch = binding.epoch + 1 /\ binding.epoch \in Nat
    BY <1>4, <1>6 DEF BindCredential
  <2>2. \A e \in Flights : flight[e].credential \in Nat
    BY DEF Typed, FlightRecords
  <2>3. \A g \in Generations : cont[g].credential \in Nat
    BY DEF Typed, ContRecords
  <2>4. \A e \in Flights : e # f /\ flight'[e].credential # 0 =>
            flight'[e].credential <= binding.epoch /\ flight'[e].credential # binding'.epoch
    BY <1>2, <2>1, <2>2 DEF CredentialsOK
  <2>5. \A e \in Flights : flight'[e].credential # 0 =>
            /\ flight'[e].credential <= binding'.epoch
            /\ flight'[e].credential = binding'.epoch => flight'[e].secret = binding'.fingerprint
    <3> SUFFICES ASSUME NEW e \in Flights, flight'[e].credential # 0
                 PROVE /\ flight'[e].credential <= binding'.epoch
                       /\ flight'[e].credential = binding'.epoch =>
                              flight'[e].secret = binding'.fingerprint
      OBVIOUS
    <3>1. CASE e = f
      BY <1>1, <2>1, <3>1
    <3>2. CASE e # f
      BY <1>2, <2>1, <2>2, <2>4, <3>2
    <3> QED
      BY <3>1, <3>2
  <2>6. \A d, e \in Flights :
            flight'[d].credential # 0 /\ flight'[e].credential = flight'[d].credential =>
                flight'[e].secret = flight'[d].secret
    BY <1>1, <1>2, <2>4 DEF CredentialsOK
  <2>7. ASSUME NEW g \in Generations, NEW c \in chain, Issued(g)
        PROVE /\ cont[g].credential # 0
              /\ cont[g].credential <= binding'.epoch
              /\ cont[g].credential # binding'.epoch
    BY <2>1, <2>3, <2>7 DEF CredentialsOK
  <2>8. ASSUME NEW g \in Generations, NEW c \in chain, Issued(g), NEW e \in Flights,
               flight'[e].credential = cont[g].credential
        PROVE flight'[e].secret = c.secret
    BY <1>1, <1>2, <2>7, <2>8 DEF CredentialsOK
  <2>9. binding'.epoch # 0
    BY <2>1
  <2> QED
    BY <1>3, <2>5, <2>6, <2>7, <2>8, <2>9 DEF CredentialsOK, Issued
<1> QED
  BY <1>5, <1>6

\* The first continuation is issued under the search's credential.
LEMMA CommittedCredentials ==
    ASSUME Typed, ContOK, CredentialsOK, NEW f \in Flights, FlightOK(f), CommitInitial(f),
           chain = {}
    PROVE CredentialsOK'
<1>1. flight' = [flight EXCEPT ![f] = Idle] /\ binding' = binding
  BY DEF CommitInitial, Ends
<1>2. Idle.credential = 0
  BY DEF Idle
<1>3. \A e \in Flights : flight'[e].credential = 0 \/ flight'[e] = flight[e]
  BY <1>1, <1>2 DEF Typed
<1>4. flight[f].credential # 0
  BY DEF FlightOK, CommitInitial
<1>5. \A g \in Generations : cont[g] = NoContinuation
  BY DEF ContOK
<1>6. ASSUME NEW g \in Generations, Issued(g)'
      PROVE cont'[g].credential = flight[f].credential
  <2>1. cont' = cont \/ cont' = [cont EXCEPT ![1] = Active(flight[f].credential)]
    BY DEF CommitInitial, AlreadyCommitted
  <2>2. cont'[g] = NoContinuation \/ cont'[g] = Active(flight[f].credential)
    BY <1>5, <2>1 DEF Typed
  <2> QED
    BY <1>6, <2>2, NoContinuationFields, ActiveFields DEF Issued
<1>7. \A c \in chain' : c.secret = flight[f].secret
  BY DEF CommitInitial, AlreadyCommitted
<1>8. \A e \in Flights : flight'[e].credential # 0 =>
          /\ flight'[e].credential <= binding.epoch
          /\ flight'[e].credential = binding.epoch => flight'[e].secret = binding.fingerprint
  BY <1>3 DEF CredentialsOK
<1>9. \A d, e \in Flights :
          flight'[d].credential # 0 /\ flight'[e].credential = flight'[d].credential =>
              flight'[e].secret = flight'[d].secret
  BY <1>3 DEF CredentialsOK
<1>10. ASSUME NEW g \in Generations, NEW c \in chain', Issued(g)'
       PROVE /\ cont'[g].credential # 0
             /\ cont'[g].credential <= binding.epoch
             /\ cont'[g].credential = binding.epoch => binding.fingerprint = c.secret
             /\ \A e \in Flights :
                    flight'[e].credential = cont'[g].credential => flight'[e].secret = c.secret
  BY <1>3, <1>4, <1>6, <1>7, <1>10 DEF CredentialsOK
<1> QED
  BY <1>1, <1>8, <1>9, <1>10 DEF CredentialsOK

LEMMA CredentialsStep ==
    ASSUME Typed, Stored, \A f \in Flights : FlightOK(f), CredentialsOK, [Next]_vars
    PROVE CredentialsOK'
<1>1. Carries /\ (Descends \/ FirstCommit)
  BY StoredStep
<1>2. CASE FirstCommit
  <2>1. PICK f \in Flights : CommitInitial(f) /\ chain = {}
    BY <1>2 DEF FirstCommit
  <2> QED
    BY <1>1, <2>1, CommittedCredentials DEF Stored
<1>3. CASE Descends /\ CredentialsKept
  BY <1>3, KeptCredentials
<1>4. ASSUME NEW f \in Flights, Step(f), Descends
      PROVE CredentialsOK'
  <2>1. /\ \A e \in Flights : e # f => flight'[e] = flight[e]
        /\ \/ BindCredential(f)
           \/ /\ binding' = binding
              /\ \/ flight'[f].credential = 0
                 \/ /\ flight'[f].credential = flight[f].credential
                    /\ flight'[f].secret = flight[f].secret
    BY <1>1, <1>4, StepFlight DEF Stored, CredentialsOK
  <2>2. CASE BindCredential(f)
    BY <1>1, <1>4, <2>2, BoundCredentials DEF Stored
  <2>3. CASE ~BindCredential(f)
    BY <1>3, <1>4, <2>1, <2>3 DEF CredentialsKept
  <2> QED
    BY <2>2, <2>3
<1>5. CASE /\ Descends
           /\ \/ \E g \in Generations : LeaseEnds(g) \/ TokenExpires(g)
              \/ Rotate \/ UNCHANGED vars
  <2>1. UNCHANGED <<flight, binding>>
    BY <1>5 DEF LeaseEnds, TokenExpires, Rotate, vars
  <2> QED
    BY <1>3, <1>5, <2>1 DEF CredentialsKept
<1> QED
  BY <1>1, <1>2, <1>4, <1>5 DEF Next

-----------------------------------------------------------------------------
(* The invariant *)

LEMMA InitInvariant == Init => IInv
<1> SUFFICES ASSUME Init PROVE IInv
  OBVIOUS
<1>1. Typed
  BY TypedInit
<1>2. \A g \in Generations : cont[g] = NoContinuation /\ ~Issued(g)
  BY NoContinuationFields DEF Init, Issued
<1>3. ContOK
  BY <1>2, NoContinuationFields DEF ContOK, Spent
<1>4. ChainOK /\ OutcomesOK /\ AnswersOK
  BY DEF Init, ChainOK, OutcomesOK, AnswersOK
<1>5. Idle.at = "idle" /\ Idle.does = "none" /\ Idle.credential = 0
  BY DEF Idle
<1>6. \A f \in Flights : flight[f] = Idle
  BY DEF Init
<1>7. \A f \in Flights : FlightOK(f)
  BY <1>5, <1>6 DEF FlightOK, Asking
<1>8. CredentialsOK
  BY <1>2, <1>5, <1>6 DEF Init, CredentialsOK
<1> QED
  BY <1>1, <1>3, <1>4, <1>7, <1>8 DEF IInv

\* Whatever the calls do, in whatever order their transactions come, crashed
\* or not, the continuations follow one another, the chain and the calls in
\* progress agree while a continuation is unspent, and one epoch of the
\* credential stands for one secret.
THEOREM Invariance == Spec => []IInv
<1>1. Init => IInv
  BY InitInvariant
<1>2. IInv /\ [Next]_vars => IInv'
  <2> SUFFICES ASSUME IInv, [Next]_vars PROVE IInv'
    OBVIOUS
  <2>1. Stored /\ Typed /\ CredentialsOK /\ \A f \in Flights : FlightOK(f)
    BY DEF IInv, Stored
  <2>2. Stored' /\ Carries
    BY <2>1, StoredStep
  <2>3. Typed'
    BY <2>1, TypedStep DEF Stored
  <2>4. \A f \in Flights : FlightOK(f)'
    BY <2>1, <2>2, FlightsStep DEF Stored, CredentialsOK
  <2>5. CredentialsOK'
    BY <2>1, CredentialsStep
  <2> QED
    BY <2>2, <2>3, <2>4, <2>5 DEF IInv, Stored
<1> QED
  BY <1>1, <1>2, PTL DEF Spec

-----------------------------------------------------------------------------
(* What follows from it *)

\* Every record has its fields; a spent token has its one exact result and a
\* reserved one the key of the operation that holds it (store.ts).
THEOREM TypeCorrect == Spec => []TypeOK
<1>1. IInv => TypeOK
  <2> SUFFICES ASSUME IInv PROVE TypeOK
    OBVIOUS
  <2>1. Typed /\ ContOK
    BY DEF IInv
  <2>2. Cardinality(chain) <= 1
    <3>1. CASE chain = {}
      BY <3>1, FS_EmptySet
    <3>2. ASSUME NEW c \in ChainRecords, chain = {c}
          PROVE Cardinality(chain) <= 1
      BY <3>2, FS_Singleton
    <3> QED
      BY <2>1, <3>1, <3>2 DEF Typed
  <2>3. ASSUME NEW g \in Generations, cont[g].state = "consumed"
        PROVE Cardinality(cont[g].result) = 1
    <3>1. PICK r \in cont[g].result : cont[g].result = {r}
      BY <2>1, <2>3 DEF ContOK, Spent
    <3> QED
      BY <3>1, FS_Singleton
  <2>4. \A g \in Generations : cont[g] \in ContRecords
    BY <2>1 DEF Typed
  <2>5. \A g \in Generations :
            /\ cont[g].state \in {"none", "active", "reserved", "dispatched-unknown",
                                  "consumed", "expired", "revoked"}
            /\ cont[g].result \subseteq ResultType
            /\ cont[g].state \in {"reserved", "dispatched-unknown"} => cont[g].key \in Keys
    BY <2>1, <2>4 DEF ContRecords, States, ContOK
  <2>6. \A o \in outcomes : o.gen \in Generations /\ o.result \in ResultType
    BY <2>1 DEF Typed, OutcomeRecords
  <2>7. /\ secret \in Secrets
        /\ binding.fingerprint \in {0} \cup Secrets
        /\ binding.epoch \in Nat
        /\ answers \subseteq ResultType
    BY <2>1 DEF Typed
  <2> QED
    BY <2>2, <2>3, <2>5, <2>6, <2>7 DEF TypeOK
<1> QED
  BY <1>1, Invariance, PTL

\* Two results of one generation are one result.
LEMMA OneResult ==
    ASSUME Typed, ContOK, ChainOK, NEW a \in Handed, NEW b \in Handed, a.gen = b.gen
    PROVE a = b
<1>1. \A r \in Handed : \/ r.gen = 1 /\ \E c \in chain : r = c.result
                        \/ \E g \in Generations : r \in cont[g].result /\ r.gen = g + 1
  BY HandedBy DEF ContOK, ChainOK
<1>2. \A c, d \in chain : c = d
  BY DEF Typed
<1>3. \A g \in Generations : g + 1 # 1
  BY Bounds DEF Generations
<1>4. \A g, h \in Generations : g + 1 = h + 1 => g = h
  BY Bounds DEF Generations
<1>5. \A g \in Generations : \A r, s \in cont[g].result : r = s
  BY DEF ContOK
<1> QED
  BY <1>1, <1>2, <1>3, <1>4, <1>5

\* However often a search or a continuation is called, retried, taken over or
\* recovered, all its callers are given the same result (reserve's replay of
\* the exact result, store.ts).
THEOREM AnsweredOnce == Spec => []OneAnswer
<1>1. IInv => OneAnswer
  BY OneResult DEF IInv, AnswersOK, OneAnswer
<1> QED
  BY <1>1, Invariance, PTL

\* Over the whole chain no item is returned twice and the newest result reports
\* the chain's totals, though a call reads the chain long before its outcome is
\* consumed (advancePages, coordinator.ts).
THEOREM NoItemTwice == Spec => []ItemsReturnedOnce
<1>1. IInv => ItemsReturnedOnce
  BY DEF IInv, ChainOK, ItemsReturnedOnce
<1> QED
  BY <1>1, Invariance, PTL

\* A response that arrives under a superseded reservation is never what the
\* token is spent on (assertOutcomeMatches, store.ts).
THEOREM SupersededRejected == Spec => []LateResponsesAreRejected
<1>1. IInv => LateResponsesAreRejected
  BY DEF IInv, ContOK, LateResponsesAreRejected
<1> QED
  BY <1>1, Invariance, PTL

\* The provider is asked to go on only with the credential the chain was issued
\* under, however often the credential changes while a call is between two
\* transactions (bindCredential and reserve, store.ts).
THEOREM CredentialKept == Spec => []AsksWithIssuingCredential
<1>1. IInv => AsksWithIssuingCredential
  <2> SUFFICES ASSUME IInv, NEW f \in Flights, NEW c \in chain,
                      flight[f].at \in Asking
               PROVE flight[f].secret = c.secret
    BY DEF AsksWithIssuingCredential, Asking
  <2>1. Typed /\ FlightOK(f) /\ CredentialsOK
    BY DEF IInv
  <2>2. flight[f] \in FlightRecords
    BY <2>1 DEF Typed
  <2>3. flight[f].does \in {"continue", "recover"}
    BY <2>1, <2>2 DEF FlightOK, FlightRecords, Asking
  <2>4. PICK g \in Generations : g = flight[f].gen /\ Issued(g)
    BY <2>1, <2>3 DEF FlightOK
  <2>5. flight[f].credential = cont[g].credential
    BY <2>1, <2>4 DEF FlightOK
  <2> QED
    BY <2>1, <2>4, <2>5 DEF CredentialsOK
<1> QED
  BY <1>1, Invariance, PTL

-----------------------------------------------------------------------------
(* Who asks the provider after an outcome is recorded *)

\* Reservations are numbered, and each belongs to one call; the outcome a call has
\* built is that of its reservation.
HoldersOK ==
    /\ \A f \in Flights : flight[f].epoch > 0 =>
           /\ flight[f].gen \in Generations
           /\ flight[f].epoch <= cont[flight[f].gen].epoch
    /\ \A f, e \in Flights :
           flight[f].epoch > 0 /\ flight[e].gen = flight[f].gen
               /\ flight[e].epoch = flight[f].epoch => e = f
    /\ \A f \in Flights : flight[f].at \in {"responded", "recorded"} =>
           \A o \in flight[f].outcome : o.gen = flight[f].gen /\ o.epoch = flight[f].epoch

\* A call that is over or new has no reservation.
Without(f) ==
    /\ flight'[f].epoch = 0
    /\ flight'[f].at \notin Asking

\* A call that goes on keeps its reservation; it asks if it asked before, or if nobody
\* took its reservation over.
GoesOn(f) ==
    /\ flight'[f].gen = flight[f].gen /\ flight'[f].epoch = flight[f].epoch
    /\ flight'[f].at \in {"dispatched", "reading"} =>
           flight[f].at \in {"dispatched", "reading"} \/ Holds(f, "reserved")
    /\ flight'[f].at \in {"responded", "recorded"} =>
           \/ flight[f].at = "responded" /\ flight'[f].outcome = flight[f].outcome
           \/ Respond(f)

\* A call takes the next reservation of a continuation.
TakesNext(f) ==
    \E g \in Generations, k \in Keys :
        /\ Reserved(f, g, k)
        /\ flight'[f].gen = g /\ flight'[f].epoch = cont[g].epoch + 1
        /\ flight'[f].at \notin Asking

LEMMA WithoutEnds ==
    ASSUME Typed, NEW f \in Flights, Ends(f)
    PROVE Without(f)
<1>1. flight'[f] = Idle
  BY DEF Ends, Typed
<1> QED
  BY <1>1 DEF Without, Idle, Asking

LEMMA WithoutBegins ==
    ASSUME Typed, NEW f \in Flights, NEW does \in {"search", "continue"},
           NEW g \in {0} \cup Generations, NEW k \in Keys \cup {NoKey}, Begin(f, does, g, k)
    PROVE Without(f)
<1> DEFINE r == [Idle EXCEPT !.at = "resolving", !.does = does, !.gen = g, !.key = k,
                             !.secret = secret]
<1>1. flight'[f] = r
  BY DEF Begin, Typed
<1>2. r.at = "resolving" /\ r.epoch = Idle.epoch
  BY IdleTyped DEF FlightRecords
<1>3. Idle.epoch = 0
  BY DEF Idle
<1> HIDE DEF r
<1> QED
  BY <1>1, <1>2, <1>3 DEF Without, Asking

LEMMA WentOn ==
    ASSUME Typed, NEW f \in Flights, NEW at, Goes(f, at),
           \/ at \notin Asking
           \/ at = "dispatched" /\ Holds(f, "reserved")
           \/ at = "recorded" /\ flight[f].at = "responded"
    PROVE GoesOn(f)
<1>1. flight[f] \in FlightRecords
  BY DEF Typed
<1>2. flight'[f] = [flight[f] EXCEPT !.at = at]
  BY DEF Goes, Typed
<1>3. /\ flight'[f].at = at
      /\ flight'[f].gen = flight[f].gen
      /\ flight'[f].epoch = flight[f].epoch
      /\ flight'[f].outcome = flight[f].outcome
  BY <1>1, <1>2 DEF FlightRecords
<1> QED
  BY <1>3 DEF GoesOn, Asking

LEMMA TookNext ==
    ASSUME Typed, NEW f \in Flights, NEW g \in Generations, NEW k \in Keys, Reserved(f, g, k)
    PROVE TakesNext(f)
<1> DEFINE r == [flight[f] EXCEPT
                    !.gen = g, !.key = k, !.epoch = cont[g].epoch + 1,
                    !.at = IF @ = "pending" THEN "resolving" ELSE "holding",
                    !.secret = IF flight[f].at = "pending" THEN secret ELSE @]
<1>1. flight[f] \in FlightRecords
  BY DEF Typed
<1>2. flight'[f] = r
  BY DEF Reserved, Typed
<1>3. r.gen = g /\ r.epoch = cont[g].epoch + 1 /\ r.at \in {"resolving", "holding"}
  BY <1>1 DEF FlightRecords
<1> HIDE DEF r
<1> QED
  BY <1>2, <1>3 DEF TakesNext, Asking

\* What each step of a call does with its reservation.
LEMMA HolderStep ==
    ASSUME Typed, ContOK, NEW f \in Flights, FlightOK(f), Step(f)
    PROVE Without(f) \/ GoesOn(f) \/ TakesNext(f)
<1>0. flight[f] \in FlightRecords
  BY DEF Typed
<1>1. CASE Search(f) \/ Continue(f)
  BY <1>1, WithoutBegins DEF Search, Continue
<1>2. CASE SearchReplay(f) \/ RecoverOutcome(f)
  <2>1. flight'[f] = flight[f] /\ flight[f].at = "idle"
    BY <1>2 DEF SearchReplay, RecoverOutcome
  <2> QED
    BY <2>1 DEF GoesOn
<1>3. CASE BindCredential(f)
  <2>1. PICK at, credential :
            /\ at \notin Asking
            /\ flight' = [flight EXCEPT ![f] = [flight[f] EXCEPT
                   !.credential = credential, !.at = at]]
    BY <1>3 DEF BindCredential, Asking
  <2>2. flight'[f] = [flight[f] EXCEPT !.credential = credential, !.at = at]
    BY <2>1 DEF Typed
  <2>3. /\ flight'[f].at = at /\ flight'[f].gen = flight[f].gen
        /\ flight'[f].epoch = flight[f].epoch
    BY <1>0, <2>2 DEF FlightRecords
  <2> QED
    BY <2>1, <2>3 DEF GoesOn, Asking
<1>4. CASE \/ CommitInitial(f) \/ ReserveRefused(f) \/ ReserveReplayed(f)
           \/ ReleaseUndispatched(f) \/ Revoke(f) \/ ConsumeOutcome(f) \/ Crash(f)
  <2>1. Ends(f)
    BY <1>4 DEF CommitInitial, ReserveRefused, ReserveReplayed, ReleaseUndispatched, Revoke,
                ConsumeOutcome, Crash
  <2> QED
    BY <2>1, WithoutEnds
<1>5. CASE ReserveTaken(f)
  <2>1. PICK g \in Generations : g = flight[f].gen
    BY <1>5 DEF ReserveTaken, FlightOK
  <2>2. flight[f].key \in Keys
    BY <1>5 DEF ReserveTaken, FlightOK
  <2>3. ReservationCase(f) = "take over" => cont[g].key \in Keys
    BY <2>1 DEF ReservationCase, ContOK
  <2>4. PICK k \in Keys : Reserved(f, g, k)
    BY <1>5, <2>1, <2>2, <2>3 DEF ReserveTaken
  <2> QED
    BY <2>4, TookNext
<1>6. CASE MarkDispatched(f)
  BY <1>6, WithoutEnds, WentOn DEF MarkDispatched
<1>7. CASE OpenFails(f)
  BY <1>7, WentOn DEF OpenFails, Asking
<1>8. CASE ReadChain(f)
  <2>1. flight[f].at = "dispatched"
    BY <1>8 DEF ReadChain
  <2>2. flight'[f] = [flight[f] EXCEPT !.at = "reading", !.seen = The(chain).seen,
                                       !.pages = The(chain).pages]
    BY <1>8 DEF ReadChain, Typed
  <2>3. /\ flight'[f].at = "reading" /\ flight'[f].gen = flight[f].gen
        /\ flight'[f].epoch = flight[f].epoch
    BY <1>0, <2>2 DEF FlightRecords
  <2> QED
    BY <2>1, <2>3 DEF GoesOn
<1>9. CASE Respond(f)
  <2>1. PICK outcome : flight' = [flight EXCEPT ![f] =
            [flight[f] EXCEPT !.at = "responded", !.seen = {}, !.pages = 0, !.outcome = {outcome}]]
    BY <1>9 DEF Respond
  <2>2. flight'[f] = [flight[f] EXCEPT !.at = "responded", !.seen = {}, !.pages = 0,
                                       !.outcome = {outcome}]
    BY <2>1 DEF Typed
  <2>3. /\ flight'[f].at = "responded" /\ flight'[f].gen = flight[f].gen
        /\ flight'[f].epoch = flight[f].epoch
    BY <1>0, <2>2 DEF FlightRecords
  <2> QED
    BY <1>9, <2>3 DEF GoesOn
<1>10. CASE ProviderFails(f)
  BY <1>10, WithoutEnds, WentOn DEF ProviderFails, Asking
<1>11. CASE RecordOutcome(f)
  BY <1>11, WithoutEnds, WentOn DEF RecordOutcome, Asking
<1>12. CASE RecoverPending(f)
  <2>1. PICK g : flight' = [flight EXCEPT ![f] =
            [flight[f] EXCEPT !.at = "pending", !.does = "recover", !.gen = g]]
    BY <1>12 DEF RecoverPending
  <2>2. flight'[f] = [flight[f] EXCEPT !.at = "pending", !.does = "recover", !.gen = g]
    BY <2>1 DEF Typed
  <2>3. flight'[f].at = "pending" /\ flight'[f].epoch = flight[f].epoch
    BY <1>0, <2>2 DEF FlightRecords
  <2>4. flight[f] = Idle
    BY <1>12 DEF RecoverPending, FlightOK
  <2>5. Idle.epoch = 0
    BY DEF Idle
  <2> QED
    BY <2>3, <2>4, <2>5 DEF Without, Asking
<1>13. CASE ReserveRecovery(f)
  <2>1. PICK g \in Generations : g = flight[f].gen
    BY <1>13 DEF ReserveRecovery, FlightOK
  <2>2. CASE Ends(f)
    BY <2>2, WithoutEnds
  <2>3. CASE g \in Unresolved /\ Reserved(f, g, cont[g].key)
    <3>1. PICK k \in Keys : k = cont[g].key
      BY <2>3 DEF Unresolved, ContOK
    <3> QED
      BY <2>3, <3>1, TookNext
  <2> QED
    BY <1>13, <2>1, <2>2, <2>3 DEF ReserveRecovery
<1> QED
  BY <1>1, <1>2, <1>3, <1>4, <1>5, <1>6, <1>7, <1>8, <1>9, <1>10, <1>11, <1>12, <1>13 DEF Step

\* A reservation is never numbered back.
EpochsGrow == \A g \in Generations : cont[g].epoch <= cont'[g].epoch

LEMMA SameEpochs ==
    ASSUME Typed, \A g \in Generations : cont'[g].epoch = cont[g].epoch
    PROVE EpochsGrow
<1>1. \A g \in Generations : cont[g].epoch \in Nat
  BY Bounds DEF Typed, ContRecords
<1> QED
  BY <1>1 DEF EpochsGrow

LEMMA StateEpochs ==
    ASSUME Typed, NEW g \in Generations, NEW state, cont' = [cont EXCEPT ![g].state = state]
    PROVE EpochsGrow
<1>1. \A h \in Generations : cont'[h].epoch = cont[h].epoch
  BY DEF Typed, ContRecords
<1> QED
  BY <1>1, SameEpochs

LEMMA ReservedEpochs ==
    ASSUME Typed, NEW f \in Flights, NEW g \in Generations, NEW k \in Keys, Reserved(f, g, k)
    PROVE EpochsGrow
<1>1. /\ \A h \in Generations : h # g => cont'[h] = cont[h]
      /\ cont'[g].epoch = cont[g].epoch + 1
  BY ReservedFields
<1>2. \A h \in Generations : cont[h].epoch \in Nat
  BY Bounds DEF Typed, ContRecords
<1> QED
  BY <1>1, <1>2 DEF EpochsGrow

LEMMA ConsumedEpochs ==
    ASSUME Typed, ContOK, NEW o, Consumable(o), Consumed(o)
    PROVE EpochsGrow
<1>1. NoContinuation.epoch = 0 /\ Active(cont[o.gen].credential).epoch = 0
  BY DEF Active, NoContinuation
<1> SUFFICES ASSUME NEW g \in Generations PROVE cont[g].epoch <= cont'[g].epoch
  BY DEF EpochsGrow
<1>2. cont[g].epoch \in Nat
  BY Bounds DEF Typed, ContRecords
<1>3. CASE g = o.gen
  BY <1>2, <1>3, ConsumedFields DEF Consumable
<1>4. CASE g # o.gen /\ Issued(g)
  BY <1>2, <1>4, ConsumedOthers
<1>5. CASE g # o.gen /\ ~Issued(g)
  <2>1. cont[g].epoch = 0
    BY <1>1, <1>5 DEF ContOK
  <2>2. cont'[g] = cont[g] \/ cont'[g] = Active(cont[o.gen].credential)
    BY <1>5, ConsumedFields
  <2> QED
    BY <1>1, <2>1, <2>2
<1> QED
  BY <1>3, <1>4, <1>5

LEMMA EpochsStep ==
    ASSUME Typed, Stored, NEW f \in Flights, FlightOK(f), Step(f)
    PROVE EpochsGrow
<1>1. CASE cont' = cont
  BY <1>1, SameEpochs
<1>2. CASE CommitInitial(f) /\ cont' # cont
  <2>1. chain = {} /\ cont' = [cont EXCEPT ![1] = Active(flight[f].credential)]
    BY <1>2 DEF CommitInitial, AlreadyCommitted
  <2>2. \A g \in Generations : cont[g] = NoContinuation
    BY <2>1 DEF Stored, ContOK
  <2>3. NoContinuation.epoch = 0 /\ Active(flight[f].credential).epoch = 0
    BY DEF Active, NoContinuation
  <2>4. \A g \in Generations : cont'[g].epoch = cont[g].epoch
    BY <2>1, <2>2, <2>3 DEF Typed
  <2> QED
    BY <2>4, SameEpochs
<1>3. CASE ReserveRefused(f)
  <2>1. PICK g \in Generations : g = flight[f].gen
    BY <1>3 DEF ReserveRefused, FlightOK
  <2>2. PICK state : cont' = [cont EXCEPT ![g].state = state]
    BY <1>3, <2>1 DEF ReserveRefused
  <2> QED
    BY <2>2, StateEpochs
<1>4. CASE ReserveReplayed(f) /\ cont' # cont
  <2>1. PICK g \in Generations : g = flight[f].gen
    BY <1>4 DEF FlightOK, ReserveReplayed
  <2>2. ReservationCase(f) = "settle" /\ Consumed(The(OutcomesOf(g)))
    BY <1>4, <2>1 DEF ReserveReplayed
  <2>3. cont[g].state = "dispatched-unknown" /\ OutcomesOf(g) # {}
    BY <2>1, <2>2 DEF ReservationCase
  <2>4. Consumable(The(OutcomesOf(g)))
    BY <2>3, SettledConsumable DEF Stored
  <2> QED
    BY <2>2, <2>4, ConsumedEpochs DEF Stored
<1>5. CASE ConsumeOutcome(f) /\ cont' # cont
  <2>1. PICK o \in OutcomeRecords : o = The(flight[f].outcome) /\ OutcomeOK(o)
    BY <1>5, FlightOutcome DEF ConsumeOutcome
  <2>2. Matches(o) /\ Consumed(o)
    BY <1>5, <2>1 DEF ConsumeOutcome
  <2>3. Consumable(o)
    BY <2>1, <2>2 DEF Consumable, Matches
  <2> QED
    BY <2>2, <2>3, ConsumedEpochs DEF Stored
<1>6. CASE RecoverOutcome(f)
  <2>1. PICK g \in Unresolved : OutcomesOf(g) # {} /\ Consumed(The(OutcomesOf(g)))
    BY <1>6 DEF RecoverOutcome
  <2>2. Consumable(The(OutcomesOf(g)))
    BY <2>1, SettledConsumable DEF Stored, Unresolved
  <2> QED
    BY <2>1, <2>2, ConsumedEpochs DEF Stored
<1>7. CASE ReserveTaken(f)
  <2>1. PICK g \in Generations : g = flight[f].gen
    BY <1>7 DEF ReserveTaken, FlightOK
  <2>2. flight[f].key \in Keys
    BY <1>7 DEF ReserveTaken, FlightOK
  <2>3. ReservationCase(f) = "take over" => cont[g].key \in Keys
    BY <2>1 DEF ReservationCase, Stored, ContOK
  <2>4. PICK k \in Keys : Reserved(f, g, k)
    BY <1>7, <2>1, <2>2, <2>3 DEF ReserveTaken
  <2> QED
    BY <2>4, ReservedEpochs
<1>8. CASE MarkDispatched(f) /\ cont' # cont
  <2>1. flight[f].gen \in Generations
    <3>1. flight[f].at = "holding" /\ flight[f] \in FlightRecords
      BY <1>8 DEF MarkDispatched, Typed
    <3> QED
      BY <3>1 DEF FlightOK, FlightRecords
  <2>2. cont' = [cont EXCEPT ![flight[f].gen].state = "dispatched-unknown"]
    BY <1>8 DEF MarkDispatched
  <2> QED
    BY <2>1, <2>2, StateEpochs
<1>9. CASE ReleaseUndispatched(f) /\ cont' # cont
  <2>1. PICK g \in Generations : g = flight[f].gen
    <3>1. flight[f].at = "holding" /\ flight[f] \in FlightRecords
      BY <1>9 DEF ReleaseUndispatched, Typed
    <3> QED
      BY <3>1 DEF FlightOK, FlightRecords
  <2>2. cont' = [cont EXCEPT ![g] =
                    [cont[g] EXCEPT !.state = "active", !.key = NoKey, !.lease = FALSE]]
    BY <1>9, <2>1 DEF ReleaseUndispatched
  <2>3. \A h \in Generations : cont'[h].epoch = cont[h].epoch
    BY <2>2 DEF Typed, ContRecords
  <2> QED
    BY <2>3, SameEpochs
<1>10. CASE Revoke(f) /\ cont' # cont
  <2>1. cont' = [cont EXCEPT ![flight[f].gen].state = "revoked"]
    BY <1>10 DEF Revoke
  <2>2. \A h \in Generations : cont'[h].epoch = cont[h].epoch
    BY <2>1 DEF Typed, ContRecords
  <2> QED
    BY <2>2, SameEpochs
<1>11. CASE ReserveRecovery(f) /\ cont' # cont
  <2>1. PICK g \in Generations : g = flight[f].gen
    BY <1>11 DEF ReserveRecovery, FlightOK
  <2>2. CASE cont' = [cont EXCEPT ![g].state = "expired"]
    BY <2>2, StateEpochs
  <2>3. CASE g \in Unresolved /\ Reserved(f, g, cont[g].key)
    <3>1. PICK k \in Keys : k = cont[g].key
      BY <2>3 DEF Unresolved, Stored, ContOK
    <3> QED
      BY <2>3, <3>1, ReservedEpochs
  <2> QED
    BY <1>11, <2>1, <2>2, <2>3 DEF ReserveRecovery
<1>12. CASE \/ Search(f) \/ SearchReplay(f) \/ Continue(f) \/ BindCredential(f) \/ OpenFails(f)
            \/ ReadChain(f) \/ Respond(f) \/ ProviderFails(f) \/ Crash(f) \/ RecoverPending(f)
            \/ RecordOutcome(f)
  <2>1. cont' = cont
    BY <1>12 DEF Search, SearchReplay, Continue, Begin, BindCredential, OpenFails, ReadChain,
       Respond, ProviderFails, Crash, RecoverPending, RecordOutcome
  <2> QED
    BY <1>1, <2>1
<1> QED
  BY <1>1, <1>2, <1>3, <1>4, <1>5, <1>6, <1>7, <1>8, <1>9, <1>10, <1>11, <1>12 DEF Step

\* Only a call that answered under the present reservation records an outcome.
LEMMA OutcomeAdded ==
    ASSUME Typed, NEW f \in Flights, Step(f), outcomes' # outcomes
    PROVE /\ RecordOutcome(f) /\ flight[f].at = "responded"
          /\ flight'[f].at = "recorded"
          /\ Matches(The(flight[f].outcome))
          /\ outcomes' = outcomes \cup {The(flight[f].outcome)}
<1>1. RecordOutcome(f)
  <2>1. ASSUME \/ Search(f) \/ SearchReplay(f) \/ Continue(f) \/ BindCredential(f)
               \/ CommitInitial(f) \/ ReserveRefused(f) \/ ReserveReplayed(f) \/ ReserveTaken(f)
        PROVE FALSE
    BY <2>1 DEF Search, SearchReplay, Continue, Begin, BindCredential, CommitInitial,
       ReserveRefused, ReserveReplayed, ReserveTaken
  <2>2. ASSUME \/ MarkDispatched(f) \/ ReleaseUndispatched(f) \/ OpenFails(f) \/ ReadChain(f)
               \/ Respond(f) \/ ProviderFails(f) \/ Revoke(f)
        PROVE FALSE
    BY <2>2 DEF MarkDispatched, ReleaseUndispatched, OpenFails, ReadChain, Respond,
       ProviderFails, Revoke
  <2>3. ASSUME \/ ConsumeOutcome(f) \/ RecoverOutcome(f) \/ RecoverPending(f)
               \/ ReserveRecovery(f) \/ Crash(f)
        PROVE FALSE
    BY <2>3 DEF ConsumeOutcome, RecoverOutcome, RecoverPending, ReserveRecovery, Crash
  <2> QED
    BY <2>1, <2>2, <2>3 DEF Step
<1>2. flight[f] \in FlightRecords
  BY DEF Typed
<1>3. Goes(f, "recorded") /\ Matches(The(flight[f].outcome)) /\ flight[f].at = "responded"
      /\ outcomes' = outcomes \cup {The(flight[f].outcome)}
  BY <1>1 DEF RecordOutcome
<1>4. flight'[f].at = "recorded"
  BY <1>2, <1>3 DEF Goes, Typed, FlightRecords
<1> QED
  BY <1>1, <1>3, <1>4

\* The outcome that is built bears the reservation of the call.
LEMMA RespondedOutcome ==
    ASSUME Typed, NEW f \in Flights, Respond(f)
    PROVE \A o \in flight'[f].outcome : o.gen = flight[f].gen /\ o.epoch = flight[f].epoch
<1> DEFINE me == flight[f]
           outcome(r) == [gen |-> me.gen, epoch |-> me.epoch, key |-> me.key,
                          credential |-> cont[me.gen].credential, pages |-> r.pages,
                          result |-> Result(me.gen + 1, r.items, me.pages + r.pages,
                              Cardinality(me.seen) + Cardinality(r.items), r.more, me.epoch)]
           moved(r) == [me EXCEPT !.at = "responded", !.seen = {}, !.pages = 0,
                                  !.outcome = {outcome(r)}]
<1>1. PICK r \in Responses(me.seen, me.gen) : flight'[f] = moved(r)
  BY DEF Respond, Typed
<1>2. outcome(r).gen = me.gen /\ outcome(r).epoch = me.epoch
  OBVIOUS
<1>3. me \in FlightRecords
  BY DEF Typed
<1> HIDE DEF outcome, me
<1>4. moved(r).outcome = {outcome(r)}
  BY <1>3 DEF FlightRecords
<1> QED
  BY <1>1, <1>2, <1>4 DEF me

LEMMA HoldersStep ==
    ASSUME IInv, HoldersOK, OnlySupersededAskAfterOutcome, NEW f \in Flights, Step(f)
    PROVE HoldersOK' /\ OnlySupersededAskAfterOutcome'
<1>1. Typed /\ Stored /\ ContOK /\ OutcomesOK /\ CredentialsOK /\ \A e \in Flights : FlightOK(e)
  BY DEF IInv, Stored
<1>2. \A e \in Flights : e # f => flight'[e] = flight[e]
  BY <1>1, StoredStep, StepFlight DEF CredentialsOK, Next
<1>3. Without(f) \/ GoesOn(f) \/ TakesNext(f)
  BY <1>1, HolderStep
<1>4. \A g \in Generations : /\ cont[g].epoch <= cont'[g].epoch
                             /\ cont[g].epoch \in Nat /\ cont'[g].epoch \in Nat
  <2>1. Typed'
    BY <1>1, TypedStep DEF Stored, Next
  <2> QED
    BY <1>1, <2>1, EpochsStep, Bounds DEF EpochsGrow, Typed, ContRecords
<1>5. \A e \in Flights : flight[e].epoch \in Nat
  BY <1>1, Bounds DEF Typed, FlightRecords
<1>6. ASSUME TakesNext(f)
      PROVE \E g \in Generations :
                /\ flight'[f].gen = g /\ flight'[f].epoch = cont[g].epoch + 1
                /\ cont'[g].epoch = cont[g].epoch + 1
                /\ flight'[f].at \notin Asking
  BY <1>1, <1>6, ReservedFields DEF TakesNext
<1>7. \A e \in Flights : flight'[e].epoch > 0 =>
          /\ flight'[e].gen \in Generations
          /\ flight'[e].epoch <= cont'[flight'[e].gen].epoch
  <2> SUFFICES ASSUME NEW e \in Flights, flight'[e].epoch > 0
               PROVE /\ flight'[e].gen \in Generations
                     /\ flight'[e].epoch <= cont'[flight'[e].gen].epoch
    OBVIOUS
  <2>1. CASE flight'[e].gen = flight[e].gen /\ flight'[e].epoch = flight[e].epoch
    BY <1>4, <1>5, <2>1 DEF HoldersOK
  <2>2. CASE e = f /\ TakesNext(f)
    BY <1>4, <1>6, <2>2
  <2> QED
    BY <1>2, <1>3, <2>1, <2>2 DEF Without, GoesOn
<1>8. \A e, d \in Flights :
          flight'[e].epoch > 0 /\ flight'[d].gen = flight'[e].gen
              /\ flight'[d].epoch = flight'[e].epoch => d = e
  <2>1. ASSUME NEW e \in Flights, NEW d \in Flights, e # f, d # e, flight'[e].epoch > 0,
               flight'[d].gen = flight'[e].gen, flight'[d].epoch = flight'[e].epoch
        PROVE FALSE
    <3>1. flight'[e] = flight[e]
      BY <1>2, <2>1
    <3>2. CASE flight'[d].gen = flight[d].gen /\ flight'[d].epoch = flight[d].epoch
      BY <2>1, <3>1, <3>2 DEF HoldersOK
    <3>3. CASE d = f /\ TakesNext(f)
      <4>1. PICK g \in Generations : flight'[f].gen = g /\ flight'[f].epoch = cont[g].epoch + 1
        BY <1>6, <3>3
      <4>2. flight[e].gen = g /\ flight[e].epoch <= cont[g].epoch
        BY <2>1, <3>1, <3>3, <4>1 DEF HoldersOK
      <4> QED
        BY <1>4, <1>5, <2>1, <3>1, <3>3, <4>1, <4>2
    <3>4. CASE d = f /\ Without(f)
      BY <2>1, <3>1, <3>4 DEF Without
    <3> QED
      BY <1>2, <1>3, <3>2, <3>3, <3>4 DEF GoesOn
  <2> QED
    BY <2>1
<1>9. \A e \in Flights : flight'[e].at \in {"responded", "recorded"} =>
          \A o \in flight'[e].outcome : o.gen = flight'[e].gen /\ o.epoch = flight'[e].epoch
  <2> SUFFICES ASSUME NEW e \in Flights, flight'[e].at \in {"responded", "recorded"},
                      NEW o \in flight'[e].outcome
               PROVE o.gen = flight'[e].gen /\ o.epoch = flight'[e].epoch
    OBVIOUS
  <2>1. CASE e # f
    BY <1>2, <2>1 DEF HoldersOK
  <2>2. CASE e = f
    <3>1. GoesOn(f)
      BY <1>3, <1>6, <2>2 DEF Without, Asking
    <3>2. CASE Respond(f)
      BY <1>1, <2>2, <3>1, <3>2, RespondedOutcome DEF GoesOn
    <3>3. CASE flight[f].at = "responded" /\ flight'[f].outcome = flight[f].outcome
      BY <2>2, <3>1, <3>3 DEF GoesOn, HoldersOK
    <3> QED
      BY <2>2, <3>1, <3>2, <3>3 DEF GoesOn
  <2> QED
    BY <2>1, <2>2
<1>10. HoldersOK'
  BY <1>7, <1>8, <1>9 DEF HoldersOK
<1>11. ASSUME NEW e \in Flights, flight'[e].at \in {"dispatched", "reading"}
       PROVE /\ flight'[e].gen = flight[e].gen /\ flight'[e].epoch = flight[e].epoch
             /\ flight[e].at \in {"dispatched", "reading"} \/ Holds(e, "reserved")
  BY <1>2, <1>3, <1>6, <1>11 DEF Without, GoesOn, Asking
<1>12. ASSUME NEW e \in Flights, NEW o \in outcomes', flight'[e].at \in {"dispatched", "reading"},
              flight'[e].gen = o.gen
       PROVE flight'[e].epoch < o.epoch
  <2>1. CASE o \in outcomes
    <3>1. o.gen \in Generations
      BY <1>1, <2>1 DEF Typed, OutcomeRecords
    <3>2. cont[o.gen].state # "reserved"
      BY <1>1, <2>1 DEF OutcomesOK, Final
    <3>3. flight[e].at \in {"dispatched", "reading"}
      BY <1>11, <1>12, <3>2 DEF Holds
    <3> QED
      BY <1>11, <1>12, <2>1, <3>3 DEF OnlySupersededAskAfterOutcome
  <2>2. CASE o \notin outcomes
    <3>1. /\ flight[f].at = "responded" /\ flight'[f].at = "recorded"
          /\ o = The(flight[f].outcome) /\ Matches(o)
      BY <1>1, <1>12, <2>2, OutcomeAdded
    <3>2. o \in flight[f].outcome
      BY <1>1, <3>1, TheSome DEF FlightOK
    <3>3. o.gen = flight[f].gen /\ o.epoch = flight[f].epoch
      BY <3>1, <3>2 DEF HoldersOK
    <3>4. flight[f].epoch > 0
      BY <1>1, <3>1 DEF FlightOK, Asking
    <3>5. e # f /\ flight'[e] = flight[e]
      BY <1>2, <1>12, <3>1
    <3>6. flight[e].epoch # flight[f].epoch
      BY <1>12, <3>3, <3>4, <3>5 DEF HoldersOK
    <3>7. flight[e].epoch > 0
      <4>1. flight[e].at \in Asking \cup {"holding"}
        BY <1>12, <3>5 DEF Asking
      <4> QED
        BY <1>1, <4>1 DEF FlightOK
    <3>8. flight[e].epoch <= cont[o.gen].epoch /\ cont[o.gen].epoch = o.epoch
      BY <1>12, <3>1, <3>5, <3>7 DEF HoldersOK, Matches
    <3> QED
      BY <1>5, <3>3, <3>5, <3>6, <3>8
  <2> QED
    BY <2>1, <2>2
<1>13. OnlySupersededAskAfterOutcome'
  BY <1>12 DEF OnlySupersededAskAfterOutcome
<1> QED
  BY <1>10, <1>13

\* Once an outcome of a continuation is recorded, only requests superseded before it may
\* be under way: the reservation that has its outcome, and any retry, takeover or
\* recovery after it, asks the provider for nothing (reserve's and reserveRecovery's
\* lookup of the recorded outcome, store.ts).
THEOREM OutcomeEndsAsking == Spec => []OnlySupersededAskAfterOutcome
<1>1. Init => HoldersOK /\ OnlySupersededAskAfterOutcome
  <2> SUFFICES ASSUME Init PROVE HoldersOK /\ OnlySupersededAskAfterOutcome
    OBVIOUS
  <2>1. \A f \in Flights : flight[f].epoch = 0 /\ flight[f].at = "idle"
    BY DEF Init, Idle
  <2> QED
    BY <2>1 DEF Init, HoldersOK, OnlySupersededAskAfterOutcome
<1>2. IInv /\ HoldersOK /\ OnlySupersededAskAfterOutcome /\ [Next]_vars =>
          HoldersOK' /\ OnlySupersededAskAfterOutcome'
  <2> SUFFICES ASSUME IInv, HoldersOK, OnlySupersededAskAfterOutcome, [Next]_vars
               PROVE HoldersOK' /\ OnlySupersededAskAfterOutcome'
    OBVIOUS
  <2>1. CASE \E f \in Flights : Step(f)
    BY <2>1, HoldersStep
  <2>2. CASE \/ \E g \in Generations : LeaseEnds(g) \/ TokenExpires(g)
             \/ Rotate \/ UNCHANGED vars
    <3>1. UNCHANGED <<flight, outcomes>>
      BY <2>2 DEF LeaseEnds, TokenExpires, Rotate, vars
    <3>2. \A g \in Generations : cont'[g].epoch = cont[g].epoch
      BY <2>2 DEF LeaseEnds, TokenExpires, Rotate, vars, IInv, Typed, ContRecords
    <3> QED
      BY <3>1, <3>2 DEF HoldersOK, OnlySupersededAskAfterOutcome
  <2> QED
    BY <2>1, <2>2 DEF Next
<1> QED
  BY <1>1, <1>2, Invariance, PTL DEF Spec

-----------------------------------------------------------------------------
(* Continuations implements PagedSearch *)

\* The chain has seen what was handed out, and whoever holds an unspent
\* continuation goes on from the last result.
LastIs(g) ==
    \E s \in Handed :
        /\ s.gen = g /\ s.more
        /\ \A c \in chain : s.pages = c.pages
        /\ \A t \in Handed : t.gen <= g

SearchOK ==
    /\ \A c \in chain : c.seen = Paged!Seen
    /\ \A g \in Generations : Issued(g) /\ ~Spent(g) => LastIs(g)

LEMMA SameCount == ASSUME NEW S PROVE Paged!Cardinality(S) = Cardinality(S)
BY DEF Paged!Cardinality, Cardinality

\* A step that hands nothing out gives at most what was handed out before.
Quiet ==
    /\ chain' = chain
    /\ \A g \in Generations : cont'[g].result = cont[g].result /\ (Issued(g)' => Issued(g))
    /\ answers' = answers \/ \E r \in Handed : answers' = answers \cup {r}

\* A step that spends a continuation on an outcome.
Spends(o) ==
    /\ Consumable(o) /\ Consumed(o)
    /\ answers' \in {answers, answers \cup {o.result}}

LEMMA QuietSearch ==
    ASSUME SearchOK, Quiet
    PROVE SearchOK' /\ [Paged!SearchNext]_(Paged!searchVars)
<1>1. Handed' = Handed
  BY HandedKept DEF Quiet
<1>2. SearchOK'
  <2>1. Paged!Seen' = Paged!Seen
    BY <1>1 DEF Paged!Seen
  <2>2. \A g \in Generations : LastIs(g) => LastIs(g)'
    BY <1>1 DEF LastIs, Quiet
  <2>3. \A g \in Generations : Issued(g)' /\ ~Spent(g)' => Issued(g) /\ ~Spent(g)
    BY DEF Quiet, Spent
  <2> QED
    BY <2>1, <2>2, <2>3 DEF SearchOK, Quiet
<1>3. CASE answers' = answers
  BY <1>1, <1>2, <1>3 DEF Paged!searchVars
<1>4. ASSUME NEW r \in Handed, answers' = answers \cup {r}
      PROVE Paged!SearchNext
  BY <1>1, <1>4 DEF Paged!SearchNext, Paged!Give
<1> QED
  BY <1>2, <1>3, <1>4 DEF Quiet

LEMMA SpendsSearch ==
    ASSUME Typed, ContOK, ChainOK, SearchOK, NEW o, Spends(o)
    PROVE SearchOK' /\ Paged!SearchNext
<1> DEFINE g == o.gen
<1>0. Consumable(o) /\ Consumed(o) /\ answers' \in {answers, answers \cup {o.result}}
  BY DEF Spends
<1>1. g \in Generations /\ Issued(g) /\ ~Spent(g) /\ o \in OutcomeRecords /\ OutcomeOK(o)
  BY <1>0, ConsumedFields DEF Consumable
<1>2. PICK c \in ChainRecords : chain = {c}
  <2>1. chain # {}
    BY <1>1, IssuedChain
  <2> QED
    BY <2>1 DEF Typed
<1>3. PICK d \in ChainRecords :
          /\ chain' = {d}
          /\ d.pages = c.pages + o.pages
          /\ d.seen = c.seen \cup o.result.items
          /\ d.result = c.result
  BY <1>0, <1>2, ConsumedChain
<1>4. /\ o.result.gen = g + 1
      /\ o.result.items \cap c.seen = {}
      /\ o.result.pages = c.pages + o.pages
      /\ o.result.unique = Cardinality(c.seen) + Cardinality(o.result.items)
      /\ Cardinality(c.seen \cup o.result.items) <= MaxChainItems
  BY <1>1, <1>2 DEF OutcomeOK, Extends
<1>5. /\ c.seen \in SUBSET Items /\ o.result.items \in SUBSET Items
      /\ c.pages \in Nat /\ o.pages \in Nat /\ g \in Nat
  BY <1>1 DEF ChainRecords, OutcomeRecords, ResultType, Generations
<1>6. PICK s \in Handed : /\ s.gen = g /\ s.more /\ s.pages = c.pages
                          /\ \A t \in Handed : t.gen <= g
  BY <1>1, <1>2 DEF SearchOK, LastIs
<1>7. c.seen = Paged!Seen
  BY <1>2 DEF SearchOK
<1>8. Handed' = Handed \cup {o.result}
  <2>1. \A r : r \in Handed' <=> r \in Handed \/ r = o.result
    BY <1>0, ConsumedHanded
  <2> QED
    BY <2>1
<1>9. \A t \in Handed : t.gen < o.result.gen
  <2>1. \A t \in Handed : t.gen \in Nat
    <3>1. \A h \in Generations : \A r \in cont[h].result : r.gen \in Nat
      BY DEF ContOK, Generations
    <3>2. c.result.gen \in Nat
      BY <1>2 DEF ChainOK
    <3> QED
      BY <1>2, <3>1, <3>2, HandedBy
  <2> QED
    BY <1>4, <1>5, <1>6, <2>1
<1>10. Paged!HandOut(o.result)
  <2>1. Paged!GoesOn(s, o.result)
    BY <1>4, <1>5, <1>6 DEF Paged!GoesOn
  <2>2. o.result.unique = Paged!Cardinality(Paged!Seen \cup o.result.items)
    BY <1>4, <1>5, <1>7, DisjointItems, SameCount
  <2>3. o.result.unique <= MaxChainItems
    BY <1>4, <1>7, <2>2, SameCount
  <2> QED
    BY <1>0, <1>4, <1>7, <1>8, <1>9, <2>1, <2>2, <2>3 DEF Paged!HandOut
<1>11. o.result \in Handed' \ Handed
  <2>1. ~(o.result.gen < o.result.gen)
    BY <1>4, <1>5
  <2> QED
    BY <1>8, <1>9, <2>1
<1>12. Paged!Seen' = d.seen
  <2>1. Paged!Seen' = UNION {r.items : r \in Handed \cup {o.result}}
    BY <1>8 DEF Paged!Seen
  <2>2. Paged!Seen = UNION {r.items : r \in Handed}
    BY DEF Paged!Seen
  <2>3. UNION {r.items : r \in Handed \cup {o.result}} = (UNION {r.items : r \in Handed}) \cup o.result.items
    OBVIOUS
  <2> QED
    BY <1>3, <1>7, <2>1, <2>2, <2>3
<1>13. ASSUME NEW h \in Generations, Issued(h)', ~Spent(h)'
       PROVE LastIs(h)'
  <2>1. h # g
    BY <1>0, <1>13, ConsumedFields DEF Spent
  <2>2. ~Issued(h)
    BY <1>0, <1>13, <2>1, ConsumedOthers
  <2>3. h = g + 1
    BY <1>0, <1>13, <2>1, <2>2, ConsumedOthers
  <2>4. o.result.more
    <3>1. ~o.result.more => cont'[h] = cont[h]
      BY <1>0, <2>3, ConsumedFields
    <3> QED
      BY <1>13, <2>2, <3>1 DEF Issued
  <2>5. \A t \in Handed' : t.gen <= h
    <3>1. \A t \in Handed : t.gen <= g
      BY <1>6
    <3>2. \A t \in Handed : t.gen \in Nat
      <4>1. \A i \in Generations : \A r \in cont[i].result : r.gen \in Nat
        BY DEF ContOK, Generations
      <4>2. c.result.gen \in Nat
        BY <1>2 DEF ChainOK
      <4> QED
        BY <1>2, <4>1, <4>2, HandedBy
    <3> QED
      BY <1>4, <1>5, <1>8, <2>3, <3>1, <3>2
  <2>6. o.result.pages = d.pages /\ o.result.gen = h /\ o.result \in Handed'
    BY <1>3, <1>4, <1>8, <2>3
  <2>7. \A e \in chain' : o.result.pages = e.pages
    BY <1>3, <2>6
  <2> QED
    BY <2>4, <2>5, <2>6, <2>7 DEF LastIs
<1> QED
  BY <1>3, <1>10, <1>11, <1>12, <1>13 DEF SearchOK, Paged!SearchNext

\* Only the first search to end commits; the others are given its result.
LEMMA CommitsSearch ==
    ASSUME Typed, ContOK, ChainOK, AnswersOK, NEW f \in Flights, CommitInitial(f), chain = {}
    PROVE SearchOK' /\ Paged!SearchNext
<1> DEFINE built(r) == Result(1, r.items, r.pages, Cardinality(r.items), r.more, f)
           made(r) == [pages |-> r.pages, seen |-> r.items, result |-> built(r),
                       secret |-> flight[f].secret]
<1>1. PICK r \in Responses({}, 0) :
          /\ chain' = {made(r)}
          /\ cont' = IF r.more THEN [cont EXCEPT ![1] = Active(flight[f].credential)] ELSE cont
          /\ answers' = answers \cup {built(r)}
  BY DEF CommitInitial, AlreadyCommitted
<1>2. Cardinality(r.items) <= MaxChainItems
  <2>1. Cardinality({} \cup r.items) <= MaxChainItems
    BY ResponseTyped
  <2>2. {} \cup r.items = r.items
    OBVIOUS
  <2> QED
    BY <2>1, <2>2
<1>3. /\ built(r).gen = 1 /\ built(r).items = r.items /\ built(r).more = r.more
      /\ built(r).pages = r.pages /\ built(r).unique = Cardinality(r.items)
  BY DEF Result
<1>4. made(r).result = built(r) /\ made(r).seen = r.items /\ made(r).pages = r.pages
  OBVIOUS
<1> HIDE DEF built, made
<1>5. \A g \in Generations : ~Issued(g) /\ cont[g] = NoContinuation
  BY DEF ContOK
<1>6. \A x : x \notin Handed
  BY <1>5, NoContinuationFields, HandedBy
<1>7. ASSUME NEW g \in Generations
      PROVE \/ cont'[g] = NoContinuation
            \/ r.more /\ g = 1 /\ cont'[g] = Active(flight[f].credential)
  BY <1>1, <1>5 DEF Typed
<1>8. Handed' = {built(r)}
  <2>1. \A g \in Generations : cont'[g].result = {}
    BY <1>7, NoContinuationFields, ActiveFields
  <2>2. ASSUME NEW x
        PROVE x \in Handed' <=> x = built(r)
    <3>1. x \in Handed' <=> \/ \E g \in Generations : x \in cont'[g].result
                            \/ \E e \in chain' : x = e.result
      BY DEF Handed
    <3> QED
      BY <1>1, <1>4, <2>1, <3>1
  <2> QED
    BY <2>2
<1>9. Paged!HandOut(built(r))
  <2>1. Handed = {} /\ Handed' = Handed \cup {built(r)}
    BY <1>6, <1>8
  <2>2. Paged!Seen = {}
    BY <2>1 DEF Paged!Seen
  <2>3. built(r).unique = Paged!Cardinality(Paged!Seen \cup built(r).items)
    <3>1. {} \cup built(r).items = r.items
      BY <1>3
    <3> QED
      BY <1>3, <2>2, <3>1, SameCount
  <2> QED
    BY <1>1, <1>2, <1>3, <2>1, <2>2, <2>3 DEF Paged!HandOut
<1>10. SearchOK'
  <2>1. \A c \in chain' : c.seen = Paged!Seen'
    <3>1. Paged!Seen' = UNION {s.items : s \in Handed'}
      BY DEF Paged!Seen
    <3>2. UNION {s.items : s \in {built(r)}} = built(r).items
      OBVIOUS
    <3> QED
      BY <1>1, <1>3, <1>4, <1>8, <3>1, <3>2
  <2>2. ASSUME NEW g \in Generations, Issued(g)'
        PROVE LastIs(g)'
    <3>1. r.more /\ g = 1
      BY <1>7, <2>2, NoContinuationFields DEF Issued
    <3>2. built(r) \in Handed' /\ built(r).gen = g /\ built(r).more
      BY <1>3, <1>8, <3>1
    <3>3. \A c \in chain' : built(r).pages = c.pages
      BY <1>1, <1>3, <1>4
    <3>4. \A t \in Handed' : t.gen <= g
      BY <1>3, <1>8, <3>1
    <3> QED
      BY <3>2, <3>3, <3>4 DEF LastIs
  <2> QED
    BY <2>1, <2>2 DEF SearchOK
<1>11. built(r) \in Handed' \ Handed
  BY <1>6, <1>8
<1> QED
  BY <1>9, <1>10, <1>11 DEF Paged!SearchNext

\* A continuation of a call that waits has been issued, and a spent one has one result.
LEMMA SpentOnce ==
    ASSUME ContOK, NEW g \in Generations, cont[g].state = "consumed"
    PROVE \E r \in Handed : cont[g].result = {r}
<1>1. PICK r \in cont[g].result : cont[g].result = {r}
  BY DEF ContOK, Spent
<1> QED
  BY <1>1, HandedBy

LEMMA StillQuiet ==
    ASSUME UNCHANGED <<chain, cont>>,
           answers' = answers \/ \E r \in Handed : answers' = answers \cup {r}
    PROVE Quiet
BY DEF Quiet, Issued

\* Every step of a call hands nothing out, spends a continuation or commits the chain.
LEMMA StepSearch ==
    ASSUME Typed, Stored, NEW f \in Flights, FlightOK(f), Step(f)
    PROVE \/ Quiet
          \/ \E o : Spends(o)
          \/ chain = {} /\ CommitInitial(f)
<1>1. CASE \/ Search(f) \/ Continue(f) \/ BindCredential(f) \/ OpenFails(f) \/ ReadChain(f)
           \/ Respond(f) \/ ProviderFails(f) \/ Crash(f) \/ RecoverPending(f) \/ RecordOutcome(f)
  BY <1>1, StillQuiet DEF Search, Continue, Begin, BindCredential, OpenFails, ReadChain, Respond,
     ProviderFails, Crash, RecoverPending, RecordOutcome
<1>2. CASE SearchReplay(f)
  <2>1. The(chain).result \in Handed
    BY <1>2, TheSome, HandedBy DEF SearchReplay
  <2> QED
    BY <1>2, <2>1, StillQuiet DEF SearchReplay
<1>3. CASE CommitInitial(f) /\ chain # {}
  <2>1. The(chain).result \in Handed
    BY <1>3, TheSome, HandedBy
  <2>2. UNCHANGED <<chain, cont>> /\ answers' = answers \cup {The(chain).result}
    BY <1>3 DEF CommitInitial, AlreadyCommitted
  <2> QED
    BY <2>1, <2>2, StillQuiet
<1>4. CASE FlightMoves(f)
  <2>1. Moves
    BY <1>4, FlightMovesAll DEF Stored, MovesAll
  <2>2. answers' = answers
    BY <1>4 DEF FlightMoves, ReserveRefused, ReserveTaken, MarkDispatched,
                ReleaseUndispatched, Revoke, ReserveRecovery
  <2> QED
    BY <2>1, <2>2 DEF Moves, Quiet
<1>5. CASE ReserveReplayed(f)
  <2>1. PICK g \in Generations : g = flight[f].gen
    BY <1>5 DEF FlightOK, ReserveReplayed
  <2>2. CASE /\ ReservationCase(f) = "replay"
             /\ answers' = answers \cup cont[g].result /\ UNCHANGED <<chain, cont>>
    <3>1. cont[g].state = "consumed"
      BY <2>1, <2>2 DEF ReservationCase
    <3> QED
      BY <2>2, <3>1, SpentOnce, StillQuiet DEF Stored
  <2>3. CASE /\ ReservationCase(f) = "settle"
             /\ Consumed(The(OutcomesOf(g)))
             /\ answers' = answers \cup {The(OutcomesOf(g)).result}
    <3>1. cont[g].state = "dispatched-unknown" /\ OutcomesOf(g) # {}
      BY <2>1, <2>3 DEF ReservationCase
    <3>2. Consumable(The(OutcomesOf(g)))
      BY <3>1, SettledConsumable DEF Stored
    <3> QED
      BY <2>3, <3>2 DEF Spends
  <2> QED
    BY <1>5, <2>1, <2>2, <2>3 DEF ReserveReplayed
<1>6. CASE ConsumeOutcome(f)
  <2>1. PICK o \in OutcomeRecords : o = The(flight[f].outcome) /\ OutcomeOK(o)
    BY <1>6, FlightOutcome DEF ConsumeOutcome
  <2>2. CASE /\ cont[o.gen].state = "consumed"
             /\ answers' = answers \cup cont[o.gen].result /\ UNCHANGED <<chain, cont>>
    <3>1. o.gen \in Generations
      BY DEF OutcomeRecords
    <3> QED
      BY <2>2, <3>1, SpentOnce, StillQuiet DEF Stored
  <2>3. CASE Matches(o) /\ Consumed(o) /\ answers' = answers \cup {o.result}
    BY <2>1, <2>3 DEF Consumable, Matches, Spends
  <2>4. CASE UNCHANGED <<chain, cont, answers>>
    BY <2>4, StillQuiet
  <2> QED
    BY <1>6, <2>1, <2>2, <2>3, <2>4 DEF ConsumeOutcome
<1>7. CASE RecoverOutcome(f)
  <2>1. PICK g \in Unresolved : OutcomesOf(g) # {} /\ Consumed(The(OutcomesOf(g)))
    BY <1>7 DEF RecoverOutcome
  <2>2. Consumable(The(OutcomesOf(g)))
    BY <2>1, SettledConsumable DEF Stored, Unresolved
  <2> QED
    BY <1>7, <2>1, <2>2 DEF RecoverOutcome, Spends
<1> QED
  BY <1>1, <1>2, <1>3, <1>4, <1>5, <1>6, <1>7, SMTT(30) DEF Step, FlightMoves

LEMMA SearchStep ==
    ASSUME IInv, SearchOK, [Next]_vars
    PROVE SearchOK' /\ [Paged!SearchNext]_(Paged!searchVars)
<1>0. Typed /\ Stored /\ \A f \in Flights : FlightOK(f)
  BY DEF IInv, Stored
<1>1. CASE Rotate \/ UNCHANGED vars
  BY <1>1, StillQuiet, QuietSearch DEF Rotate, vars
<1>2. ASSUME NEW g \in Generations, LeaseEnds(g) \/ TokenExpires(g)
      PROVE Quiet
  <2>1. Moves
    BY <1>0, <1>2, TimeMoves DEF Stored, MovesAll
  <2>2. answers' = answers
    BY <1>2 DEF LeaseEnds, TokenExpires
  <2> QED
    BY <2>1, <2>2 DEF Moves, Quiet
<1>3. ASSUME NEW f \in Flights, Step(f)
      PROVE SearchOK' /\ [Paged!SearchNext]_(Paged!searchVars)
  BY <1>0, <1>3, StepSearch, QuietSearch, SpendsSearch, CommitsSearch DEF Stored
<1> QED
  BY <1>1, <1>2, <1>3, QuietSearch DEF Next

\* The tokens, their reservations and takeovers, recorded outcomes and recoveries
\* implement one search: results follow one another, no item comes twice, the totals
\* are those of what was handed out, and callers are given these results only (store.ts,
\* coordinator.ts).
THEOREM Refinement == Spec => RefinesSearch
<1>1. Init => Paged!SearchInit /\ SearchOK
  <2> SUFFICES ASSUME Init PROVE Paged!SearchInit /\ SearchOK
    OBVIOUS
  <2>1. \A g \in Generations : cont[g].result = {} /\ ~Issued(g)
    BY NoContinuationFields DEF Init, Issued
  <2>2. \A x : x \notin Handed
    BY <2>1, HandedBy DEF Init
  <2> QED
    BY <2>1, <2>2 DEF Init, Paged!SearchInit, SearchOK
<1>2. IInv /\ SearchOK /\ [Next]_vars => SearchOK' /\ [Paged!SearchNext]_(Paged!searchVars)
  BY SearchStep
<1> QED
  BY <1>1, <1>2, Invariance, PTL DEF Spec, RefinesSearch, Paged!SearchSpec
=============================================================================
