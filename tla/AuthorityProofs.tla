-------------------------- MODULE AuthorityProofs --------------------------
(***************************************************************************)
(* Proofs about Authority, for any evidence, results, coordinators and     *)
(* bounds.  Records are only ever appended, so what was true of a record   *)
(* stays true of it; and the generation counts every append, so a claim or *)
(* an audit whose generation still matches was made on the state it is     *)
(* committed on.                                                           *)
(***************************************************************************)
EXTENDS Authority, SequenceTheorems, TLAPS

-----------------------------------------------------------------------------
(* The inductive invariant *)

ReportRecords == [subjects : SUBSET Subjects, overall : {"passed", "failed", "blocked"},
                  binding : Nat]

ReviewRecords == [subjects : SUBSET Subjects, reports : SUBSET Nat,
                  rec : {"accept", "revise", "reject"}, hard : BOOLEAN,
                  supersedes : SUBSET Nat, binding : Nat]

ProposalRecords == [type : AllClaimTypes, support : SUBSET Subjects, base : SUBSET Nat,
                    brief : Nat, operands : SUBSET Results,
                    reports : SUBSET Nat, reviews : SUBSET Nat]

SupportStates == {"insufficient-evidence", "contradicted", "independently-checked",
                  "source-backed", "experiment-supported", "proposed", "rejected"}

ClaimRecords == [proposal : ProposalRecords, approval : {"approved", "rejected", "pending"},
                 support : SupportStates, verified : BOOLEAN, current : BOOLEAN]

PacketRecords == [claims : SUBSET Nat, forbidden : SUBSET Nat, brief : Nat, binding : Nat]

ManuscriptRecords == [packet : Nat, claims : SUBSET Nat, validated : BOOLEAN]

AskedRecords == [claim : ClaimRecords, generation : Nat, answered : BOOLEAN]

AuditRecords == [packet : Nat, claims : SUBSET Nat, validated : BOOLEAN, generation : Nat]

Typed ==
    /\ reports \in Seq(ReportRecords)
    /\ reviews \in Seq(ReviewRecords)
    /\ claims \in Seq(ClaimRecords)
    /\ packets \in Seq(PacketRecords)
    /\ manuscripts \in Seq(ManuscriptRecords)
    /\ brief \in Nat /\ binding \in Nat /\ changes \in Nat
    /\ asked \in [Coordinators -> {NotAsked} \cup AskedRecords]
    /\ audited \in [Writers -> {NotAsked} \cup AuditRecords]

\* An accepting review accepts what its reports passed.
AcceptedOnReport ==
    \A r \in DOMAIN reviews : reviews[r].rec = "accept" =>
        reviews[r].subjects \subseteq PassedIn(reviews[r].reports)

\* A claim that waits for the user names claims that exist.
AskedNamesClaims ==
    \A k \in Coordinators : asked[k] # NotAsked =>
        asked[k].claim.proposal.base \subseteq DOMAIN claims

\* A claim the user has answered for was reassessed on the state of its generation.
AnsweredIsReassessed ==
    \A k \in Coordinators :
        asked[k] # NotAsked /\ asked[k].answered /\ asked[k].generation = Generation =>
            Reassessed(asked[k].claim)

\* What an audit that waits for its commit found holds on the state of its generation.
StillTrue(m) ==
    m.claims \subseteq EligibleClaims /\ packets[m.packet].claims = EligibleClaims

AuditedIsTrue ==
    \A w \in Writers :
        audited[w] # NotAsked /\ audited[w].validated /\ audited[w].generation = Generation =>
            StillTrue(audited[w])

IInv ==
    /\ TypeOK
    /\ Typed
    /\ AcceptedOnReport
    /\ StatusHasActiveReview
    /\ AskedNamesClaims
    /\ AnsweredIsReassessed
    /\ AuditedIsTrue

-----------------------------------------------------------------------------
(* Appending and what it leaves alone *)

\* A record that is appended changes no record before it.
LEMMA Appended ==
    ASSUME NEW S, NEW s \in Seq(S), NEW e \in S
    PROVE  /\ Append(s, e) \in Seq(S)
           /\ Len(s) \in Nat
           /\ Len(Append(s, e)) = Len(s) + 1
           /\ DOMAIN s = 1..Len(s)
           /\ DOMAIN Append(s, e) = 1..(Len(s) + 1)
           /\ \A i \in DOMAIN s : Append(s, e)[i] = s[i]
           /\ DOMAIN s \subseteq DOMAIN Append(s, e)
           /\ \A i \in DOMAIN Append(s, e) : i \in DOMAIN s \/ i = Len(s) + 1
           /\ Append(s, e)[Len(s) + 1] = e
<1>1. Append(s, e) \in Seq(S) /\ Len(Append(s, e)) = Len(s) + 1 /\ Len(s) \in Nat
    BY AppendProperties
<1>2. DOMAIN s = 1..Len(s) /\ DOMAIN Append(s, e) = 1..(Len(s) + 1)
    BY <1>1, LenProperties
<1>3. \A i \in 1..Len(s) : Append(s, e)[i] = s[i]
    BY <1>1, AppendProperties
<1>4. Append(s, e)[Len(s) + 1] = e
    BY <1>1, AppendProperties
<1> QED
    BY <1>1, <1>2, <1>3, <1>4

\* What the assessment of a proposal can say.
LEMMA SupportStateType ==
    ASSUME NEW p PROVE SupportState(p) \in SupportStates
BY DEF SupportState, SupportStates

LEMMA ClaimType ==
    ASSUME NEW p \in ProposalRecords, NEW a \in {"approved", "rejected", "pending"}
    PROVE  Claim(p, a) \in ClaimRecords
<1>1. SupportState(p) \in SupportStates
    BY SupportStateType
<1>2. Verified(p) \in BOOLEAN /\ Current(p) \in BOOLEAN
    BY DEF Verified, Current
<1> QED
    BY <1>1, <1>2 DEF Claim, ClaimRecords, SupportStates

\* A proposal names records that exist.
LEMMA ProposalType ==
    ASSUME Typed, NEW p \in Proposals
    PROVE  /\ p \in ProposalRecords
           /\ p.base \subseteq DOMAIN claims
           /\ p.reviews \subseteq DOMAIN reviews
           /\ p.reports \subseteq DOMAIN reports
<1>1. DOMAIN claims \subseteq Nat /\ DOMAIN reviews \subseteq Nat /\ DOMAIN reports \subseteq Nat
    BY LenProperties DEF Typed
<1>2. PICK t \in ClaimTypes :
        p \in [type : {t}, support : SUBSET Subjects, base : SUBSET (DOMAIN claims),
              brief : IF t = "hypothesis" THEN {brief} ELSE {0},
              operands : IF t = "derived-calculation" THEN SUBSET Results ELSE {{}},
              reports : AtMostOne(DOMAIN reports), reviews : SUBSET (DOMAIN reviews)]
    BY DEF Proposals
<1>3. t \in AllClaimTypes
    BY AuthorityAssumption
<1>4. p.brief \in Nat /\ p.operands \in SUBSET Results /\ p.reports \in SUBSET (DOMAIN reports)
    BY <1>2 DEF Typed, AtMostOne
<1> QED
    BY <1>1, <1>2, <1>3, <1>4 DEF ProposalRecords

-----------------------------------------------------------------------------
(* Types *)

LEMMA Numbers ==
    ASSUME Typed
    PROVE  /\ Generation \in Nat
           /\ DOMAIN reports \subseteq Nat /\ DOMAIN reviews \subseteq Nat
           /\ DOMAIN claims \subseteq Nat /\ DOMAIN packets \subseteq Nat
           /\ EligibleClaims \subseteq DOMAIN claims
           /\ Packet \in PacketRecords
<1>1. /\ Len(reports) \in Nat /\ Len(reviews) \in Nat /\ Len(claims) \in Nat
      /\ Len(packets) \in Nat /\ Len(manuscripts) \in Nat /\ changes \in Nat
    BY LenProperties DEF Typed
<1>2. Generation \in Nat
    BY <1>1 DEF Generation
<1>3. /\ DOMAIN reports \subseteq Nat /\ DOMAIN reviews \subseteq Nat
      /\ DOMAIN claims \subseteq Nat /\ DOMAIN packets \subseteq Nat
    BY LenProperties DEF Typed
<1>4. EligibleClaims \subseteq DOMAIN claims
    BY DEF EligibleClaims
<1>5. Packet \in PacketRecords
    BY <1>3, <1>4 DEF Packet, PacketRecords, Typed
<1> QED
    BY <1>2, <1>3, <1>4, <1>5

\* The actions of the coordinators that change only what waits for the user.
LEMMA WaitTyped ==
    ASSUME Typed, NEW k \in Coordinators, NEW v \in {NotAsked} \cup AskedRecords, Wait(k, v)
    PROVE  Typed'
BY DEF Wait, Typed

LEMMA AnsweredType ==
    ASSUME Typed, NEW k \in Coordinators, asked[k] # NotAsked,
           NEW a \in {"approved", "rejected", "pending"}
    PROVE  /\ asked[k] \in AskedRecords
           /\ Answered(k, a) \in ClaimRecords
           /\ Answered(k, a).proposal = asked[k].claim.proposal
           /\ [asked[k] EXCEPT !.claim = Answered(k, a), !.answered = TRUE] \in AskedRecords
<1>1. asked[k] \in AskedRecords
    BY DEF Typed
<1>2. asked[k].claim \in ClaimRecords
    BY <1>1 DEF AskedRecords
<1>3. Answered(k, a) \in ClaimRecords /\ Answered(k, a).proposal = asked[k].claim.proposal
    BY <1>2 DEF Answered, ClaimRecords, SupportStates
<1> QED
    BY <1>1, <1>3 DEF AskedRecords

LEMMA ReportTyped ==
    ASSUME Typed, NEW S \in SUBSET Subjects, NEW o \in {"passed", "failed", "blocked"},
           Report(S, o)
    PROVE  Typed'
<1>1. [subjects |-> S, overall |-> o, binding |-> binding] \in ReportRecords
    BY DEF Typed, ReportRecords
<1>2. reports' \in Seq(ReportRecords)
    BY <1>1, Appended DEF Report, Typed
<1> QED
    BY <1>2 DEF Report, Typed

LEMMA ReviewTyped ==
    ASSUME Typed, NEW S \in SUBSET Subjects, NEW R \in AtMostOne(DOMAIN reports),
           NEW rec \in {"accept", "revise", "reject"}, NEW hard \in BOOLEAN,
           NEW old \in SUBSET DOMAIN reviews, Review(S, R, rec, hard, old)
    PROVE  /\ Typed'
           /\ R \subseteq DOMAIN reports
           /\ [subjects |-> S, reports |-> R, rec |-> rec, hard |-> hard,
               supersedes |-> old, binding |-> binding] \in ReviewRecords
<1>1. R \subseteq DOMAIN reports
    BY DEF AtMostOne
<1>2. [subjects |-> S, reports |-> R, rec |-> rec, hard |-> hard,
       supersedes |-> old, binding |-> binding] \in ReviewRecords
    BY <1>1, Numbers DEF Typed, ReviewRecords
<1>3. reviews' \in Seq(ReviewRecords)
    BY <1>2, Appended DEF Review, Typed
<1> QED
    BY <1>1, <1>2, <1>3 DEF Review, Typed

LEMMA RecordTyped ==
    ASSUME Typed, NEW c \in ClaimRecords, Record(c),
           asked' \in [Coordinators -> {NotAsked} \cup AskedRecords]
    PROVE  Typed'
<1>1. claims' \in Seq(ClaimRecords)
    BY Appended DEF Record, Typed
<1> QED
    BY <1>1 DEF Record, Typed

LEMMA PacketTyped ==
    ASSUME Typed, NEW k \in Coordinators, BuildPacket(k)
    PROVE  Typed'
<1>1. packets' \in Seq(PacketRecords)
    BY Appended, Numbers DEF BuildPacket, Typed
<1> QED
    BY <1>1 DEF BuildPacket, Typed

LEMMA AuditTyped ==
    ASSUME Typed, NEW w \in Writers, NEW p \in DOMAIN packets, NEW traced \in BOOLEAN,
           NEW used \in SUBSET DOMAIN claims, Audit(w, p, used, traced)
    PROVE  /\ Typed'
           /\ [packet |-> p, claims |-> used, validated |-> Passes(p, used, traced),
               generation |-> Generation] \in AuditRecords
<1>1. Passes(p, used, traced) \in BOOLEAN
    BY DEF Passes
<1>2. [packet |-> p, claims |-> used, validated |-> Passes(p, used, traced),
       generation |-> Generation] \in AuditRecords
    BY <1>1, Numbers DEF AuditRecords
<1> QED
    BY <1>2 DEF Audit, Typed

LEMMA ManuscriptTyped ==
    ASSUME Typed, NEW w \in Writers, CommitManuscript(w)
    PROVE  /\ Typed'
           /\ audited[w] \in AuditRecords
           /\ Manuscript(w) \in ManuscriptRecords
<1>1. audited[w] \in AuditRecords
    BY DEF Typed, CommitManuscript
<1>2. Manuscript(w) \in ManuscriptRecords
    BY <1>1 DEF Manuscript, ManuscriptRecords, AuditRecords
<1>3. manuscripts' \in Seq(ManuscriptRecords)
    BY <1>2, Appended DEF CommitManuscript, Typed
<1> QED
    BY <1>1, <1>2, <1>3 DEF CommitManuscript, Typed

LEMMA SpeculationType == Speculation \in ProposalRecords
BY DEF Speculation, ProposalRecords, AllClaimTypes

LEMMA AskTyped ==
    ASSUME Typed, NEW k \in Coordinators, NEW p \in Proposals, Ask(k, p)
    PROVE  /\ Typed'
           /\ [claim |-> Claim(p, "approved"), generation |-> Generation, answered |-> FALSE]
                  \in AskedRecords
<1>1. Claim(p, "approved") \in ClaimRecords
    BY ProposalType, ClaimType
<1>2. [claim |-> Claim(p, "approved"), generation |-> Generation, answered |-> FALSE]
          \in AskedRecords
    BY <1>1, Numbers DEF AskedRecords
<1> QED
    BY <1>2, WaitTyped DEF Ask

LEMMA CommitClaimTyped ==
    ASSUME Typed, NEW k \in Coordinators, NEW a \in {"pending", "rejected"},
           CommitClaim(k, a)
    PROVE  Typed' /\ Claim(Speculation, a) \in ClaimRecords
<1>1. Claim(Speculation, a) \in ClaimRecords
    BY SpeculationType, ClaimType
<1> QED
    BY <1>1, RecordTyped DEF CommitClaim, Typed

LEMMA AnswerTyped ==
    ASSUME Typed, NEW k \in Coordinators, NEW a \in {"approved", "rejected", "pending"},
           Answer(k, a)
    PROVE  Typed'
BY AnsweredType, WaitTyped DEF Answer

LEMMA CommitTyped ==
    ASSUME Typed, NEW k \in Coordinators, Commit(k)
    PROVE  Typed' /\ asked[k].claim \in ClaimRecords
<1>1. asked[k].claim \in ClaimRecords
    BY DEF Typed, Commit, AskedRecords
<1>2. CASE GenerationMatches(asked[k])
    BY <1>1, <1>2, RecordTyped DEF Commit, Typed
<1>3. CASE ~GenerationMatches(asked[k])
    BY <1>1, <1>3, WaitTyped DEF Commit
<1> QED
    BY <1>2, <1>3

LEMMA ChangeTyped ==
    ASSUME Typed, (\E s \in Subjects : Drift(s)) \/ ReviseBrief \/ Rebind
    PROVE  Typed'
BY DEF Typed, Drift, ReviseBrief, Rebind, Change

-----------------------------------------------------------------------------
(* Reports and reviews *)

\* A later report changes nothing about what earlier ones passed.
LEMMA PassedStays ==
    ASSUME Typed, NEW rep \in ReportRecords, reports' = Append(reports, rep),
           NEW R \in SUBSET DOMAIN reports
    PROVE  PassedIn(R)' = PassedIn(R)
<1>1. \A i \in R : reports'[i] = reports[i]
    BY Appended DEF Typed
<1>2. {j \in R : reports[j].overall = "passed"} = {j \in R : reports'[j].overall = "passed"}
    BY <1>1
<1>3. \A x : x \in PassedIn(R)' <=> x \in PassedIn(R)
    BY <1>1, <1>2 DEF PassedIn
<1> QED
    BY <1>3

\* A new review is active, and takes only those it supersedes out of force.
LEMMA ActiveAfterReview ==
    ASSUME Typed, TypeOK, NEW v \in ReviewRecords, reviews' = Append(reviews, v),
           v.supersedes \subseteq DOMAIN reviews
    PROVE  /\ Len(reviews) + 1 \in Active'
           /\ \A r \in Active : r \notin v.supersedes => r \in Active'
<1> DEFINE n == Len(reviews) + 1
<1>1. /\ Len(reviews) \in Nat /\ DOMAIN reviews = 1..Len(reviews) /\ DOMAIN reviews' = 1..n
      /\ \A i \in DOMAIN reviews : reviews'[i] = reviews[i]
      /\ reviews'[n] = v
    BY Appended DEF Typed
<1>2. \A i \in DOMAIN reviews' : reviews'[i].supersedes \subseteq DOMAIN reviews
    BY <1>1 DEF TypeOK
<1>3. n \in Active'
    BY <1>1, <1>2 DEF Active, Superseded
<1>4. ASSUME NEW r \in Active, r \notin v.supersedes PROVE r \in Active'
    <2>1. ASSUME NEW later \in DOMAIN reviews' PROVE r \notin reviews'[later].supersedes
        BY <1>1, <1>4 DEF Active, Superseded
    <2> QED
        BY <1>1, <2>1 DEF Active, Superseded
<1> QED
    BY <1>3, <1>4

\* What a step must leave alone for the statuses to keep their reviews.
LEMMA StatusUnchanged ==
    ASSUME StatusHasActiveReview, AcceptedOnReport, UNCHANGED <<status, reports, reviews>>
    PROVE  StatusHasActiveReview' /\ AcceptedOnReport'
BY DEF StatusHasActiveReview, AcceptedOnReport, Active, Superseded, PassedIn

LEMMA StatusAfterReport ==
    ASSUME Typed, TypeOK, StatusHasActiveReview, AcceptedOnReport,
           NEW S \in SUBSET Subjects, NEW o \in {"passed", "failed", "blocked"}, Report(S, o),
           \A e \in Evidence : status'[e] = status[e]
    PROVE  StatusHasActiveReview' /\ AcceptedOnReport'
<1>1. reports' = Append(reports, [subjects |-> S, overall |-> o, binding |-> binding])
      /\ [subjects |-> S, overall |-> o, binding |-> binding] \in ReportRecords
    BY DEF Report, Typed, ReportRecords
<1>2. reviews' = reviews /\ Active' = Active
    BY DEF Report, Active, Superseded
<1>3. \A r \in DOMAIN reviews : PassedIn(reviews[r].reports)' = PassedIn(reviews[r].reports)
    <2> SUFFICES ASSUME NEW r \in DOMAIN reviews
                 PROVE  PassedIn(reviews[r].reports)' = PassedIn(reviews[r].reports)
        OBVIOUS
    <2>1. reviews[r].reports \in SUBSET DOMAIN reports /\ reviews'[r] = reviews[r]
        BY <1>2 DEF TypeOK
    <2>2. \A i \in reviews[r].reports : reports'[i] = reports[i]
        BY <1>1, <2>1, Appended DEF Typed
    <2> QED
        BY <2>1, <2>2 DEF PassedIn
<1>4. AcceptedOnReport'
    BY <1>2, <1>3 DEF AcceptedOnReport
<1>5. \A r \in DOMAIN reviews : Verdict(reviews[r].rec)' = Verdict(reviews[r].rec)
    BY <1>2 DEF Verdict
<1>6. Active \subseteq DOMAIN reviews
    BY DEF Active
<1> QED
    BY <1>2, <1>3, <1>4, <1>5, <1>6 DEF StatusHasActiveReview

\* A review gives its subjects the status it says; the reviews it takes out of
\* force have the same subjects.
LEMMA StatusAfterReview ==
    ASSUME Typed, TypeOK, StatusHasActiveReview, AcceptedOnReport,
           NEW S \in SUBSET Subjects, NEW R \in AtMostOne(DOMAIN reports),
           NEW rec \in {"accept", "revise", "reject"}, NEW hard \in BOOLEAN,
           NEW old \in SUBSET DOMAIN reviews, Review(S, R, rec, hard, old)
    PROVE  StatusHasActiveReview' /\ AcceptedOnReport'
<1> DEFINE n == Len(reviews) + 1
           v == [subjects |-> S, reports |-> R, rec |-> rec, hard |-> hard,
                 supersedes |-> old, binding |-> binding]
<1>1. v \in ReviewRecords /\ reviews' = Append(reviews, v) /\ R \subseteq DOMAIN reports
    BY ReviewTyped DEF Review
<1>2. /\ DOMAIN reviews' = DOMAIN reviews \cup {n}
      /\ n \notin DOMAIN reviews
      /\ \A i \in DOMAIN reviews : reviews'[i] = reviews[i]
      /\ reviews'[n] = v
    BY <1>1, Appended DEF Typed
<1>3. n \in Active' /\ \A r \in Active : r \notin old => r \in Active'
    BY <1>1, ActiveAfterReview
<1>4. reports' = reports /\ \A Q : PassedIn(Q)' = PassedIn(Q)
    BY DEF Review, PassedIn
<1>5. rec = "accept" => S \subseteq PassedIn(R)
    BY DEF Review, AcceptIsValidated
<1>6. AcceptedOnReport'
    <2> SUFFICES ASSUME NEW r \in DOMAIN reviews', reviews'[r].rec = "accept"
                 PROVE  reviews'[r].subjects \subseteq PassedIn(reviews'[r].reports)
        BY <1>4 DEF AcceptedOnReport, PassedIn
    <2>1. CASE r \in DOMAIN reviews
        BY <1>2, <2>1 DEF AcceptedOnReport
    <2>2. CASE r = n
        BY <1>2, <1>5, <2>2
    <2> QED
        BY <1>2, <2>1, <2>2
<1>7. StatusHasActiveReview'
    <2> SUFFICES ASSUME NEW e \in Evidence, status'[e] # "pending"
                 PROVE  \E r \in Active' :
                            /\ e \in reviews'[r].subjects
                            /\ Verdict(reviews'[r].rec) = status'[e]
                            /\ status'[e] = "accepted" => e \in PassedIn(reviews'[r].reports)
        BY <1>4 DEF StatusHasActiveReview, PassedIn, Verdict
    <2>0. e \in Subjects
        BY DEF Subjects
    <2>1. CASE e \in S
        <3>1. status'[e] = Verdict(rec)
            BY <2>0, <2>1 DEF Review
        <3>2. Verdict(rec) = "accepted" => rec = "accept"
            BY DEF Verdict
        <3> QED
            BY <1>2, <1>3, <1>5, <2>1, <3>1, <3>2
    <2>2. CASE e \notin S
        <3>1. status'[e] = status[e]
            BY <2>0, <2>2 DEF Review
        <3>2. PICK r \in Active :
                  /\ e \in reviews[r].subjects
                  /\ Verdict(reviews[r].rec) = status[e]
                  /\ status[e] = "accepted" => e \in PassedIn(reviews[r].reports)
            BY <3>1 DEF StatusHasActiveReview
        <3>3. r \in DOMAIN reviews
            BY DEF Active
        <3>4. r \notin old
            BY <2>2, <3>2 DEF Review, SupersedesSameSubjects
        <3> QED
            BY <1>2, <1>3, <3>1, <3>2, <3>3, <3>4
    <2> QED
        BY <2>1, <2>2
<1> QED
    BY <1>6, <1>7

-----------------------------------------------------------------------------
(* Claims *)

\* What a proposal is worth does not depend on claims recorded since.
LEMMA WorthStays ==
    ASSUME Typed, NEW p \in ProposalRecords, p.base \subseteq DOMAIN claims,
           UNCHANGED <<status, sound, reports, reviews, brief>>,
           \A c \in DOMAIN claims : claims'[c] = claims[c]
    PROVE  /\ Current(p)' <=> Current(p)
           /\ Verified(p)' <=> Verified(p)
           /\ SupportState(p)' = SupportState(p)
<1>1. Active' = Active
    BY DEF Active, Superseded
<1>2. ReferencesCurrent(p)' <=> ReferencesCurrent(p)
    BY DEF ReferencesCurrent, EvidenceCurrent, ClaimRefCurrent
<1>3. Current(p)' <=> Current(p)
    BY <1>1, <1>2 DEF Current
<1>4. (ReviewsRelevant(p)' <=> ReviewsRelevant(p)) /\ (ReviewsComplete(p)' <=> ReviewsComplete(p))
    BY <1>1 DEF ReviewsRelevant, ReviewsComplete, Keys
<1>5. Verified(p)' <=> Verified(p)
    BY <1>3, <1>4 DEF Verified
<1>6. AcceptedReview(p)' <=> AcceptedReview(p)
    BY DEF AcceptedReview, Keys
<1>7. \A S : Validated(p, S)' <=> Validated(p, S)
    BY DEF Validated, PassedIn
<1>8. SupportState(p)' = SupportState(p)
    BY <1>5, <1>6, <1>7 DEF SupportState, HasSupport
<1> QED
    BY <1>3, <1>5, <1>8

LEMMA EligibilityStays ==
    ASSUME Typed, NEW c \in ClaimRecords, c.proposal.base \subseteq DOMAIN claims,
           UNCHANGED <<status, sound, reports, reviews, brief>>,
           \A i \in DOMAIN claims : claims'[i] = claims[i]
    PROVE  /\ Eligible(c)' <=> Eligible(c)
           /\ Reassessed(c)' <=> Reassessed(c)
<1> DEFINE p == c.proposal
<1>0. p \in ProposalRecords
    BY DEF ClaimRecords
<1>1. /\ Current(p)' <=> Current(p)
      /\ Verified(p)' <=> Verified(p)
      /\ SupportState(p)' = SupportState(p)
    BY <1>0, WorthStays
<1>2. \A r : HardReview(r)' <=> HardReview(r)
    BY DEF HardReview, Active, Superseded
<1>3. Eligible(c)' <=> Eligible(c)
    BY <1>1, <1>2 DEF Eligible
<1>4. Claim(p, c.approval)' = Claim(p, c.approval)
    BY <1>1 DEF Claim, Verified, Current
<1> QED
    BY <1>3, <1>4 DEF Reassessed

-----------------------------------------------------------------------------
(* The steps *)

\* Every commit raises the generation, so what waits with an older one will not be
\* committed.
LEMMA AskedAfterCommit ==
    ASSUME Typed, TypeOK, AskedNamesClaims, Generation' = Generation + 1,
           \A k \in Coordinators : asked'[k] = asked[k] \/ asked'[k] = NotAsked,
           \A w \in Writers : audited'[w] = audited[w] \/ audited'[w] = NotAsked,
           DOMAIN claims \subseteq DOMAIN claims', DOMAIN packets \subseteq DOMAIN packets'
    PROVE  /\ AskedNamesClaims'
           /\ AnsweredIsReassessed' /\ AuditedIsTrue'
           /\ \A k \in Coordinators : asked'[k] # NotAsked => asked'[k].generation <= Generation'
           /\ \A w \in Writers : audited'[w] # NotAsked =>
                  audited'[w].packet \in DOMAIN packets' /\ audited'[w].generation <= Generation'
<1>1. Generation \in Nat
    BY Numbers
<1>2. ASSUME NEW k \in Coordinators, asked'[k] # NotAsked
      PROVE  /\ asked[k] # NotAsked /\ asked'[k] = asked[k]
             /\ asked[k].generation \in Nat
             /\ asked[k].generation <= Generation
             /\ asked[k].claim.proposal.base \subseteq DOMAIN claims
    BY <1>2 DEF TypeOK, Typed, AskedRecords, AskedNamesClaims
<1>3. AskedNamesClaims'
    BY <1>2 DEF AskedNamesClaims
<1>4. ASSUME NEW k \in Coordinators, asked'[k] # NotAsked
      PROVE  asked'[k].generation # Generation' /\ asked'[k].generation <= Generation'
    BY <1>1, <1>2, <1>4
<1>5. AnsweredIsReassessed'
    BY <1>4 DEF AnsweredIsReassessed
<1>6. ASSUME NEW w \in Writers, audited'[w] # NotAsked
      PROVE  /\ audited'[w].packet \in DOMAIN packets'
             /\ audited'[w].generation # Generation' /\ audited'[w].generation <= Generation'
    <2>1. audited[w] # NotAsked /\ audited'[w] = audited[w] /\ audited[w] \in AuditRecords
        BY <1>6 DEF Typed
    <2>2. audited[w].generation \in Nat /\ audited[w].generation <= Generation
          /\ audited[w].packet \in DOMAIN packets
        BY <2>1 DEF TypeOK, AuditRecords
    <2> QED
        BY <1>1, <2>1, <2>2
<1>7. AuditedIsTrue'
    BY <1>6 DEF AuditedIsTrue
<1> QED
    BY <1>3, <1>4, <1>5, <1>6, <1>7

\* The claims that may be written about do not depend on what is only waiting.
LEMMA EligibleStay ==
    ASSUME UNCHANGED <<status, sound, reports, reviews, claims, brief>>
    PROVE  EligibleClaims' = EligibleClaims
BY DEF EligibleClaims, Eligible, Verified, Current, ReferencesCurrent, EvidenceCurrent,
   ClaimRefCurrent, Active, Superseded, ReviewsRelevant, ReviewsComplete, Keys, SupportState,
   Validated, PassedIn, AcceptedReview, HasSupport, HardReview

\* A step that commits nothing leaves the audits that wait as they are.
LEMMA AuditedStay ==
    ASSUME AuditedIsTrue, UNCHANGED <<status, sound, reports, reviews, claims, packets, brief>>,
           Generation' = Generation,
           \A w \in Writers : audited'[w] = audited[w] \/ audited'[w] = NotAsked
    PROVE  AuditedIsTrue'
<1>1. EligibleClaims' = EligibleClaims
    BY EligibleStay
<1> QED
    BY <1>1 DEF AuditedIsTrue, StillTrue

\* An appended record counts.
LEMMA OneLonger ==
    ASSUME NEW S, NEW s \in Seq(S), NEW e \in S
    PROVE  Len(Append(s, e)) = Len(s) + 1 /\ Len(s) \in Nat
BY Appended

LEMMA LengthsAreNumbers ==
    ASSUME Typed
    PROVE  /\ Len(reports) \in Nat /\ Len(reviews) \in Nat /\ Len(claims) \in Nat
           /\ Len(packets) \in Nat /\ Len(manuscripts) \in Nat /\ changes \in Nat
BY LenProperties DEF Typed

LEMMA ReportStep ==
    ASSUME IInv, NEW S \in SUBSET Subjects, NEW o \in {"passed", "failed", "blocked"},
           Report(S, o), status' \in [Subjects -> {"pending", "accepted", "rejected",
                                    "needs-review", "passed", "failed", "blocked"}],
           \A e \in Evidence : status'[e] = status[e]
    PROVE  IInv'
<1> USE DEF IInv
<1>1. Typed'
    BY ReportTyped
<1>2. StatusHasActiveReview' /\ AcceptedOnReport'
    BY StatusAfterReport
<1>3. /\ Len(reports') = Len(reports) + 1
      /\ DOMAIN reports \subseteq DOMAIN reports'
    BY Appended DEF Report, Typed, ReportRecords
<1>4. Generation' = Generation + 1
    BY <1>3, LengthsAreNumbers DEF Generation, Report
<1>5. /\ AskedNamesClaims' /\ AnsweredIsReassessed' /\ AuditedIsTrue'
      /\ \A k \in Coordinators : asked'[k] # NotAsked => asked'[k].generation <= Generation'
      /\ \A w \in Writers : audited'[w] # NotAsked =>
             audited'[w].packet \in DOMAIN packets' /\ audited'[w].generation <= Generation'
    BY <1>4, AskedAfterCommit DEF Report
<1>6. TypeOK'
    BY <1>3, <1>5 DEF TypeOK, Report
<1> QED
    BY <1>1, <1>2, <1>5, <1>6

LEMMA ReviewStep ==
    ASSUME IInv, NEW S \in SUBSET Subjects, NEW R \in AtMostOne(DOMAIN reports),
           NEW rec \in {"accept", "revise", "reject"}, NEW hard \in BOOLEAN,
           NEW old \in SUBSET DOMAIN reviews, Review(S, R, rec, hard, old)
    PROVE  IInv'
<1> USE DEF IInv
<1> DEFINE n == Len(reviews) + 1
           v == [subjects |-> S, reports |-> R, rec |-> rec, hard |-> hard,
                 supersedes |-> old, binding |-> binding]
<1>1. Typed' /\ v \in ReviewRecords /\ R \subseteq DOMAIN reports
    BY ReviewTyped
<1>2. StatusHasActiveReview' /\ AcceptedOnReport'
    BY StatusAfterReview
<1>3. reviews' = Append(reviews, v)
    BY DEF Review
<1>4. /\ Len(reviews') = n /\ Len(reviews) \in Nat
      /\ DOMAIN reviews = 1..Len(reviews)
      /\ \A i \in DOMAIN reviews' : i \in DOMAIN reviews \/ i = n
      /\ \A i \in DOMAIN reviews : reviews'[i] = reviews[i]
      /\ reviews'[n] = v
    BY <1>1, <1>3, Appended DEF Typed
<1>5. Generation' = Generation + 1
    BY <1>4, LengthsAreNumbers DEF Generation, Review
<1>6. /\ AskedNamesClaims' /\ AnsweredIsReassessed' /\ AuditedIsTrue'
      /\ \A k \in Coordinators : asked'[k] # NotAsked => asked'[k].generation <= Generation'
      /\ \A w \in Writers : audited'[w] # NotAsked =>
             audited'[w].packet \in DOMAIN packets' /\ audited'[w].generation <= Generation'
    BY <1>5, AskedAfterCommit DEF Review
<1>7. status' \in [Subjects -> {"pending", "accepted", "rejected", "needs-review",
                                "passed", "failed", "blocked"}]
    <2>1. Verdict(rec) \in {"accepted", "rejected", "needs-review"}
        BY DEF Verdict
    <2> QED
        BY <2>1 DEF Review, TypeOK
<1>8. \A i \in DOMAIN reviews' : /\ reviews'[i].reports \subseteq DOMAIN reports'
                                 /\ reviews'[i].supersedes \subseteq 1..(i - 1)
    <2> SUFFICES ASSUME NEW i \in DOMAIN reviews'
                 PROVE  /\ reviews'[i].reports \subseteq DOMAIN reports
                        /\ reviews'[i].supersedes \subseteq 1..(i - 1)
        BY DEF Review
    <2>1. CASE i \in DOMAIN reviews
        BY <1>4, <2>1 DEF TypeOK
    <2>2. CASE i = n
        BY <1>1, <1>4, <2>2
    <2> QED
        BY <1>4, <2>1, <2>2
<1>9. TypeOK'
    BY <1>6, <1>7, <1>8 DEF TypeOK, Review
<1> QED
    BY <1>1, <1>2, <1>6, <1>9

\* A claim that names earlier claims is recorded.
LEMMA RecordStep ==
    ASSUME IInv, NEW c \in ClaimRecords, c.proposal.base \subseteq DOMAIN claims, Record(c),
           asked' \in [Coordinators -> {NotAsked} \cup AskedRecords],
           \A k \in Coordinators : asked'[k] = asked[k] \/ asked'[k] = NotAsked
    PROVE  IInv'
<1> USE DEF IInv
<1> DEFINE n == Len(claims) + 1
<1>1. Typed'
    BY RecordTyped
<1>2. claims' = Append(claims, c)
    BY DEF Record
<1>3. /\ Len(claims') = n /\ Len(claims) \in Nat
      /\ DOMAIN claims = 1..Len(claims) /\ DOMAIN claims \subseteq DOMAIN claims'
      /\ \A i \in DOMAIN claims' : i \in DOMAIN claims \/ i = n
      /\ \A i \in DOMAIN claims : claims'[i] = claims[i]
      /\ claims'[n] = c
    BY <1>2, Appended DEF Typed
<1>4. Generation' = Generation + 1
    BY <1>3, LengthsAreNumbers DEF Generation, Record
<1>5. /\ AskedNamesClaims' /\ AnsweredIsReassessed' /\ AuditedIsTrue'
      /\ \A k \in Coordinators : asked'[k] # NotAsked => asked'[k].generation <= Generation'
      /\ \A w \in Writers : audited'[w] # NotAsked =>
             audited'[w].packet \in DOMAIN packets' /\ audited'[w].generation <= Generation'
    BY <1>3, <1>4, AskedAfterCommit DEF Record
<1>6. StatusHasActiveReview' /\ AcceptedOnReport'
    BY StatusUnchanged DEF Record
<1>7. \A i \in DOMAIN claims' : claims'[i].proposal.base \subseteq 1..(i - 1)
    <2> SUFFICES ASSUME NEW i \in DOMAIN claims'
                 PROVE  claims'[i].proposal.base \subseteq 1..(i - 1)
        OBVIOUS
    <2>1. CASE i \in DOMAIN claims
        BY <1>3, <2>1 DEF TypeOK
    <2>2. CASE i = n
        BY <1>3, <2>2
    <2> QED
        BY <1>3, <2>1, <2>2
<1>8. TypeOK'
    BY <1>3, <1>5, <1>7 DEF TypeOK, Record
<1> QED
    BY <1>1, <1>5, <1>6, <1>8

\* What a coordinator waits for changes nothing but that.
LEMMA WaitStep ==
    ASSUME IInv, NEW k \in Coordinators, NEW v \in {NotAsked} \cup AskedRecords, Wait(k, v),
           v # NotAsked => /\ v.generation <= Generation
                           /\ v.claim.proposal.base \subseteq DOMAIN claims
                           /\ v.answered => Reassessed(v.claim)
    PROVE  IInv'
<1> USE DEF IInv
<1>1. Typed'
    BY WaitTyped
<1>2. StatusHasActiveReview' /\ AcceptedOnReport'
    BY StatusUnchanged DEF Wait
<1>3. \A j \in Coordinators : asked'[j] = IF j = k THEN v ELSE asked[j]
    BY DEF Wait, Typed
<1>4. Generation' = Generation /\ claims' = claims /\ AuditedIsTrue'
    <2>1. Generation' = Generation
        BY DEF Wait, Generation
    <2> QED
        BY <2>1, AuditedStay DEF Wait
<1>5. AskedNamesClaims'
    BY <1>3, <1>4 DEF AskedNamesClaims
<1>6. TypeOK'
    BY <1>3, <1>4 DEF TypeOK, Wait
<1>7. AnsweredIsReassessed'
    <2> SUFFICES ASSUME NEW j \in Coordinators, asked'[j] # NotAsked, asked'[j].answered,
                        asked'[j].generation = Generation'
                 PROVE  Reassessed(asked[j].claim)'
        BY DEF AnsweredIsReassessed
    <2>1. asked'[j] \in AskedRecords
        BY <1>1 DEF Typed
    <2>2. asked'[j].claim \in ClaimRecords
        BY <2>1 DEF AskedRecords
    <2>3. PICK c \in ClaimRecords : c = asked'[j].claim
        BY <2>2
    <2>4. c.proposal.base \subseteq DOMAIN claims
        BY <1>4, <1>5, <2>3 DEF AskedNamesClaims
    <2>5. Reassessed(c)
        <3>1. CASE j = k
            BY <1>3, <2>3, <3>1
        <3>2. CASE j # k
            BY <1>3, <1>4, <2>3, <3>2 DEF AnsweredIsReassessed
        <3> QED
            BY <3>1, <3>2
    <2>6. Reassessed(c)'
        BY <2>4, <2>5, EligibilityStays DEF Wait
    <2> QED
        BY <2>3, <2>6 DEF Reassessed
<1> QED
    BY <1>1, <1>2, <1>4, <1>5, <1>6, <1>7

LEMMA PacketStep ==
    ASSUME IInv, NEW k \in Coordinators, BuildPacket(k)
    PROVE  IInv'
<1> USE DEF IInv
<1>1. Typed'
    BY PacketTyped
<1>2. StatusHasActiveReview' /\ AcceptedOnReport'
    BY StatusUnchanged DEF BuildPacket
<1>3. /\ packets' = Append(packets, Packet) /\ Packet \in PacketRecords
      /\ Len(packets') = Len(packets) + 1
      /\ DOMAIN packets \subseteq DOMAIN packets'
      /\ \A i \in DOMAIN packets' : packets'[i] = Packet \/ i \in DOMAIN packets
      /\ \A i \in DOMAIN packets : packets'[i] = packets[i]
    BY Appended, Numbers DEF BuildPacket, Typed
<1>4. Generation' = Generation + 1
    BY <1>3, LengthsAreNumbers DEF Generation, BuildPacket
<1>5. /\ AskedNamesClaims' /\ AnsweredIsReassessed' /\ AuditedIsTrue'
      /\ \A k1 \in Coordinators : asked'[k1] # NotAsked => asked'[k1].generation <= Generation'
      /\ \A w \in Writers : audited'[w] # NotAsked =>
             audited'[w].packet \in DOMAIN packets' /\ audited'[w].generation <= Generation'
    BY <1>4, AskedAfterCommit DEF BuildPacket
<1>6. Packet.claims \cup Packet.forbidden \subseteq DOMAIN claims
    BY Numbers DEF Packet
<1>7. \A i \in DOMAIN packets' : packets'[i].claims \cup packets'[i].forbidden \subseteq DOMAIN claims
    BY <1>3, <1>6 DEF TypeOK
<1>8. TypeOK'
    BY <1>3, <1>5, <1>7 DEF TypeOK, BuildPacket
<1> QED
    BY <1>1, <1>2, <1>5, <1>8

\* What waits for the user is not touched by what waits for the writers.
LEMMA AskedStay ==
    ASSUME IInv, UNCHANGED <<status, sound, reports, reviews, claims, brief, asked>>,
           Generation' = Generation
    PROVE  AskedNamesClaims' /\ AnsweredIsReassessed'
<1>1. AskedNamesClaims'
    BY DEF IInv, AskedNamesClaims
<1>2. AnsweredIsReassessed'
    <2> SUFFICES ASSUME NEW k \in Coordinators, asked[k] # NotAsked, asked[k].answered,
                        asked[k].generation = Generation
                 PROVE  Reassessed(asked[k].claim)'
        BY DEF AnsweredIsReassessed
    <2>1. asked[k].claim \in ClaimRecords
        BY DEF IInv, Typed, AskedRecords
    <2>2. PICK c \in ClaimRecords : c = asked[k].claim
        BY <2>1
    <2>3. Reassessed(c) /\ c.proposal.base \subseteq DOMAIN claims
        BY <2>2 DEF IInv, AnsweredIsReassessed, AskedNamesClaims
    <2>4. Reassessed(c)'
        BY <2>3, EligibilityStays DEF IInv
    <2> QED
        BY <2>2, <2>4 DEF Reassessed
<1> QED
    BY <1>1, <1>2

\* An audit that passes found what is so at the generation it notes.
LEMMA AuditStep ==
    ASSUME IInv, NEW w \in Writers, NEW p \in DOMAIN packets, NEW traced \in BOOLEAN,
           NEW used \in SUBSET DOMAIN claims, Audit(w, p, used, traced)
    PROVE  IInv'
<1> USE DEF IInv
<1> DEFINE a == [packet |-> p, claims |-> used, validated |-> Passes(p, used, traced),
                 generation |-> Generation]
<1>1. Typed' /\ a \in AuditRecords
    BY AuditTyped
<1>2. StatusHasActiveReview' /\ AcceptedOnReport'
    BY StatusUnchanged DEF Audit
<1>3. Generation' = Generation /\ Generation \in Nat
    BY Numbers DEF Generation, Audit
<1>4. AskedNamesClaims' /\ AnsweredIsReassessed'
    BY <1>3, AskedStay DEF Audit
<1>5. \A v \in Writers : audited'[v] = IF v = w THEN a ELSE audited[v]
    BY DEF Audit, Typed
<1>6. a.validated => StillTrue(a)
    BY DEF Passes, PacketCurrent, Packet, StillTrue
<1>7. a.packet = p /\ a.generation = Generation
    OBVIOUS
<1> HIDE DEF a
<1>8. EligibleClaims' = EligibleClaims
    BY EligibleStay DEF Audit
<1>9. AuditedIsTrue'
    BY <1>3, <1>5, <1>6, <1>8 DEF AuditedIsTrue, StillTrue, Audit
<1>10. TypeOK'
    BY <1>3, <1>5, <1>7 DEF TypeOK, Audit
<1> QED
    BY <1>1, <1>2, <1>4, <1>9, <1>10

LEMMA ManuscriptStep ==
    ASSUME IInv, NEW w \in Writers, CommitManuscript(w)
    PROVE  IInv'
<1> USE DEF IInv
<1>1. Typed' /\ Manuscript(w) \in ManuscriptRecords /\ audited[w] # NotAsked
    BY ManuscriptTyped DEF CommitManuscript
<1>2. StatusHasActiveReview' /\ AcceptedOnReport'
    BY StatusUnchanged DEF CommitManuscript
<1>3. \A v \in Writers : audited'[v] = audited[v] \/ audited'[v] = NotAsked
    BY DEF CommitManuscript, Typed
<1>4. CASE GenerationMatches(audited[w])
    <2>1. /\ Len(manuscripts') = Len(manuscripts) + 1
          /\ \A i \in DOMAIN manuscripts' :
                 manuscripts'[i] = Manuscript(w) \/ i \in DOMAIN manuscripts
          /\ \A i \in DOMAIN manuscripts : manuscripts'[i] = manuscripts[i]
        <3>1. manuscripts \in Seq(ManuscriptRecords)
            BY DEF Typed
        <3>2. manuscripts' = Append(manuscripts, Manuscript(w))
            BY <1>4 DEF CommitManuscript
        <3>3. PICK m \in ManuscriptRecords : m = Manuscript(w)
            BY <1>1
        <3> QED
            BY <3>1, <3>2, <3>3, Appended
    <2>2. Generation' = Generation + 1
        <3>1. UNCHANGED <<reports, reviews, claims, packets, changes>>
            BY DEF CommitManuscript
        <3>2. Len(manuscripts') = Len(manuscripts) + 1
            BY <2>1
        <3> QED
            BY <3>1, <3>2, LengthsAreNumbers DEF Generation
    <2>3. /\ AskedNamesClaims' /\ AnsweredIsReassessed' /\ AuditedIsTrue'
          /\ \A k \in Coordinators : asked'[k] # NotAsked => asked'[k].generation <= Generation'
          /\ \A v \in Writers : audited'[v] # NotAsked =>
                 audited'[v].packet \in DOMAIN packets' /\ audited'[v].generation <= Generation'
        BY <1>3, <2>2, AskedAfterCommit DEF CommitManuscript
    <2>4. \A i \in DOMAIN manuscripts' : manuscripts'[i].packet \in DOMAIN packets
        BY <1>1, <2>1 DEF TypeOK, Manuscript
    <2>5. TypeOK'
        BY <2>3, <2>4 DEF TypeOK, CommitManuscript
    <2> QED
        BY <1>1, <1>2, <2>3, <2>5
<1>5. CASE ~GenerationMatches(audited[w])
    <2>1. Generation' = Generation
        BY <1>5 DEF Generation, CommitManuscript
    <2>2. AskedNamesClaims' /\ AnsweredIsReassessed'
        BY <2>1, AskedStay DEF CommitManuscript
    <2>3. AuditedIsTrue'
        BY <1>3, <2>1, AuditedStay DEF CommitManuscript
    <2>4. TypeOK'
        BY <1>3, <1>5, <2>1 DEF TypeOK, CommitManuscript
    <2> QED
        BY <1>1, <1>2, <2>2, <2>3, <2>4
<1> QED
    BY <1>4, <1>5

LEMMA ChangeStep ==
    ASSUME IInv, (\E s \in Subjects : Drift(s)) \/ ReviseBrief \/ Rebind
    PROVE  IInv'
<1> USE DEF IInv
<1>1. Typed'
    BY ChangeTyped
<1>2. UNCHANGED <<status, reports, reviews, claims, packets, manuscripts, asked, audited>>
      /\ changes' = changes + 1
      /\ sound' \in [Subjects -> BOOLEAN]
    BY DEF Drift, ReviseBrief, Rebind, Change, TypeOK
<1>3. StatusHasActiveReview' /\ AcceptedOnReport'
    BY <1>2, StatusUnchanged
<1>4. Generation' = Generation + 1
    BY <1>2, LengthsAreNumbers DEF Generation
<1>5. /\ AskedNamesClaims' /\ AnsweredIsReassessed' /\ AuditedIsTrue'
      /\ \A k \in Coordinators : asked'[k] # NotAsked => asked'[k].generation <= Generation'
      /\ \A w \in Writers : audited'[w] # NotAsked =>
             audited'[w].packet \in DOMAIN packets' /\ audited'[w].generation <= Generation'
    BY <1>2, <1>4, AskedAfterCommit
<1>6. TypeOK'
    BY <1>2, <1>5 DEF TypeOK
<1> QED
    BY <1>1, <1>3, <1>5, <1>6

LEMMA ValidateCitationStep ==
    ASSUME IInv, NEW S \in SUBSET Evidence, ValidateCitation(S)
    PROVE  IInv'
<1>1. CitationOverall(S) \in {"passed", "failed", "blocked"}
    BY DEF CitationOverall
<1>2. S \in SUBSET Subjects
    BY DEF Subjects
<1> QED
    BY <1>1, <1>2, ReportStep DEF ValidateCitation, IInv, TypeOK

LEMMA ValidateExperimentStep ==
    ASSUME IInv, NEW S \in SUBSET Results, ValidateExperiment(S)
    PROVE  IInv'
<1>1. ExperimentOverall(S) \in {"passed", "failed", "blocked"}
    BY DEF ExperimentOverall
<1>2. S \in SUBSET Subjects
    BY DEF Subjects
<1>3. status' = [s \in Subjects |-> IF s \in S THEN ExperimentOverall(S) ELSE status[s]]
    BY DEF ValidateExperiment
<1>4. \A e \in Evidence : status'[e] = status[e]
    BY <1>3, AuthorityAssumption DEF Subjects
<1>5. status' \in [Subjects -> {"pending", "accepted", "rejected", "needs-review",
                                "passed", "failed", "blocked"}]
    BY <1>1, <1>3 DEF IInv, TypeOK
<1> QED
    BY <1>1, <1>2, <1>4, <1>5, ReportStep DEF ValidateExperiment

LEMMA AskStep ==
    ASSUME IInv, NEW k \in Coordinators, NEW p \in Proposals, Ask(k, p)
    PROVE  IInv'
<1> DEFINE v == [claim |-> Claim(p, "approved"), generation |-> Generation, answered |-> FALSE]
<1>1. v \in AskedRecords /\ p.base \subseteq DOMAIN claims
    BY AskTyped, ProposalType DEF IInv
<1>2. v.claim.proposal = p /\ v.generation = Generation /\ ~v.answered
    BY DEF Claim
<1>3. Generation \in Nat
    BY Numbers DEF IInv
<1>4. Wait(k, v)
    BY DEF Ask
<1> HIDE DEF v
<1>5. v.generation <= Generation
    BY <1>2, <1>3
<1> QED
    BY <1>1, <1>2, <1>4, <1>5, WaitStep

LEMMA CommitClaimStep ==
    ASSUME IInv, NEW k \in Coordinators, NEW a \in {"pending", "rejected"}, CommitClaim(k, a)
    PROVE  IInv'
<1>1. Claim(Speculation, a) \in ClaimRecords
    BY CommitClaimTyped DEF IInv
<1>2. Claim(Speculation, a).proposal.base \subseteq DOMAIN claims
    BY DEF Claim, Speculation
<1> QED
    BY <1>1, <1>2, RecordStep DEF CommitClaim, IInv, Typed

LEMMA AnswerStep ==
    ASSUME IInv, NEW k \in Coordinators, NEW a \in {"approved", "rejected", "pending"},
           Answer(k, a)
    PROVE  IInv'
<1> DEFINE v == [asked[k] EXCEPT !.claim = Answered(k, a), !.answered = TRUE]
<1>1. asked[k] # NotAsked /\ Typed
    BY DEF Answer, IInv
<1>2. /\ asked[k] \in AskedRecords /\ v \in AskedRecords
      /\ Answered(k, a).proposal = asked[k].claim.proposal
    BY <1>1, AnsweredType
<1>3. v.claim = Answered(k, a) /\ v.generation = asked[k].generation
    BY <1>2 DEF AskedRecords
<1>4. CASE Reassessed(Answered(k, a))
    <2>1. Wait(k, v)
        BY <1>4 DEF Answer
    <2>2. v.generation <= Generation /\ v.claim.proposal.base \subseteq DOMAIN claims
        BY <1>1, <1>2, <1>3 DEF IInv, TypeOK, AskedNamesClaims
    <2>3. Reassessed(v.claim)
        BY <1>3, <1>4
    <2> HIDE DEF v
    <2> QED
        BY <1>2, <2>1, <2>2, <2>3, WaitStep
<1>5. CASE ~Reassessed(Answered(k, a))
    BY <1>5, WaitStep DEF Answer
<1> QED
    BY <1>4, <1>5

LEMMA CommitStep ==
    ASSUME IInv, NEW k \in Coordinators, Commit(k)
    PROVE  IInv'
<1>1. /\ asked[k].claim \in ClaimRecords
      /\ asked[k].claim.proposal.base \subseteq DOMAIN claims
    BY CommitTyped DEF IInv, AskedNamesClaims, Commit
<1>2. CASE GenerationMatches(asked[k])
    BY <1>1, <1>2, RecordStep DEF Commit, IInv, Typed
<1>3. CASE ~GenerationMatches(asked[k])
    BY <1>3, WaitStep DEF Commit
<1> QED
    BY <1>2, <1>3

LEMMA InitHolds == Init => IInv
<1> SUFFICES ASSUME Init PROVE IInv
    OBVIOUS
<1>1. Generation = 0
    BY DEF Init, Generation
<1>2. Typed
    BY DEF Init, Typed
<1>3. TypeOK
    BY <1>1 DEF Init, TypeOK
<1>4. AcceptedOnReport /\ AskedNamesClaims /\ AnsweredIsReassessed /\ AuditedIsTrue
    BY DEF Init, AcceptedOnReport, AskedNamesClaims, AnsweredIsReassessed, AuditedIsTrue
<1>5. StatusHasActiveReview
    BY DEF Init, StatusHasActiveReview, Subjects
<1> QED
    BY <1>2, <1>3, <1>4, <1>5 DEF IInv

LEMMA StutterStep ==
    ASSUME IInv, UNCHANGED vars PROVE IInv'
<1> USE DEF IInv, vars
<1>1. StatusHasActiveReview' /\ AcceptedOnReport'
    BY StatusUnchanged
<1>2. Typed'
    BY DEF Typed
<1>3. Generation' = Generation
    BY DEF Generation
<1>4. TypeOK'
    BY <1>3 DEF TypeOK
<1>5. /\ AskedNamesClaims' /\ AnsweredIsReassessed' /\ AuditedIsTrue'
    BY <1>3, AskedStay, AuditedStay
<1> QED
    BY <1>1, <1>2, <1>4, <1>5

LEMMA StepHolds == IInv /\ [Next]_vars => IInv'
<1> SUFFICES ASSUME IInv, [Next]_vars PROVE IInv'
    OBVIOUS
<1>1. ASSUME NEW S \in SUBSET Evidence \ {{}}, ValidateCitation(S) PROVE IInv'
    BY <1>1, ValidateCitationStep
<1>2. ASSUME NEW S \in SUBSET Results \ {{}}, ValidateExperiment(S) PROVE IInv'
    BY <1>2, ValidateExperimentStep
<1>3. ASSUME NEW S \in SUBSET Subjects \ {{}}, NEW R \in AtMostOne(DOMAIN reports),
             NEW rec \in {"accept", "revise", "reject"}, NEW hard \in BOOLEAN,
             NEW old \in SUBSET DOMAIN reviews, Review(S, R, rec, hard, old)
      PROVE  IInv'
    BY <1>3, ReviewStep
<1>4. ASSUME NEW k \in Coordinators, NEW p \in Proposals, Ask(k, p) PROVE IInv'
    BY <1>4, AskStep
<1>5. ASSUME NEW k \in Coordinators, NEW a \in {"pending", "rejected"}, CommitClaim(k, a)
      PROVE  IInv'
    BY <1>5, CommitClaimStep
<1>6. ASSUME NEW k \in Coordinators, NEW a \in {"approved", "rejected", "pending"}, Answer(k, a)
      PROVE  IInv'
    BY <1>6, AnswerStep
<1>7. ASSUME NEW k \in Coordinators, Commit(k) PROVE IInv'
    BY <1>7, CommitStep
<1>8. ASSUME NEW k \in Coordinators, BuildPacket(k) PROVE IInv'
    BY <1>8, PacketStep
<1>9. ASSUME NEW w \in Writers PROVE /\ CommitManuscript(w) => IInv'
                                     /\ \A p \in DOMAIN packets, used \in SUBSET DOMAIN claims,
                                           traced \in BOOLEAN : Audit(w, p, used, traced) => IInv'
    BY <1>9, AuditStep, ManuscriptStep
<1>10. CASE (\E s \in Subjects : Drift(s)) \/ ReviseBrief \/ Rebind
    BY <1>10, ChangeStep
<1>11. CASE UNCHANGED vars
    BY <1>11, StutterStep
<1> QED
    BY <1>1, <1>2, <1>3, <1>4, <1>5, <1>6, <1>7, <1>8, <1>9, <1>10, <1>11 DEF Next

-----------------------------------------------------------------------------
(* The theorems *)

\* The inductive invariant of the chain holds in every reachable state: records are
\* what they were appended as, and what waits for the user is still true at its generation.
THEOREM Invariance == Spec => []IInv
BY InitHolds, StepHolds, PTL DEF Spec

\* Every record names records that exist.
THEOREM TypeCorrect == Spec => []TypeOK
<1>1. IInv => TypeOK
    BY DEF IInv
<1> QED
    BY <1>1, Invariance, PTL

\* The review status of an evidence is what an active review says of it, and an
\* acceptance rests on a passed report (assertReviewRecordAuthority with the reducer).
THEOREM StatusReviewed == Spec => []StatusHasActiveReview
<1>1. IInv => StatusHasActiveReview
    BY DEF IInv
<1> QED
    BY <1>1, Invariance, PTL

\* An active review that objects to anything an eligible claim rests on is named by the
\* claim, and a claim that names an objection is not eligible.
LEMMA Uncontested == IInv => EligibleClaimsAreUncontested
<1> SUFFICES ASSUME IInv, NEW c \in EligibleClaims
             PROVE  LET p == claims[c].proposal IN
                    /\ \A r \in Active : reviews[r].subjects \cap Keys(p) # {} => ~HardReview(r)
                    /\ claims[c].support = "independently-checked" =>
                           \A s \in Keys(p) : \E r \in Active :
                               reviews[r].rec = "accept" /\ s \in PassedIn(reviews[r].reports)
    BY DEF EligibleClaimsAreUncontested
<1> DEFINE p == claims[c].proposal
<1>1. Eligible(claims[c]) /\ c \in DOMAIN claims
    BY DEF EligibleClaims
<1>2. Verified(p) /\ SupportState(p) = claims[c].support /\ \A r \in p.reviews : ~HardReview(r)
    BY <1>1 DEF Eligible
<1>3. p.reviews \subseteq Active /\ ReviewsComplete(p)
    BY <1>2 DEF Verified, Current
<1>4. \A r \in Active : reviews[r].subjects \cap Keys(p) # {} => ~HardReview(r)
    BY <1>2, <1>3 DEF ReviewsComplete
<1>5. ASSUME claims[c].support = "independently-checked", NEW s \in Keys(p)
      PROVE  \E r \in Active : reviews[r].rec = "accept" /\ s \in PassedIn(reviews[r].reports)
    <2>1. AcceptedReview(p)
        BY <1>2, <1>5 DEF SupportState
    <2>2. PICK r \in p.reviews : s \in reviews[r].subjects /\ reviews[r].rec = "accept"
        BY <1>5, <2>1 DEF AcceptedReview
    <2>3. r \in Active /\ r \in DOMAIN reviews
        BY <1>3, <2>2 DEF Active
    <2> QED
        BY <2>2, <2>3 DEF IInv, AcceptedOnReport
<1> QED
    BY <1>4, <1>5

\* What may be written about is contested by nobody, and what counts as independently
\* checked is accepted on passed reports (assessClaimSupport, claimEligibleForWriting).
THEOREM EligibleUncontested == Spec => []EligibleClaimsAreUncontested
BY Uncontested, Invariance, PTL

\* The claim that is recorded was reassessed on the state it is recorded on.
LEMMA ApprovedStep ==
    ASSUME IInv, [Next]_vars,
           NEW c \in DOMAIN claims' \ DOMAIN claims, claims'[c].approval = "approved"
    PROVE  c \in EligibleClaims'
<1>1. claims' # claims
    OBVIOUS
<1>2. CASE \E k \in Coordinators : Commit(k)
    <2>1. PICK k \in Coordinators : Commit(k)
        BY <1>2
    <2>2. GenerationMatches(asked[k])
        BY <1>1, <2>1 DEF Commit, Wait
    <2>3. Record(asked[k].claim) /\ asked[k] # NotAsked /\ asked[k].answered
        BY <2>1, <2>2 DEF Commit
    <2>4. /\ asked[k].claim \in ClaimRecords
          /\ asked[k].claim.proposal.base \subseteq DOMAIN claims
        BY <2>1, CommitTyped DEF IInv, AskedNamesClaims, Commit
    <2>5. Reassessed(asked[k].claim)
        BY <2>2, <2>3 DEF IInv, AnsweredIsReassessed, GenerationMatches
    <2>6. PICK d \in ClaimRecords : d = asked[k].claim
        BY <2>4
    <2>7. /\ DOMAIN claims' = DOMAIN claims \cup {Len(claims) + 1}
          /\ claims'[Len(claims) + 1] = d
          /\ \A i \in DOMAIN claims : claims'[i] = claims[i]
        BY <2>3, <2>6, Appended DEF Record, IInv, Typed
    <2>8. claims'[c] = d
        BY <2>7
    <2>9. Eligible(d)
        BY <2>5, <2>6, <2>8 DEF Reassessed
    <2>10. Eligible(d)'
        BY <2>3, <2>4, <2>6, <2>7, <2>9, EligibilityStays DEF Record, IInv
    <2> QED
        BY <2>8, <2>10 DEF EligibleClaims, Eligible
<1>3. CASE \E k \in Coordinators, a \in {"pending", "rejected"} : CommitClaim(k, a)
    <2>1. PICK k \in Coordinators, a \in {"pending", "rejected"} : CommitClaim(k, a)
        BY <1>3
    <2>2. Claim(Speculation, a) \in ClaimRecords /\ Record(Claim(Speculation, a))
        BY <2>1, CommitClaimTyped DEF IInv, CommitClaim
    <2>3. claims'[c] = Claim(Speculation, a)
        BY <2>2, Appended DEF Record, IInv, Typed
    <2> QED
        BY <2>3 DEF Claim
<1>4. CASE ~(\E k \in Coordinators : Commit(k))
           /\ ~(\E k \in Coordinators, a \in {"pending", "rejected"} : CommitClaim(k, a))
    BY <1>1, <1>4 DEF Next, vars, ValidateCitation, ValidateExperiment, Report, Review, Ask,
                      Answer, Wait, BuildPacket, Audit, CommitManuscript, Drift, ReviseBrief, Rebind
<1> QED
    BY <1>2, <1>3, <1>4

\* A claim is recorded as approved only where it may be written about, whatever happened
\* while its user was asked (commitClaim over the store's compare-and-swap).
THEOREM ApprovedEligible == Spec => ApprovedClaimsAreEligible
<1>1. IInv /\ [Next]_vars =>
          [\A c \in DOMAIN claims' \ DOMAIN claims :
              claims'[c].approval = "approved" => c \in EligibleClaims']_vars
    BY ApprovedStep
<1> QED
    BY <1>1, Invariance, PTL DEF Spec, ApprovedClaimsAreEligible

\* The manuscript that is recorded was audited on the state it is recorded on.
LEMMA ValidatedStep ==
    ASSUME IInv, [Next]_vars,
           NEW m \in DOMAIN manuscripts' \ DOMAIN manuscripts, manuscripts'[m].validated
    PROVE  /\ manuscripts'[m].claims \subseteq EligibleClaims
           /\ packets[manuscripts'[m].packet].claims = EligibleClaims
<1>1. manuscripts' # manuscripts
    OBVIOUS
<1>2. CASE \E w \in Writers : CommitManuscript(w)
    <2>1. PICK w \in Writers : CommitManuscript(w)
        BY <1>2
    <2>2. audited[w] # NotAsked /\ audited[w].generation = Generation
          /\ manuscripts' = Append(manuscripts, Manuscript(w))
        BY <1>1, <2>1 DEF CommitManuscript, GenerationMatches
    <2>3. manuscripts'[m] = Manuscript(w)
        BY <2>1, <2>2, ManuscriptTyped, Appended DEF IInv, Typed
    <2>4. audited[w].validated
        BY <2>3 DEF Manuscript
    <2>5. StillTrue(audited[w])
        BY <2>2, <2>4 DEF IInv, AuditedIsTrue
    <2> QED
        BY <2>3, <2>5 DEF StillTrue, Manuscript
<1>3. CASE ~\E w \in Writers : CommitManuscript(w)
    BY <1>1, <1>3 DEF Next, vars, ValidateCitation, ValidateExperiment, Report, Review, Ask,
                      CommitClaim, Commit, Record, Answer, Wait, BuildPacket, Audit, Drift,
                      ReviseBrief, Rebind
<1> QED
    BY <1>2, <1>3

\* A manuscript is recorded as validated only where its packet says what may be written
\* about, whatever was committed while it was audited (manuscript_validate and
\* commitManuscript over the store's compare-and-swap).
THEOREM ValidatedCurrent == Spec => ValidatedManuscriptsAreCurrent
<1>1. IInv /\ [Next]_vars =>
          [\A m \in DOMAIN manuscripts' \ DOMAIN manuscripts :
              manuscripts'[m].validated =>
                  /\ manuscripts'[m].claims \subseteq EligibleClaims
                  /\ packets[manuscripts'[m].packet].claims = EligibleClaims]_vars
    BY ValidatedStep
<1> QED
    BY <1>1, Invariance, PTL DEF Spec, ValidatedManuscriptsAreCurrent
=============================================================================
