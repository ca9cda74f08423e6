----------------------------- MODULE Authority -----------------------------
(***************************************************************************)
(* The scientific authority chain of one Project: the Host validates       *)
(* evidence and results, reviewers record reviews over the reports, the    *)
(* coordinator commits claims that cite both, and builds the packets from  *)
(* which manuscripts are written and audited. Records are never changed;   *)
(* the status of an evidence or a result follows the last review or        *)
(* report, and everything else is computed again from the current state.   *)
(*                                                                         *)
(* Every call loads the Project at a generation and commits at that        *)
(* generation. The store's compare-and-swap (CommitsExtendValidatedState   *)
(* of ProjectStore) makes a commit that succeeds one step with its load.   *)
(* Only where a property is about what happens between the two they are    *)
(* separate actions: a claim waits for its user, and a manuscript for the  *)
(* commit of its audit.                                                    *)
(***************************************************************************)
EXTENDS Naturals, FiniteSets, Sequences

CONSTANTS
    Evidence, Results,      \* registered EvidenceRecords and ResultRecords
    Contradicting,          \* evidence whose relation is contradicts
    ClaimTypes,             \* the claim types in use
    Coordinators, Writers,  \* sessions that commit claims, and manuscripts
    NotAsked,               \* no claim waits for its user, no audit for its commit
    MaxReports, MaxReviews, MaxClaims, MaxPackets, MaxManuscripts,  \* bounds
    MaxChanges,             \* bound: changes from outside the chain
    MaxCommits              \* bound: commits in all

AllClaimTypes == {"literature-fact", "experimental-observation", "derived-calculation",
                  "scientific-inference", "hypothesis", "speculation"}

ASSUME AuthorityAssumption ==
    /\ Evidence \cap Results = {} /\ Contradicting \subseteq Evidence
    /\ ClaimTypes \subseteq AllClaimTypes
    /\ {MaxReports, MaxReviews, MaxClaims, MaxPackets, MaxManuscripts, MaxChanges,
        MaxCommits} \subseteq Nat

Subjects == Evidence \cup Results

(* Bound: a review or a claim names at most one report. *)
AtMostOne(S) == {{}} \cup {{i} : i \in S}

VARIABLES
    status,         \* reviewStatus of evidence, validationStatus of results
    sound,          \* the Artifact of an evidence, the lineage of a result
    reports, reviews, claims, packets, manuscripts,
    brief, binding, \* versions of the ResearchBrief and of the Workspace binding
    changes,        \* commits from outside the chain
    asked,          \* per coordinator: the claim that waits for the user
    audited         \* per writer: the manuscript whose audit is to be committed

vars == <<status, sound, reports, reviews, claims, packets, manuscripts,
          brief, binding, changes, asked, audited>>

Init ==
    /\ status = [s \in Subjects |-> "pending"]
    /\ sound \in {v \in [Subjects -> BOOLEAN] : \A e \in Evidence : v[e]}
    /\ reports = <<>> /\ reviews = <<>> /\ claims = <<>>
    /\ packets = <<>> /\ manuscripts = <<>>
    /\ brief = 1 /\ binding = 1 /\ changes = 0
    /\ asked = [k \in Coordinators |-> NotAsked] /\ audited = [w \in Writers |-> NotAsked]

(* Every commit adds one. *)
Generation == Len(reports) + Len(reviews) + Len(claims) + Len(packets)
              + Len(manuscripts) + changes

Room(records, max) == Len(records) < max /\ Generation < MaxCommits

-----------------------------------------------------------------------------
(* Validation                                                               *)

(* validateCitation: rejected evidence fails, evidence to be revised blocks,
   pending evidence passes. *)
CitationOverall(S) ==
    IF \E e \in S : status[e] = "rejected" THEN "failed"
    ELSE IF \E e \in S : status[e] = "needs-review" THEN "blocked"
    ELSE IF \E e \in S : ~sound[e] THEN "failed" ELSE "passed"

ExperimentOverall(S) == IF \A r \in S : sound[r] THEN "passed" ELSE "failed"

Report(S, overall) ==
    /\ Room(reports, MaxReports)
    /\ reports' = Append(reports, [subjects |-> S, overall |-> overall, binding |-> binding])
    /\ UNCHANGED <<sound, reviews, claims, packets, manuscripts, brief, binding, changes, asked, audited>>

ValidateCitation(S) == Report(S, CitationOverall(S)) /\ UNCHANGED status

ValidateExperiment(S) ==
    LET overall == ExperimentOverall(S) IN
    /\ Report(S, overall)
    /\ status' = [s \in Subjects |-> IF s \in S THEN overall ELSE status[s]]

-----------------------------------------------------------------------------
(* Reviews                                                                  *)

Superseded(r) == \E later \in DOMAIN reviews : r \in reviews[later].supersedes
Active == {r \in DOMAIN reviews : ~Superseded(r)}

PassedIn(R) == UNION {reports[i].subjects : i \in {j \in R : reports[j].overall = "passed"}}

(* assertReviewRecordAuthority *)
ReportsCover(S, R) ==
    \A i \in R : reports[i].binding = binding /\ reports[i].subjects \cap S # {}
AcceptIsValidated(S, R, rec) == rec = "accept" => S \subseteq PassedIn(R)
(* Mutant: a review supersedes any other. *)
SupersedesAny(S, old) == \A r \in old : reviews[r].binding = binding
SupersedesSameSubjects(S, old) ==
    \A r \in old : reviews[r].binding = binding /\ reviews[r].subjects = S

(* Mutant: the status is the recommendation itself. *)
VerdictUnmapped(rec) == rec

Verdict(rec) == CASE rec = "accept" -> "accepted" [] rec = "reject" -> "rejected"
                  [] rec = "revise" -> "needs-review"

(* The reports and a hard finding tell something only in a review that accepts. *)
Review(S, R, rec, hard, old) ==
    /\ Room(reviews, MaxReviews)
    /\ ReportsCover(S, R) /\ AcceptIsValidated(S, R, rec) /\ SupersedesSameSubjects(S, old)
    /\ reviews' = Append(reviews, [subjects |-> S, reports |-> R, rec |-> rec, hard |-> hard,
                                   supersedes |-> old, binding |-> binding])
    /\ status' = [s \in Subjects |-> IF s \in S \cap Evidence THEN Verdict(rec) ELSE status[s]]
    /\ UNCHANGED <<sound, reports, claims, packets, manuscripts, brief, binding, changes, asked, audited>>

-----------------------------------------------------------------------------
(* Claims                                                                   *)

(* What a proposal names: evidence and results, other claims, the brief for a
   hypothesis, the operands of a calculation, reports and reviews. Limitations
   and sections are those its type asks for. *)
Proposals ==
    UNION {[type : {t}, support : SUBSET Subjects, base : SUBSET (DOMAIN claims),
            brief : IF t = "hypothesis" THEN {brief} ELSE {0},
            operands : IF t = "derived-calculation" THEN SUBSET Results ELSE {{}},
            reports : AtMostOne(DOMAIN reports), reviews : SUBSET (DOMAIN reviews)]
           : t \in ClaimTypes}

Keys(p) == p.support \cup p.operands

EvidenceCurrent(e) == status[e] = "accepted" /\ sound[e]

(* A cited claim is judged by what is stored in it. *)
ClaimRefCurrent(c) ==
    claims[c].approval = "approved" /\ claims[c].verified /\ claims[c].current

ReferencesCurrent(p) ==
    /\ \A e \in p.support \cap Evidence : EvidenceCurrent(e)
    /\ \A c \in p.base : ClaimRefCurrent(c)
    /\ p.brief \in {0, brief}

ReviewsRelevant(p) == \A r \in p.reviews : reviews[r].subjects \cap Keys(p) # {}
(* Mutant: the reviews a claim names are all that count. *)
ReviewsAsNamed(p) == TRUE
ReviewsComplete(p) == \A r \in Active : reviews[r].subjects \cap Keys(p) # {} => r \in p.reviews

Current(p) == ReferencesCurrent(p) /\ p.reviews \subseteq Active
Verified(p) == Current(p) /\ ReviewsRelevant(p) /\ ReviewsComplete(p)

AcceptedReview(p) ==
    /\ Keys(p) # {} /\ p.reviews # {}
    /\ \A r \in p.reviews : reviews[r].rec = "accept" /\ ~reviews[r].hard
    /\ Keys(p) \subseteq UNION {reviews[r].subjects : r \in p.reviews}

Validated(p, S) == S # {} /\ S \subseteq PassedIn(p.reports)

HasSupport(p) == p.support # {} \/ p.base # {} \/ p.brief # 0

(* assessClaimSupport *)
SupportState(p) ==
    LET evidence == p.support \cap Evidence
        results == p.support \cap Results
        checked == AcceptedReview(p)
    IN  CASE ~Verified(p) -> "insufficient-evidence"
          [] Verified(p) /\ p.type = "literature-fact" ->
                IF evidence \cap Contradicting # {} THEN "contradicted"
                ELSE IF evidence = {} THEN "insufficient-evidence"
                ELSE IF Validated(p, evidence) /\ checked THEN "independently-checked"
                ELSE "source-backed"
          [] Verified(p) /\ p.type = "experimental-observation" ->
                IF ~Validated(p, results) THEN "insufficient-evidence"
                ELSE IF checked THEN "independently-checked" ELSE "experiment-supported"
          [] Verified(p) /\ p.type = "derived-calculation" ->
                IF Validated(p, p.operands) /\ checked THEN "independently-checked"
                ELSE "insufficient-evidence"
          [] Verified(p) /\ p.type = "scientific-inference" ->
                IF ~HasSupport(p) THEN "insufficient-evidence"
                ELSE IF checked THEN "independently-checked"
                ELSE IF Validated(p, results) THEN "experiment-supported"
                ELSE IF evidence # {} THEN "source-backed" ELSE "insufficient-evidence"
          [] OTHER -> "proposed"

Sufficient(type) ==
    CASE type = "literature-fact" -> {"source-backed", "independently-checked"}
      [] type = "experimental-observation" -> {"experiment-supported", "independently-checked"}
      [] type \in {"derived-calculation", "scientific-inference"} -> {"independently-checked"}
      [] OTHER -> {"proposed"}

MayBeApproved(p) == Verified(p) /\ SupportState(p) \in Sufficient(p.type)

(* claimEligibleForWriting *)
HardReview(r) == r \in Active /\ (reviews[r].rec # "accept" \/ reviews[r].hard)
Eligible(c) ==
    /\ c.approval = "approved" /\ c.verified /\ c.current
    /\ Verified(c.proposal) /\ SupportState(c.proposal) = c.support
    /\ \A r \in c.proposal.reviews : ~HardReview(r)
    /\ c.support \in Sufficient(c.proposal.type)

EligibleClaims == {c \in DOMAIN claims : Eligible(claims[c])}

Claim(p, approval) ==
    [proposal |-> p, approval |-> approval,
     support |-> IF approval = "rejected" THEN "rejected" ELSE SupportState(p),
     verified |-> Verified(p), current |-> Current(p)]

Record(claim) ==
    /\ claims' = Append(claims, claim)
    /\ UNCHANGED <<status, sound, reports, reviews, packets, manuscripts, brief, binding,
                   changes, audited>>

Wait(k, value) ==
    /\ asked' = [asked EXCEPT ![k] = value]
    /\ UNCHANGED <<status, sound, reports, reviews, claims, packets, manuscripts,
                   brief, binding, changes, audited>>

(* claim_commit without approval: such a claim is never eligible, whatever it
   says, so it is a speculation. *)
Speculation == [type |-> "speculation", support |-> {}, base |-> {}, brief |-> 0,
                operands |-> {}, reports |-> {}, reviews |-> {}]

CommitClaim(k, approval) ==
    /\ asked[k] = NotAsked /\ Room(claims, MaxClaims)
    /\ Record(Claim(Speculation, approval)) /\ UNCHANGED asked

(* claim_commit with approval: assessed, then the user is asked. *)
Ask(k, p) ==
    /\ asked[k] = NotAsked /\ Room(claims, MaxClaims)
    /\ MayBeApproved(p)
    /\ Wait(k, [claim |-> Claim(p, "approved"), generation |-> Generation, answered |-> FALSE])

(* The user answers, and commitClaimRecord assesses the claim again. *)
Answered(k, approval) ==
    [asked[k].claim EXCEPT !.approval = approval,
                           !.support = IF approval = "rejected" THEN "rejected" ELSE @]
Reassessed(claim) ==
    /\ claim = Claim(claim.proposal, claim.approval)
    /\ claim.approval = "approved" => Eligible(claim)

Answer(k, approval) ==
    /\ asked[k] # NotAsked /\ ~asked[k].answered
    /\ Wait(k, IF Reassessed(Answered(k, approval))
               THEN [asked[k] EXCEPT !.claim = Answered(k, approval), !.answered = TRUE]
               ELSE NotAsked)

(* Mutant: what waits is committed whatever happened meanwhile. *)
GenerationIgnored(pending) == TRUE

(* The store commits at the generation a claim was assessed, or a manuscript audited,
   at, or refuses. *)
GenerationMatches(pending) == pending.generation = Generation

Commit(k) ==
    /\ asked[k] # NotAsked /\ asked[k].answered
    /\ IF GenerationMatches(asked[k])
       THEN Record(asked[k].claim) /\ asked' = [asked EXCEPT ![k] = NotAsked]
       ELSE Wait(k, NotAsked)

-----------------------------------------------------------------------------
(* Writing                                                                  *)

(* writing_packet_build: the records it closes over never change, so the packet
   is its claims, those it forbids, the brief and the binding. *)
Packet == [claims |-> EligibleClaims, forbidden |-> DOMAIN claims \ EligibleClaims,
           brief |-> brief, binding |-> binding]

BuildPacket(k) ==
    /\ asked[k] = NotAsked /\ Room(packets, MaxPackets)
    /\ packets' = Append(packets, Packet)
    /\ UNCHANGED <<status, sound, reports, reviews, claims, manuscripts, brief, binding,
                   changes, asked, audited>>

PacketCurrent(p) == packets[p] = Packet

(* auditManuscript: traced is whether every number, citation and section of the
   prose traces to the claims its block names. *)
Passes(p, used, traced) ==
    /\ PacketCurrent(p)
    /\ used \subseteq packets[p].claims /\ used \subseteq EligibleClaims
    /\ used \cap packets[p].forbidden = {}
    /\ traced

(* manuscript_validate: the candidate is audited on the Project it loads ... *)
Audit(w, p, used, traced) ==
    /\ audited[w] = NotAsked /\ Room(manuscripts, MaxManuscripts)
    /\ audited' = [audited EXCEPT ![w] =
           [packet |-> p, claims |-> used, validated |-> Passes(p, used, traced),
            generation |-> Generation]]
    /\ UNCHANGED <<status, sound, reports, reviews, claims, packets, manuscripts, brief,
                   binding, changes, asked>>

(* ... and recorded with its audit, or refused. *)
Manuscript(w) == [packet |-> audited[w].packet, claims |-> audited[w].claims,
                  validated |-> audited[w].validated]

CommitManuscript(w) ==
    /\ audited[w] # NotAsked
    /\ manuscripts' = IF GenerationMatches(audited[w]) THEN Append(manuscripts, Manuscript(w))
                      ELSE manuscripts
    /\ audited' = [audited EXCEPT ![w] = NotAsked]
    /\ UNCHANGED <<status, sound, reports, reviews, claims, packets, brief, binding,
                   changes, asked>>

-----------------------------------------------------------------------------
(* Changes from outside the chain                                           *)

Change == changes < MaxChanges /\ Generation < MaxCommits /\ changes' = changes + 1

(* An Artifact is staled for good; a new ExperimentSpec replaces the dataset
   manifests the lineage of a result is checked against. *)
Drift(s) ==
    /\ Change /\ (s \in Evidence => sound[s])
    /\ sound' = [sound EXCEPT ![s] = ~@]
    /\ UNCHANGED <<status, reports, reviews, claims, packets, manuscripts, brief, binding, asked, audited>>

ReviseBrief ==
    /\ Change /\ brief' = brief + 1
    /\ UNCHANGED <<status, sound, reports, reviews, claims, packets, manuscripts, binding, asked, audited>>

Rebind ==
    /\ Change /\ binding' = binding + 1
    /\ UNCHANGED <<status, sound, reports, reviews, claims, packets, manuscripts, brief, asked, audited>>

Next ==
    \/ \E S \in SUBSET Evidence \ {{}} : ValidateCitation(S)
    \/ \E S \in SUBSET Results \ {{}} : ValidateExperiment(S)
    \/ \E S \in SUBSET Subjects \ {{}}, R \in AtMostOne(DOMAIN reports),
          rec \in {"accept", "revise", "reject"}, hard \in BOOLEAN,
          old \in SUBSET DOMAIN reviews :
          (rec # "accept" => R = {} /\ ~hard) /\ Review(S, R, rec, hard, old)
    \/ \E k \in Coordinators :
          \/ \E p \in Proposals : Ask(k, p)
          \/ \E a \in {"pending", "rejected"} : CommitClaim(k, a)
          \/ \E a \in {"approved", "rejected", "pending"} : Answer(k, a)
          \/ Commit(k)
          \/ BuildPacket(k)
    \/ \E w \in Writers :
          \/ \E p \in DOMAIN packets, used \in SUBSET DOMAIN claims, traced \in BOOLEAN :
                Audit(w, p, used, traced)
          \/ CommitManuscript(w)
    \/ \E s \in Subjects : Drift(s)
    \/ ReviseBrief \/ Rebind

Spec == Init /\ [][Next]_vars

-----------------------------------------------------------------------------
(* Properties                                                               *)

(* Every record names records that exist; a claim that waits for its user, and a
   manuscript that waits for its commit, were judged at a generation the Project has
   reached. *)
TypeOK ==
    /\ status \in [Subjects -> {"pending", "accepted", "rejected", "needs-review",
                                "passed", "failed", "blocked"}]
    /\ sound \in [Subjects -> BOOLEAN]
    /\ \A i \in DOMAIN reviews : /\ reviews[i].reports \subseteq DOMAIN reports
                                 /\ reviews[i].supersedes \subseteq 1..(i - 1)
    /\ \A i \in DOMAIN claims : claims[i].proposal.base \subseteq 1..(i - 1)
    /\ \A i \in DOMAIN packets : packets[i].claims \cup packets[i].forbidden \subseteq DOMAIN claims
    /\ \A i \in DOMAIN manuscripts : manuscripts[i].packet \in DOMAIN packets
    /\ \A k \in Coordinators : asked[k] # NotAsked => asked[k].generation <= Generation
    /\ \A w \in Writers : audited[w] # NotAsked =>
           audited[w].packet \in DOMAIN packets /\ audited[w].generation <= Generation

(* The status of a reviewed evidence is what a review says that nobody has
   superseded, and an acceptance rests on a passed report on that evidence. *)
StatusHasActiveReview ==
    \A e \in Evidence : status[e] # "pending" =>
        \E r \in Active : /\ e \in reviews[r].subjects
                          /\ Verdict(reviews[r].rec) = status[e]
                          /\ status[e] = "accepted" => e \in PassedIn(reviews[r].reports)

(* A claim that may be written about is contested by no active review of what
   it rests on; if it counts as independently checked, each evidence and result
   it rests on has an active accepting review with a passed report. *)
EligibleClaimsAreUncontested ==
    \A c \in EligibleClaims :
        LET p == claims[c].proposal IN
        /\ \A r \in Active : reviews[r].subjects \cap Keys(p) # {} => ~HardReview(r)
        /\ claims[c].support = "independently-checked" =>
               \A s \in Keys(p) : \E r \in Active :
                   reviews[r].rec = "accept" /\ s \in PassedIn(reviews[r].reports)

(* A claim is recorded as approved only in a state in which it may be written
   about, whatever was committed while the user was asked. *)
ApprovedClaimsAreEligible ==
    [][\A c \in DOMAIN claims' \ DOMAIN claims :
          claims'[c].approval = "approved" => c \in EligibleClaims']_vars

(* A manuscript is recorded as validated only in a state in which the claims it uses
   may be written about and its packet allows just the claims that may, whatever was
   committed after its audit had loaded the Project. *)
ValidatedManuscriptsAreCurrent ==
    [][\A m \in DOMAIN manuscripts' \ DOMAIN manuscripts :
          manuscripts'[m].validated =>
              /\ manuscripts'[m].claims \subseteq EligibleClaims
              /\ packets[manuscripts'[m].packet].claims = EligibleClaims]_vars

(* A claim that may be written about rests on no claim that may not. *)
SupportingClaimsAreEligible ==
    \A c \in EligibleClaims : claims[c].proposal.base \subseteq EligibleClaims
=============================================================================
