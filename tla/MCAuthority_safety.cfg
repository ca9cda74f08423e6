\* One evidence and one result, two reports and two reviews, one claim.
SPECIFICATION Spec
CONSTANTS
    Evidence = {e}
    Results = {r}
    Contradicting = {}
    ClaimTypes = {"literature-fact", "experimental-observation", "scientific-inference"}
    Coordinators = {k}
    Writers = {w}
    NotAsked = NotAsked
    MaxReports = 2
    MaxReviews = 2
    MaxClaims = 1
    MaxPackets = 1
    MaxManuscripts = 1
    MaxChanges = 1
    MaxCommits = 5
INVARIANTS
    TypeOK
    StatusHasActiveReview
    EligibleClaimsAreUncontested
PROPERTIES
    ApprovedClaimsAreEligible
    ValidatedManuscriptsAreCurrent
CHECK_DEADLOCK FALSE
