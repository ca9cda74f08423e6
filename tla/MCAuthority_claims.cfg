\* Two evidences; a claim that rests on another; one change from outside.
SPECIFICATION Spec
CONSTANTS
    Evidence = {e1, e2}
    Results = {}
    Contradicting = {}
    ClaimTypes = {"literature-fact"}
    Coordinators = {k}
    Writers = {}
    NotAsked = NotAsked
    MaxReports = 1
    MaxReviews = 2
    MaxClaims = 2
    MaxPackets = 0
    MaxManuscripts = 0
    MaxChanges = 1
    MaxCommits = 7
INVARIANTS
    SupportingClaimsAreEligible
SYMMETRY Symmetry
CHECK_DEADLOCK FALSE
