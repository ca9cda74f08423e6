\* Two calls at a time, four in all (SearchReplay apart); two items, two generations.
SPECIFICATION Spec
CONSTANTS
    Flights = {f1, f2}
    Keys = {k1, k2}
    Items = {a, b}
    MaxChainItems = 2
    MaxPages = 1
    MaxGenerations = 2
    MaxReservations = 3
    MaxRotations = 1
    MaxCalls = 4
    NoKey = NoKey
SYMMETRY Symmetry
INVARIANTS
    TypeOK
    ItemsReturnedOnce
    LateResponsesAreRejected
    AsksWithIssuingCredential
    OnlySupersededAskAfterOutcome
PROPERTIES
    RefinesSearch
CHECK_DEADLOCK FALSE
