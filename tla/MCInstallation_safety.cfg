\* Two installers, one Host; failures, crashes and edits of the user.
SPECIFICATION Spec
CONSTANTS
    Callers = {c1, c2}
    Hosts = {h}
    Nobody = Nobody  Absent = Absent  Torn = Torn
    Versions = {1, 2}
    MaxBuilds = 2
    MaxEdits = 1
    MaxInterrupts = 2
SYMMETRY Symmetry
INVARIANTS
    TypeOK
    OnlyTornCopiesAreLost
PROPERTIES
    ActivationNeverGoesBack
    RunningHostsKeepTheirFiles
CHECK_DEADLOCK FALSE
