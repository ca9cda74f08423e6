\* One installer, one failure, one edit of the user.
SPECIFICATION Spec
CONSTANTS
    Callers = {c1}
    Hosts = {}
    Nobody = Nobody  Absent = Absent  Torn = Torn
    Versions = {1}
    MaxBuilds = 2
    MaxEdits = 1
    MaxInterrupts = 1
INVARIANTS
    RecoveryEndsTheTransaction
CHECK_DEADLOCK FALSE
