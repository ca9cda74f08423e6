\* One installer, one interruption, no edits.
SPECIFICATION Spec
CONSTANTS
    Callers = {c1}
    Hosts = {}
    Nobody = Nobody  Absent = Absent  Torn = Torn
    Versions = {1}
    MaxBuilds = 2
    MaxEdits = 0
    MaxInterrupts = 1
INVARIANTS
    RecoveryRollsBackOrCompletes
CHECK_DEADLOCK FALSE
