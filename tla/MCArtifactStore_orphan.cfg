\* Two calls of any kind.
SPECIFICATION Spec
CONSTANTS
    a = a  b = b  d1 = d1  d2 = d2
    Workers = {a, b}
    Digests = {d1, d2}
    Absent = Absent  Nobody = Nobody  Recovery = Recovery  User = User
    MaxEdits = 0
    MaxDrifts = 2
    MaxInterrupts = 0
CHECK_DEADLOCK FALSE
INVARIANTS
    CommittedObjectsExist
