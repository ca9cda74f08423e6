\* Two calls of any kind, two interruptions, two edits, drift up to generation 3.
SPECIFICATION Spec
CONSTANTS
    a = a  b = b  d1 = d1  d2 = d2
    Workers = {a, b}
    Digests = {d1, d2}
    Absent = Absent  Nobody = Nobody  Recovery = Recovery  User = User
    MaxEdits = 2
    MaxDrifts = 3
    MaxInterrupts = 2
SYMMETRY Alike
CHECK_DEADLOCK FALSE
INVARIANTS
    TypeOK
    DeliverablesAreStored
    OneCurrentDeliverable
    FileIsAccountedFor
PROPERTIES
    NoPublicationIsLost
