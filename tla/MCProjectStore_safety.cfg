\* Three callers in two processes; two digested events; one crash.
SPECIFICATION Spec
CONSTANTS
    p1 = p1  p2 = p2  c1 = c1  c2 = c2  c3 = c3
    Clients <- MCThreeClients
    Procs <- MCProcs
    ProcOf <- MCProcOfThree
    NoProc = NoProc
    NoState = NoState
    MaxEvents = 2
    MaxCrashes = 1
SYMMETRY SameProcess
INVARIANTS
    TypeOK
    LogReadable
    SnapshotTrailsLog
    ReturnedStatesPersist
    NoFalseCorruption
    NobodyWaitsForTheGone
PROPERTIES
    CommitsExtendValidatedState
    RefinesHistory
