\* Both kinds of mutex; the Project changes meanwhile; a crash.
SPECIFICATION FairSpec
CONSTANTS
    p1 = p1  p2 = p2  c1 = c1  c2 = c2  c3 = c3
    Clients <- MCClients
    Procs <- MCProcs
    ProcOf <- MCProcOf
    Digests = {d1, d2}
    Nobody = Nobody
    Platforms = {TRUE, FALSE}
    MaxVersion = 1
    MaxCrashes = 1
INVARIANTS
    TypeOK
    ExactReplay
    AnswersAreRecorded
    OneLiveCall
PROPERTIES
    RefinesOnce
    CallsReturn
