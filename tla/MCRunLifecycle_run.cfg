\* Two crashes, two failures.  A terminal run with nobody calling is at rest.
SPECIFICATION FairSpec
CONSTANTS
    s1 = s1  startup = startup  c1 = c1
    Submitters <- MCSubmitters
    Callers <- MCCallers
    Startup = startup
    MaxCrashes = 2
    MaxFailures = 2
CHECK_DEADLOCK FALSE
INVARIANTS
    TypeOK
    VerdictsHaveEvidence
    NoProcessBehindVerdict
    SpawnedProcessesAreIdentified
PROPERTIES
    TerminalIsFinal
    RunsFinish
