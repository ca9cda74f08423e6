\* No crash, no failure.
SPECIFICATION Spec
CONSTANTS
    s1 = s1  startup = startup  c1 = c1
    Submitters <- MCSubmitters
    Callers <- MCCallers
    Startup = startup
    MaxCrashes = 0
    MaxFailures = 0
CHECK_DEADLOCK FALSE
INVARIANTS
    LiveRunsAreTimed
