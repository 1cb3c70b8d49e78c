SPECIFICATION FairSpec
CONSTANTS
    p1 = p1
    p2 = p2
    a = a
    b = b
    Procs = {p1, p2}
    Workers <- TwoProcesses
    Tenants = {t1}
    Keys = {}
    ScansAreShort = TRUE
    MaxRuns = 3
    MaxCrashes = 1
CHECK_DEADLOCK FALSE
PROPERTIES
    NoEternalLock
