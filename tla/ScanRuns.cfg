SPECIFICATION Spec
CONSTANTS
    p1 = p1
    p2 = p2
    a = a
    b = b
    Procs = {p1, p2}
    Workers <- ThreeWorkers
    Tenants = {t1}
    Keys = {k1}
    ScansAreShort = TRUE
    MaxRuns = 2
    MaxCrashes = 1
CHECK_DEADLOCK FALSE
INVARIANTS
    OneScan
    LockHeld
