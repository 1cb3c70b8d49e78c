SPECIFICATION Spec
CONSTANTS
    p1 = p1
    p2 = p2
    s1 = s1
    s2 = s2
    Procs = {p1, p2}
    Scans = {s1, s2}
    Candidates <- SomeCandidates
    Manual <- SomeManual
    MaxEntries = 2
    MaxManual = 1
    MaxCrashes = 1
SYMMETRY Symmetry
 
INVARIANT EntriesAccounted
INVARIANT StoredChain
INVARIANT ReplayHasRun
CHECK_DEADLOCK FALSE
