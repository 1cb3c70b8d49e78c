SPECIFICATION Spec
CONSTANTS
    p1 = p1
    p2 = p2
    c1 = c1
    c2 = c2
    c3 = c3
    c4 = c4
    Procs = {p1, p2}
    Captures = {c1, c2, c3, c4}
    MaxCrashes = 1
SYMMETRY Symmetry
INVARIANT Accounted
INVARIANT HolesFromOutages
INVARIANT OneChain
CHECK_DEADLOCK FALSE
