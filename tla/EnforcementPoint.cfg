SPECIFICATION Spec
CONSTANTS
    r1 = r1
    d1 = d1
    d2 = d2
    p1 = p1
    p2 = p2
    Requests = {r1}
    Redemptions = {d1, d2}
    Procs = {p1, p2}
    Ids <- AllIds
    MaxRestarts = 2
SYMMETRY Symmetry
INVARIANT EgressGated
INVARIANT ReceiptTruth
PROPERTY KnownDeadRefused
CHECK_DEADLOCK FALSE
