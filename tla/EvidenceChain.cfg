SPECIFICATION Spec
CONSTANTS
    d1 = d1
    d2 = d2
    Decisions = {d1, d2}
    MaxRecords = 4
    MaxDowns = 2
SYMMETRY MCSymmetry
CHECK_DEADLOCK FALSE
INVARIANTS
    CorruptionVisible
    TamperEvident
    NeverHidesWaiting
    IndexCurrent
    SliceExact
