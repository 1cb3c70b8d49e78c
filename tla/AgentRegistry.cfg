SPECIFICATION FairSpec
CONSTANTS
    Threads = {t1}
    Births = {"ACTIVE"}
    Transitions = {"REVOKED"}
    Others = {"REVOKED"}
    MaxRev = 2
    MaxChain = 3
    MaxPending = 1
    MaxBoots = 2
CHECK_DEADLOCK FALSE
INVARIANTS
    NoWriteLost
    NothingForgotten
PROPERTIES
    RowsKept
    GhostsFade
    RevivedByStaleOnly
