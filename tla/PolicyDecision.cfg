SPECIFICATION Spec
CONSTANTS
    r1 = r1
    r2 = r2
    r3 = r3
    a1 = a1
    i1 = i1
    i2 = i2
    i3 = i3
    t1 = t1
    t2 = t2
    t3 = t3
    NoAgent = NoAgent
    Requests = {r1, r2, r3}
    Ids = {i1, i2, i3}
    CallIds <- MCCallIds
    Targets <- MCTargets
    Agents = {a1}
    Identities <- MCIdentities
    Reports <- MCReports
    Soft = 2
    Hard = 3
    SoftFan = 2
    HardFan = 3
    Window = 2
    Stamps <- MCStamps
CHECK_DEADLOCK FALSE
INVARIANTS
    FloorStands
    PermitExplained
    WitnessTells
    BurstStopped
