SPECIFICATION Spec
CONSTANTS
    e1 = e1
    Evaluations = {e1}
    MaxProposals = 2
    MaxBoots = 2
    Budget = 1
CHECK_DEADLOCK FALSE
INVARIANTS
    ActiveHolds
    AnsweredOnce
    BudgetWhenSerial
