SPECIFICATION Spec
CONSTANTS
    Workers = {w1, w2}
    NCards = 2
    Policies <- SomePolicies
    MaxReclaims = 1
    Bounds <- SomeBounds
    MaxRequeued = 1
INVARIANTS TypeOK WithinBudget GateHonoured NetworkApproved
PROPERTY LoopEnds
CHECK_DEADLOCK FALSE
