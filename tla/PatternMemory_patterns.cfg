SPECIFICATION FairSpec
CONSTANTS
    Workers = {w1, w2}
    CycleOf <- Mined
    CharterOf <- TwoCharters
    Window = 1
    Windows = {1}
    Interval = 2
    MaxReclaims = 1
    OldAge = 2
    Budgets <- Mixes
INVARIANTS
    TypeOK
    EvidenceBacked
    DecayPerInterval
    InjectionBacked
PROPERTIES
    InjectionApproved
    DormantForgotten
CHECK_DEADLOCK FALSE
