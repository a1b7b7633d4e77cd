SPECIFICATION Spec
CONSTANTS
    Workers <- Crew
    Specs = {s1}
    MaxReclaims = 1
    ControlOps <- AllControls
    MaxRequests = 3
    Scenarios <- Contention
CONSTRAINT Contested
INVARIANTS
    FrontierCountsRuns
PROPERTIES
    CancelIsFinal
CHECK_DEADLOCK FALSE
