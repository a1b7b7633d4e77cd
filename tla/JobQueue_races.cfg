SPECIFICATION Spec
CONSTANTS
    Workers = {w1, w2}
    MaxJobs = 1
    Priority <- LaterIsUrgent
    SelfPausing = {}
    MaxReclaims = 1
    Stalls = TRUE
    MaxFaults = 1
    ApiOps = {"cancel", "pause", "resume"}
    MaxRequests = 2
SYMMETRY WorkerSymmetry
INVARIANTS
    TypeOK
    ClaimsPaidFor
PROPERTIES
    SettledIsFinal
CHECK_DEADLOCK FALSE
