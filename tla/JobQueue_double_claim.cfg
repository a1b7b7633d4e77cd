SPECIFICATION Spec
CONSTANTS
    Workers = {w1, w2}
    MaxJobs = 1
    Priority <- LaterIsUrgent
    SelfPausing = {}
    MaxReclaims = 1
    Stalls = FALSE
    MaxFaults = 1
    ApiOps = {}
    MaxRequests = 0
INVARIANT
    SingleExecutor
CHECK_DEADLOCK FALSE
