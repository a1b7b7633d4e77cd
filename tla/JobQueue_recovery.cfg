SPECIFICATION FairSpec
CONSTANTS
    Workers = {w1}
    MaxJobs = 2
    Priority <- LaterIsUrgent
    SelfPausing = {2}
    MaxReclaims = 1
    Stalls = TRUE
    MaxFaults = 1
    ApiOps = {"cancel"}
    MaxRequests = 1
INVARIANTS
    ReclaimsBeforeForceFail
PROPERTIES
    EventuallySettles
CHECK_DEADLOCK FALSE
