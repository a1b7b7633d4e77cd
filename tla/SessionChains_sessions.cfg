SPECIFICATION Spec
CONSTANTS
    Workers = {w1}
    Papers = {p1}
    Starts <- AllStarts
    MaxReclaims = 1
    MaxRequeued = 1
    MaxCrashes = 1
    MaxRequests <- Requests
    Asks <- Asked
    MaxCycles = 2
INVARIANTS TypeOK OneDiscoveryPerCycle FailureExplained
PROPERTIES ImplementsProgress NoSessionForgotten
CHECK_DEADLOCK FALSE
