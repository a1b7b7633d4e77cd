SPECIFICATION Spec
CONSTANTS
    Workers = {w1}
    NCards = 2
    Policies <- NetworkOnly
    MaxReclaims = 1
    Bounds <- QuietBounds
    MaxRequeued = 1
PROPERTY ApprovedGateProceeds
CHECK_DEADLOCK FALSE
