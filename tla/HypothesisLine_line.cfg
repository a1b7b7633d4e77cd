SPECIFICATION Spec
CONSTANTS
    Values <- Metrics
    Specs <- Declared
    MaxAttempts = 3
    Bounds <- Mixes
INVARIANTS
    TypeOK
    FrontierMatches
    BestIsNoRegression
    LimitsGrow
    FocusedOnce
    RetriesBounded
    RecoveryCounts
PROPERTIES
    PivotEarned
CHECK_DEADLOCK FALSE
