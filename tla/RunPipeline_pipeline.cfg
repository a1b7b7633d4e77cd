SPECIFICATION FairSpec
CONSTANTS
    Workers <- Crew
    Specs = {s1}
    MaxReclaims = 1
    ControlOps <- NoControls
    MaxRequests = 1
    Scenarios <- Troubles
INVARIANTS
    TypeOK
    PatchesFit
    OneReport
PROPERTIES
    EveryRunConcludes
    NoSilentLoss
CHECK_DEADLOCK FALSE
