SPECIFICATION FairSpec
CONSTANTS
    Tables <- Telemetry
    Writers = {p1}
    PageSize = 2
    MaxRows = 2
    MaxConnects = 1
PROPERTY
    ClosesWhenTerminal
CHECK_DEADLOCK FALSE
