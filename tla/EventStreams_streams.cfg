SPECIFICATION FairSpec
CONSTANTS
    Tables <- Both
    Writers = {p1, p2}
    PageSize = 3
    MaxRows = 4
    MaxConnects = 2
INVARIANTS
    TypeOK
    SkippedOnlyIfOvertaken
    SentTwiceOnlyIfDisordered
PROPERTIES
    EveryRowArrives
CHECK_DEADLOCK FALSE
