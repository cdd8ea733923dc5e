SPECIFICATION FairSpec
CONSTANTS
    Jobs = {1}
    Cancellers = {c1}
    Pausers = {}
    None = None
    KeepBuildFiles = FALSE
    DbMayFail = FALSE
    MaxCrashes = 0
PROPERTY EveryJobEnds
CHECK_DEADLOCK FALSE
