SPECIFICATION FairSpec
CONSTANTS
    Jobs = {1}
    Cancellers = {c1}
    Pausers = {p1}
    None = None
    KeepBuildFiles = FALSE
    DbMayFail = FALSE
    MaxCrashes = 0
PROPERTY CancelEndsAwait
CHECK_DEADLOCK FALSE
