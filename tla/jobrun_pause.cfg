SPECIFICATION FairSpec
CONSTANTS
    Jobs = {1}
    Cancellers = {}
    Pausers = {p1}
    None = None
    KeepBuildFiles = FALSE
    DbMayFail = TRUE
    MaxCrashes = 0
INVARIANTS
    PauseStateMatchesContainer
    UnlistedHasACause
PROPERTY EveryJobEnds
CHECK_DEADLOCK FALSE
