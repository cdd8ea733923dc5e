SPECIFICATION Spec
CONSTANTS
    Jobs = {1}
    Cancellers = {c1, c2}
    Pausers = {}
    None = None
    KeepBuildFiles = TRUE
    DbMayFail = FALSE
    MaxCrashes = 1
INVARIANTS
    FirstCancelNeverBlocks
    WorkerBlocksOnlyAfterCancel
    PublishedOnce
    UnlistedHasACause
PROPERTIES
    CancelledNeverPublished
    DeletedRowNeverBuilt
    CrashKeepsUnfinished
CHECK_DEADLOCK FALSE
