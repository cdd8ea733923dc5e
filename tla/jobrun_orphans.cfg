SPECIFICATION Spec
CONSTANTS
    Jobs = {1, 2}
    Cancellers = {c1}
    Pausers = {}
    None = None
    KeepBuildFiles = FALSE
    DbMayFail = TRUE
    MaxCrashes = 0
CONSTRAINT SecondJobStarts
INVARIANTS
    TypeOK
    OrphansWereCancelled
    DataDirOutlivesUse
PROPERTY LifecycleSpec
CHECK_DEADLOCK FALSE
