SPECIFICATION Spec
CONSTANTS
    Jobs = {1, 2}
    Cancellers = {c1}
    Pausers = {}
    None = None
    KeepBuildFiles = FALSE
    DbMayFail = FALSE
    MaxCrashes = 0
CONSTRAINTS
    SecondJobStarts
    StopComesEarly
INVARIANT OneJobAtATime
CHECK_DEADLOCK FALSE
