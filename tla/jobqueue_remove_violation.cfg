SPECIFICATION Spec
CONSTANTS
    Adders = {a1, a2}
    Cancellers = {}
    None = None
    MaxJobs = 2
    Capacity <- Doubling
    FirstCap = 2
    DbMayFail = FALSE
    MayStop = FALSE
    MaxCrashes = 0
INVARIANT RemovesItsItem
CHECK_DEADLOCK FALSE
