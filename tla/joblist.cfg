SPECIFICATION Spec
CONSTANTS
    Lists = {l1}
    Limits <- MCLimits
    DefaultLimit = 10
    MaxJobs = 3
    DbMayFail = TRUE
CONSTRAINTS OneUnlisted UntilAnswered
INVARIANTS
    TypeOK
    ListsEveryJob
    LimitKept
    WalkIsExact
CHECK_DEADLOCK FALSE
