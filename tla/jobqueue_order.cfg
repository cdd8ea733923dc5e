SPECIFICATION Spec
CONSTANTS
    Adders = {a1, a2}
    Cancellers = {c1}
    None = None
    MaxJobs = 3
    Capacity <- Doubling
    FirstCap = 2
    DbMayFail = TRUE
    MayStop = TRUE
    MaxCrashes = 1
SYMMETRY AdderSymmetry
CONSTRAINTS CancelsBeforeRestart StopsAlone OneDropped DisorderAlone
INVARIANTS
    TypeOK
    PointerStaysOnItem
    RemovesWhatItRan
    HiddenOnlyAtEnd
    CancelsRequestedJob
    ShutdownStopsQueue
PROPERTY KeepsLifecycle
CHECK_DEADLOCK FALSE
