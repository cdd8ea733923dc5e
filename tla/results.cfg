SPECIFICATION Spec
CONSTANTS
    Files = {f1, f2}
    Empty = Empty
    Spaces = Spaces
    Contents <- MCContents
    Given <- MCGiven
    None = None
    Old = Old
    Unread = Unread
    KeepBuildFiles = FALSE
    MayCancel = TRUE
    MaxLines = 5
INVARIANTS
    TypeOK
    DManagerDoneIsComplete
    LocalDoneIsWhole
    EndsInFinalState
CHECK_DEADLOCK FALSE
