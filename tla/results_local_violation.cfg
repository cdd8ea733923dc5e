SPECIFICATION Spec
CONSTANTS
    Files = {f1, f2}
    Empty = Empty
    Spaces = Spaces
    Contents <- MCContents
    Given <- MCGiven
    None = None
    Old = Old
    Unread = Unread
    KeepBuildFiles = FALSE
    MayCancel = FALSE
    MaxLines = 4
INVARIANT CopiesAllFiles
CHECK_DEADLOCK FALSE
