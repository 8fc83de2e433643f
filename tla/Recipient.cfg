SPECIFICATION Spec
CONSTANTS
    Attempts = {a1, a2}
    ChunkCount = 2
    MaxReported = 3
INVARIANTS
    FilesGenuine
    MistypeCostsNothing
    UnsavedIsShown
PROPERTIES
    DoneIsKept
    DownloadSettles
CHECK_DEADLOCK FALSE
