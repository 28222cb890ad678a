CONSTANTS
    WallClock = 2
    CompileWallClock = 1
    Grace = 1
    OutputBytes = 3
    MaxChunks = 2
    ChunkSizes = {1, 2}
    MessageSizes = {2, 4}
    GuestCodes = {0, 1, 91}
SPECIFICATION FairSpec
INVARIANTS
    CutShortIsReported
    VerdictFitsTheExit
    OutputBounded
    DeadlineKept
    NothingLeftBehind
PROPERTIES
    RunSettles
\* run() is called once: the instance stops when it has settled.
CHECK_DEADLOCK FALSE
