CONSTANTS
    Clients = {c1, c2, c3}
    MaxSockets = 2
    MaxChunks = 2
    MaxStats = 1
SYMMETRY ClientSymmetry
SPECIFICATION Spec
INVARIANTS
    Gapless
    FinishedIsLast
    AnnouncedMeansSaved
    SocketsExact
PROPERTIES
    LiveWatcherKept
\* The run ends and every connection is made once.
CHECK_DEADLOCK FALSE
