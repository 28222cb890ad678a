CONSTANTS
    Clients = {c1, c2}
    MaxSockets = 2
    MaxChunks = 2
    MaxStats = 1
SPECIFICATION FairSpec
PROPERTIES
    ReleasedAfterTheEnd
    VanishedAreReaped
CHECK_DEADLOCK FALSE
