CONSTANTS
    first = first
    second = second
    Clients = {first, second}
    OptionsOf <- MCOptionsOf
    MaxSockets = 1
    MaxChunks = 1
    MaxStats = 0
SPECIFICATION FairSpec
INVARIANTS
    ExitIsTheVerdict
    
PROPERTIES
    WatcherExits
\* Processes exit, and there is one run.
CHECK_DEADLOCK FALSE
