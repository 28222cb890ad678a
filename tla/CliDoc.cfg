CONSTANTS
    first = first
    second = second
    Clients = {first, second}
    OptionsOf <- MCOptionsOf
    MaxSockets = 1
    MaxChunks = 1
    MaxStats = 0
SPECIFICATION Spec
INVARIANTS
    OutputAlwaysShown
CHECK_DEADLOCK FALSE
