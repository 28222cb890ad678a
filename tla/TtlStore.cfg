CONSTANTS
    Ids = {r1, r2}
    Loaders = {l1}
    Sweepers = {s1}
    Ttl = 1
    MaxTime = 3
    MaxCrashes = 1
SPECIFICATION FairSpec
INVARIANTS
    SavedStays
PROPERTIES
    LoadsAreHonest
    ExpiredReclaimed
