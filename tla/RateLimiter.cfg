CONSTANTS
    caller = caller
    visitor = visitor
    Ids <- MCIds
    Limit <- MCLimit
    Window = 2
    SweepInterval = 3
    MaxTime = 7
SPECIFICATION Spec
INVARIANTS
    RateBounded
    StaleForgotten
PROPERTIES
    RefusalIsEarned
    ImplementsWindow
\* The clock stops at its bound.
CHECK_DEADLOCK FALSE
