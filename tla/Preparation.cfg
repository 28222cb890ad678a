CONSTANTS
    self = self
    other = other
    Procs = {self, other}
    MaxVersion = 2
    MaxNow = 3
    MaxDepth = 2
SPECIFICATION MCSpec
INVARIANTS
    GuestIsConfined
    PolicyIsCurrent
    ProgramIsWhole
\* The guest has been started, or the run refused.
CHECK_DEADLOCK FALSE
