CONSTANTS
    MaxRuns = 3
    MaxChunks = 2
    MaxStats = 2
    MAX_STEP_DELAY_MS = 2
    SetBack = 1
    LatestTime = 3
SPECIFICATION PagesSpec
INVARIANTS
    RunIsShown
    ControlsFitTheRun
    ReplayIsFaithful
\* The user stops clicking, and the replay ends.
CHECK_DEADLOCK FALSE
