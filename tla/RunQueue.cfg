CONSTANTS
    alice = alice
    bob = bob
    Tasks <- MCTasks
    Keys <- MCKeys
    KeyOf <- MCKeyOf
    MaxConcurrency = 2
    MaxQueueLength = 2
    MaxPerKey = 3
SPECIFICATION MCSpec
INVARIANTS
    SlotAccounting
    KeyAccounting
    FirstComeFirstServed
    PositionIsHonest
PROPERTIES
    EveryTicketAnswered
    ImplementsPool
\* The tasks of an instance are finite: when all are answered it stops.
CHECK_DEADLOCK FALSE
