CONSTANTS
    key = key
    ip = ip
    ip2 = ip2
    r1 = r1
    r2 = r2
    r3 = r3
    NoKey = NoKey
    Keys = {key}
    Ips = {ip, ip2}
    Requests <- MCRequests
    HeaderOf <- MCHeaderOf
    IpOf <- MCIpOf
    Issuers = {ip}
    Allowance <- MCAllowance
    KeyAllowance <- MCKeyAllowance
    MaxConcurrency = 1
    MaxQueueLength = 1
    MaxPerKey = 1
    Window = 1
    SweepInterval = 1
    Ttl = 0
    MaxTime = 1
SPECIFICATION FairSpec
INVARIANTS
    SharedBudget
    CountsAddUp
PROPERTIES
    EveryRequestAnswered
\* Every request is made once, and the clock stops.
CHECK_DEADLOCK FALSE
