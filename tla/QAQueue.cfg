CONSTANTS
    InstanceCount = 2
    UserCount = 2
    MaxRequests = 2
    WorkerCount = 1
    MaxSize = 1
    MaxPerUser = 1
    GlobalMax = 1
    TTL = 1
    MaxMishaps = 1
SPECIFICATION FairSpec
\* Every request may have ended.
CHECK_DEADLOCK FALSE
INVARIANTS GateLimit UserLimit CountsExact NoLostWakeup
PROPERTY EveryRequestEnds
