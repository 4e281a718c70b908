CONSTANTS
    d1 = d1
    d2 = d2
    w1 = w1
    w2 = w2
    Docs = {d1}
    Workers = {w1}
    UserOps = {"cancel", "delete", "reparse"}
    FaultKinds = {"trigger", "load", "scrub", "settle", "redis"}
    StaleAge = 1
    RecheckDelay = 1
    MaxBatchAge = 0
    BatchDocs = 2
    MaxInflight = 1
    MaxFail = 1
    MaxRows = 2
    MaxFaults = 1
    MaxCrashes = 1
SPECIFICATION FairSpec
\* The queue may be empty and nothing left to do.
CHECK_DEADLOCK FALSE
INVARIANTS DurableUntilDrained DrainedMeansWritten SomeoneComes
PROPERTY EveryRowLeaves
