CONSTANTS
    d1 = d1
    d2 = d2
    w1 = w1
    w2 = w2
    Docs = {d1, d2}
    Workers = {w1}
    UserOps = {"cancel"}
    FaultKinds = {}
    StaleAge = 2
    RecheckDelay = 2
    MaxBatchAge = 1
    BatchDocs = 1
    MaxInflight = 1
    MaxFail = 0
    MaxRows = 2
    MaxFaults = 0
    MaxCrashes = 1
SPECIFICATION Spec
SYMMETRY Symmetry
\* The queue may be empty and nothing left to do.
CHECK_DEADLOCK FALSE
INVARIANT TurnedAwayDrain
