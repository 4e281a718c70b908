CONSTANTS
    d1 = d1
    d2 = d2
    w1 = w1
    w2 = w2
    Docs = {d1}
    Workers = {w1, w2}
    UserOps = {"cancel", "delete", "deleteKB"}
    FaultKinds = {}
    StaleAge = 2
    RecheckDelay = 2
    MaxBatchAge = 1
    BatchDocs = 2
    MaxInflight = 2
    MaxFail = 0
    MaxRows = 2
    MaxFaults = 0
    MaxCrashes = 1
SPECIFICATION Spec
SYMMETRY Symmetry
\* The queue may be empty and nothing left to do.
CHECK_DEADLOCK FALSE
INVARIANTS RowExclusive DocExclusive DrainedOnce NoGhost
PROPERTIES DeletedStaysEmpty KeepsOrder
