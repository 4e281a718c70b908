CONSTANTS
    Calls = {p1}
    Requests = {r1, r2}
    Instances = {i1, i2}
    Tenants = {t1, t2}
    Users = {u1}
    CrossInstance = TRUE
    MaxFaults = 1
SPECIFICATION FairSpec
\* Every call may have ended and every request been answered.
CHECK_DEADLOCK FALSE
INVARIANTS Authorized NeverStuck
PROPERTIES KeepsOneDecision CallsEnd
