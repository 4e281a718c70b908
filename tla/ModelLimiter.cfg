SPECIFICATION FairSpec
CONSTANTS
    Calls = {c1, c2, c3}
    Limit = 1
    Ttl = 8
    Beat = 2
    Lag = 1
    Skew = 1
INVARIANT AtMostLimit
PROPERTY ImplementsSemaphore
PROPERTY Served
