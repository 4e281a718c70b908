SPECIFICATION FairSpec
CONSTANTS
    d1 = d1
    d2 = d2
    a1 = a1
    a2 = a2
    b = b
    Docs <- MCDocs
    Jobs <- MCJobs
    Of <- MCOf
    Filed = {d1}
    Retries = {r1}
    Peeked = 2
    MaxRetry = 1
    MaxFail = 1
    MaxOps = 2
    MaxTroubles = 1
INVARIANTS SomeoneFinalizes OnePass FoldersKept 
PROPERTY RowsLeave
CHECK_DEADLOCK FALSE
