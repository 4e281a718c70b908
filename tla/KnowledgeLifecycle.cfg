CONSTANTS
    Kinds = {summary, wiki}
    Summary = summary
    Wiki = wiki
    Plans = {{}, {summary, wiki}}
    MaxRetry = 1
    MaxAttempts = 2
    MaxTroubles = 1
    summary = summary
    wiki = wiki
SPECIFICATION FairSpec
INVARIANT SlotsCounted
PROPERTIES PromotedWhenDone SweptIsOrphan Settles
\* The document may be done.
CHECK_DEADLOCK FALSE
