CONSTANTS
    Kinds = {summary, wiki}
    Summary = summary
    Wiki = wiki
    Plans = {{summary, wiki}}
    MaxRetry = 0
    MaxAttempts = 1
    MaxTroubles = 1
    summary = summary
    wiki = wiki
SPECIFICATION Spec
PROPERTY CancelledStays
CHECK_DEADLOCK FALSE
