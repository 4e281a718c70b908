SPECIFICATION FairSpec
CONSTANTS
    Instances = {a, b}
    NoOne = none
    LongPoll = TRUE
    MaxBusy = 2
    MaxChanges = 1
    MaxTroubles = 1
INVARIANTS OneConnection NoLeak
PROPERTIES StepsDown CatchesUp Served
CHECK_DEADLOCK FALSE
