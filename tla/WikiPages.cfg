CONSTANTS
    a = a
    b = b
    Pages = {a, b}
    Docs = {d1, d2}
    Writers = {w1, w2}
    Links <- MCLinks
    Keep = 0
    KeepHard = 1
    NoOne = none
    NoDoc = nodoc
    MaxJobs = 3
    MaxTroubles = 2
SPECIFICATION Spec
SYMMETRY Symmetry
\* Every writer may have been and gone.
CHECK_DEADLOCK FALSE
INVARIANTS SectionBound HistoryExact TextKept RefsKept
