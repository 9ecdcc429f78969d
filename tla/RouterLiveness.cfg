SPECIFICATION FairSpec
CONSTANTS
    d = d
    None = None
    Worker = {w1, w2}
    Dest = {d}
    Buckets = 2
    ChanSize = 1
    Budgets <- LivenessBudgets
PROPERTIES
    Drains
    SecondSignalStops
    ReadinessFollows
CHECK_DEADLOCK FALSE
