SPECIFICATION Spec
CONSTANTS
    d = d
    None = None
    Worker = {w1, w2}
    Dest = {d}
    Buckets = 2
    ChanSize = 1
    Budgets <- RouterBudgets
SYMMETRY AlikeWorkers
INVARIANTS
    TypeOK
    Accounted
    BurstBounded
    ScrapeAccounts
    HistogramConsistent
    SkewBounded
PROPERTIES
    ImplementsHistogram
CHECK_DEADLOCK FALSE
