SPECIFICATION FairSpec
CONSTANTS
    s = s
    a = a
    b = b
    e = e
    None = None
    Node = {s, a, b, e}
    Start = s
    End = e
    Pair <- Square
    Metric <- FastOrClean
    Intent <- Intents
    Exclusion = {{}, {s, a, e}}
    Config <- DefaultWeightConfig
INVARIANTS
    TypeOK
    Optimal
    Certified
PROPERTIES
    SettledStays
    Terminates
CHECK_DEADLOCK FALSE
