SPECIFICATION Spec
CONSTANTS
    a = a
    b = b
    NoRTT = NoRTT
    Neighbor = {a, b}
    WindowSize = 2
    MaxProbes <- OverlapOfB
    MaxSeq = 3
    MaxOutcomes = 3
INVARIANTS
    NeverBoth
CHECK_DEADLOCK FALSE
