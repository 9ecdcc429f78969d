SPECIFICATION FairSpec
CONSTANTS
    a = a
    b = b
    c = c
    None = None
    Node = {a, b, c}
    Neighbors <- Chain
    Probed <- HeadProbes
    Quality = {"good"}
    MaxStaleness = 0
    MaxSeq = 2
    MaxTime = 0
    MaxInFlight = 1
PROPERTIES
    Propagation
CHECK_DEADLOCK FALSE
