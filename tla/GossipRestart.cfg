SPECIFICATION RestartSpec
CONSTANTS
    a = a
    b = b
    c = c
    None = None
    Node = {a, b}
    Neighbors <- Pair
    Probed <- PairOneProbe
    Quality = {"good"}
    MaxStaleness = 0
    MaxSeq = 2
    MaxTime = 1
    MaxInFlight = 1
INVARIANTS
    SequenceOrdersMeasurements
CHECK_DEADLOCK FALSE
