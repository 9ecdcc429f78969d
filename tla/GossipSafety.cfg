SPECIFICATION Spec
CONSTANTS
    a = a
    b = b
    c = c
    None = None
    Node = {a, b}
    Neighbors <- Pair
    Probed <- PairOneProbe
    Quality = {"good", "bad"}
    MaxStaleness = 0
    MaxSeq = 2
    MaxTime = 1
    MaxInFlight = 2
INVARIANTS
    TypeOK
    SequenceOrdersMeasurements
    OwnerHoldsLatest
PROPERTIES
    ViewNeverGoesBack
    ImplementsRegister
CHECK_DEADLOCK FALSE
