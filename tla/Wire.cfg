SPECIFICATION Spec
CONSTANTS
    s = s
    a = a
    b = b
    r = r
    None = None
    NoName = NoName
    Node = {s, a, b, r}
    Source = s
    Deployments <- MixedDeployments
    Packets <- LightFullHuge
    Measured = {1164, 700000}
    Views <- RouterViews
    Inexact <- TruncatedBelow
    NameLen = 5
    MaxHops = 3
INVARIANTS
    TypeOK
    NothingMisread
    MetricsClose
    RefusedForSizeOnly
CHECK_DEADLOCK FALSE
