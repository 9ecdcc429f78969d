SPECIFICATION Spec
CONSTANTS
    a = a
    b = b
    c = c
    d = d
    s = s
    r = r
    None = None
    Router = {a, b, c, d}
    Sender = s
    Destination = r
    FirstRouter = a
    Neighbors <- Ring
    Views <- PartialViews
    MaxHops = 6
INVARIANTS
    StampsNextHopLatency
CHECK_DEADLOCK FALSE
