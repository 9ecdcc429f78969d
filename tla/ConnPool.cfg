SPECIFICATION Spec
CONSTANTS
    None = None
    Worker = {w1, w2, w3}
    Conn = {c1, c2, c3, c4}
SYMMETRY Interchangeable
INVARIANTS
    TypeOK
    CachedIsOpen
    NoLeak
