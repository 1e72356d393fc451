SPECIFICATION Spec
CONSTANTS
    Ptr = {p1, p2, p3}
    Addr = {a1, a2, a3}
    Null = Null
    NoPtr = NoPtr
    MaxChunk = 3
SYMMETRY Symmetry
INVARIANTS
    OwnedOnce
    UsesLive
    WipedOnReturn
    WholeOrNothing
    NothingLeft
