SPECIFICATION FairSpec
CONSTANTS
    Ptr = {p1, p2}
    Context = {x1, x2}
    NoPtr = NoPtr
    NoContext = NoContext
    MaxInput = 1
INVARIANTS
    OwnedOnce
    TouchesLive
    WholeInput
    ConnectionRestored
PROPERTY
    Freed
