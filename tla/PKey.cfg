SPECIFICATION Spec
CONSTANTS
    rsa = rsa
    ec = ec
    x = x
    h1 = h1
    h2 = h2
    Key <- MCKey
    Type <- MCType
    Handle <- MCHandle
    NoKey = NoKey
    NoHandle = NoHandle
SYMMETRY Symmetry
INVARIANTS
    Accounted
    MemoryHonest
    FreedClean
    NothingHalfMade
    HalfRespected
    VerdictTrue
PROPERTY
    MadeAsAsked
    MeetsContract
