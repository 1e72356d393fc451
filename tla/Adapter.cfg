SPECIFICATION Spec
CONSTANTS
    Client = {c1, c2, c3}
    Handle = {h1, h2}
    KeyId = {i1, i2}
    MacKey = {m1, m2}
    CipherKey = {k1}
    Chunk = {d1, d2}
    NoKey = NoKey
    NoId = NoId
    NoHandle = NoHandle
    NoClient = NoClient
    MaxRef = 2
    MaxChunks = 2
    Disciplined = TRUE
SYMMETRY Symmetry
INVARIANTS
    LiveCount
    NoOrphanKey
    FinishCoversAccepted
    FailedUpdatePoisonsHash
    RefcountIsHolders
    KeysIntact
