SPECIFICATION TableSpec
CONSTANTS
    Consumer = {c1, c2}
    Abi = {1, 2}
    Ptr = 8
INVARIANTS
    CallsPresent
    BackendUp
    InfoWithin
PROPERTY
    Resolves
