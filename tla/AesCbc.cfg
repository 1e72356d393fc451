SPECIFICATION Spec
CONSTANTS
    PtrMod = 16
    Key = {1, 2}
    NoKey = 0
    Block <- MCBlock
    Zero = 0
    E <- MCE
    D <- MCD
    X <- MCX
    MemSize = 3
    MaxLog = 3
INVARIANTS
    CbcChained
PROPERTY
    InputSurvives
