SPECIFICATION Spec
CONSTANT
    Mod = 8
INVARIANTS
    DerivedAsAsked
    NothingLeft
