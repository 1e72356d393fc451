SPECIFICATION Spec
INVARIANTS
    NothingLeftBehind
PROPERTY
    ImplementsContract
