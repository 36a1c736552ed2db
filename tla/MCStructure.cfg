SPECIFICATION SSpec
CONSTANTS
    Programs <- Good
    MaxTerms = 32
    Stale <- Nothing
INVARIANTS Faithful Recovers
PROPERTY KeepsUp
CHECK_DEADLOCK FALSE
