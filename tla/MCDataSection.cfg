SPECIFICATION DSpec
CONSTANTS
    MAX_RDA_SLOTS = 8
    MaxRanges = 2
    Data <- MCData
    Statements <- MCStatements
    MaxLength = 3
INVARIANTS
    SameSlots
    CompilesBack
CHECK_DEADLOCK FALSE
