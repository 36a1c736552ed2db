SPECIFICATION FairSpec
CONSTANTS
    Disks <- Good
    NULL = NULL
    MAX_INCLUDE_DEPTH = 6
    MaxParses = 3
INVARIANTS TypeOK NoCycle ClosedOnce OwnText
PROPERTIES Finishes ReadsAsPromised
CHECK_DEADLOCK FALSE
