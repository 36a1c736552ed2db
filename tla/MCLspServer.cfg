SPECIFICATION SSpec
CONSTANTS
    S = S T = T C = C n = n None = None
    Sources = {S, T}
    Copies = {C}
    ReadDir <- Directory
    Texts <- SmallTexts
    Nearby = {}
    Configurations <- Answers
    DefaultStyle = "strikethrough"
    MAX_CONTENT_OVERRIDES = 1
    Unsaved = TRUE
    Names = {n}
    MaxRequests = 2
INVARIANT ReferencesFound
PROPERTIES NewestConfiguration OnlyWhenRunning RenameReachesOpen
CHECK_DEADLOCK FALSE
