SPECIFICATION Spec
CONSTANTS
    S = S T = T C = C D = D None = None
    Sources = {S, T}
    Copies = {C, D}
    ReadDir <- Directory
    Texts <- Flat
    Nearby = {C}
    Configurations <- Answers
    DefaultStyle = "strikethrough"
    MAX_CONTENT_OVERRIDES = 2
    Unsaved = FALSE
INVARIANTS SourcesFresh CopiesFresh
