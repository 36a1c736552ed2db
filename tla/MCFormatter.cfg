SPECIFICATION FSpec
CONSTANTS
    Comments <- MCComments
    Quoting <- MCQuoting
    Labels <- MCLabels
    Literals <- MCLiterals
    Programs <- MCPrograms
    Newlines = {TRUE}
    MaxSpaced = 3
    Options <- MCOptions
PROPERTIES
    SameProgram
    Idempotent
CHECK_DEADLOCK FALSE
