SPECIFICATION Spec
CONSTANTS
    ProcName = {P, Q, R}
    LabelName = {a, b}
    None = None
    MAX_LABELS = 1
    MAX_PROCS = 2
    HeaderSize = 3
    Lengths = {16383}
    Outcomes = {"ok", "fopen", "fwrite", "sdb"}
    MaxTargets = 2
    MaxSize = 49200
SYMMETRY Symmetry
INVARIANTS TypeOK NoJumpAstray LinkedWhenClean JumpsStayInProc
PROPERTIES LinksAsPromised
CHECK_DEADLOCK FALSE
