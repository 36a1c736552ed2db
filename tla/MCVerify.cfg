SPECIFICATION FairSpec
CONSTANTS
    r1 = r1  r2 = r2  P = P  Q = Q
    Run = {r1, r2}
    Original <- TwoPrograms
    Options <- TwoOptions
    Forced = {}  Unverified = {}  Killed = {r2}
    NumProcs = 2
    CJs <- TwoProcs
    MaxIter <- Tries
    Fails = Fails  Silent = Silent  None = None
INVARIANTS TypeOK OutputVerified SuccessIsTrue BestEffortCompiles
PROPERTY Finishes
CHECK_DEADLOCK FALSE
