SPECIFICATION CSpec
CONSTANTS
    Main = "main"
    None = None
    Programs <- MCPrograms
    MAX_INCLUDE_PATHS = 1
    MAX_PROCS = 2
    MaxArgs = 4
    MaxRuns = 2
INVARIANTS SlotsPartitioned AcceptsWellFormed ExitTellsOutput LineTableExact
PROPERTIES CodOnlyOfWellFormed
CHECK_DEADLOCK FALSE
