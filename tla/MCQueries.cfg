SPECIFICATION Spec
CONSTANTS
    Main = "M"
    Literals = {"10"}
    Registers = {}
    Texts <- Programs
    Variables = {"va", "vb", "vc"}
    Procedures = {"q1", "q2", "q3", "MAIN"}
    Labels = {"l1", "l2", "l3"}
    Defines = {"e1", "e2"}
INVARIANTS DefinitionFound ReferencesExact UnusedExact TokensExact
