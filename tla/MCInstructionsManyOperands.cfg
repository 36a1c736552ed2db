SPECIFICATION Spec
CONSTANT Programs <- ManyOperands
INVARIANTS InStep
CHECK_DEADLOCK FALSE
