SPECIFICATION Spec
CONSTANT Programs <- Short
INVARIANTS InStep Complete
CHECK_DEADLOCK FALSE
