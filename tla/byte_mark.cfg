\* Does a leading byte order mark always select the encoding?
CONSTANT Inputs <- MCInputs
SPECIFICATION Spec
CHECK_DEADLOCK FALSE
INVARIANT EveryMarkSelects
