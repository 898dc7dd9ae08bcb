\* Does partial() or end_cp tell of a stream that ends within a code unit?
CONSTANT Inputs <- MCInputs
SPECIFICATION Spec
CHECK_DEADLOCK FALSE
PROPERTY CutUnitIsNoticed
