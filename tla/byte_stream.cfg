\* One byte transcoder, its stream ended after any byte; the program then stops.
CONSTANT Inputs <- MCInputs
SPECIFICATION Spec
CHECK_DEADLOCK FALSE
INVARIANTS TypeOK StateIsPacked VariantFollowsState SelectsAnnounced ConvertsAsSelected WaitsForMark
PROPERTY SelectionIsFinal
