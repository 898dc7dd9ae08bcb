\* Is a stream that ends in what might have been a mark converted as UTF-8?
CONSTANT Inputs <- MCInputs
SPECIFICATION Spec
CHECK_DEADLOCK FALSE
INVARIANT UnfinishedMarkIsUtf8
