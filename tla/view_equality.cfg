\* Are equal iterators, as a forward iterator's must be, at the same element?
CONSTANTS
  v1 = v1
  v2 = v2
  Views <- MCViews
  i1 = i1
  i2 = i2
  Iterators <- MCIterators
  Sources <- MCFewSources
SPECIFICATION Spec
CHECK_DEADLOCK FALSE
INVARIANT EqualIsSameElement
