\* Does a view of bytes, read up to its end, ever fail an assertion?
CONSTANTS
  v1 = v1
  v2 = v2
  Views <- MCViews
  i1 = i1
  i2 = i2
  Iterators <- MCIterators
  Sources <- MCByteSources
SPECIFICATION Spec
CHECK_DEADLOCK FALSE
INVARIANT NothingFails
