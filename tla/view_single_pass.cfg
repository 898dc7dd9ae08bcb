\* Does a program that reads a range which can be passed over once only read all of it?
CONSTANTS
  v1 = v1
  v2 = v2
  Views <- MCViews
  i1 = i1
  i2 = i2
  Iterators <- MCIterators
  Sources <- MCOnceSources
SPECIFICATION Spec
CHECK_DEADLOCK FALSE
INVARIANT SinglePassIsWhole
