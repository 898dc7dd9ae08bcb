\* A view and a copy of it, two iterators begun, copied, incremented and dropped in any order,
\* until an assertion fails.
CONSTANTS
  v1 = v1
  v2 = v2
  Views <- MCViews
  i1 = i1
  i2 = i2
  Iterators <- MCIterators
  Sources <- MCSources
SPECIFICATION FairSpec
CHECK_DEADLOCK FALSE
INVARIANTS TypeOK OverflowsInBytesOnly NeverEmpty SameAsByHand ViewKnows
PROPERTIES LazySpec LoopsEnd
