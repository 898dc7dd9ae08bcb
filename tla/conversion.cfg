\* The nine transcoders, read back by a decoder of what they write.
CONSTANTS
  Pairs <- MCPairs
  Units <- MCUnits
SPECIFICATION FairSpec
INVARIANTS TypeOK WithinBuffer WholeCodePoints TextPreserved AsTestsExpect StartsAgreeWithDecoding ObserversAgree
PROPERTIES MalformedIsReported EndlessOutput
