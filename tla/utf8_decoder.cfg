\* Every sequence of boundary bytes: safety and refinement.
CONSTANT Bytes <- MCBytes
SPECIFICATION FairSpec
INVARIANTS TypeOK OutIsScalar NothingTruncated PartialValue
PROPERTIES StreamSpec EndlessOutput
