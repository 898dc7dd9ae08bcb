\* Every sequence of boundary code units: safety and refinement.
CONSTANT Units <- MCUnits
SPECIFICATION Spec
INVARIANTS TypeOK OutIsScalar NoStaleHigh
PROPERTY StreamSpec
