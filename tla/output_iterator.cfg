\* Three of the four ways to use an output iterator; the program then stops.
CONSTANTS
  o1 = o1
  o2 = o2
  Objects <- MCObjects
  Programs <- MCPrograms
  Units <- MCUnits
  MaxAssigned = 4
SPECIFICATION Spec
SYMMETRY MCSymmetry
CHECK_DEADLOCK FALSE
INVARIANTS TypeOK HoldsConversion
PROPERTY NothingOverwritten
