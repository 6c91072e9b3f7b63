CONSTANTS
  Slots = {0, 1}
  NumRefs = 2
  Headers <- MCHeaders
  Sizes = {1, 4}
  MaxSize = 3
  MaxObus = 5
  Conformant = TRUE
SPECIFICATION Spec
CHECK_DEADLOCK FALSE
INVARIANT
  RandomAccess
PROPERTY
  ContractSpec
