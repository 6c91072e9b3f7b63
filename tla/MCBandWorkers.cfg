CONSTANTS
  NWorkers = 3
  Bands = 3
  Cols = 2
  Panics = TRUE
SPECIFICATION Spec
CHECK_DEADLOCK FALSE
INVARIANTS
  BandsExclusive
  NeverUncovered
PROPERTIES
  ContractSpec
  EncodeReturns
