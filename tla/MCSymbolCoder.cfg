CONSTANTS
  Top = 128
  BaseRate = 2
  RBits = 8
  ByteBits = 4
  Window = 20
  ProbShift = 2
  MinProb = 1
  LotsOfBits = 1024
  MaxItems = 6
  Contexts <- MCContexts
SPECIFICATION Spec
CHECK_DEADLOCK FALSE
INVARIANTS
  ContextsLegal
  ReadIsWritten
  RegistersContained
