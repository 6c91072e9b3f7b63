CONSTANTS
  Half = 4
  NumRefs = 4
SPECIFICATION Spec
CHECK_DEADLOCK FALSE
INVARIANTS
  SkipModeAsDefined
  NearestFound
