CONSTANTS
  MaxOrder = 9
  MaxLayers = 6
  MaxAhead = 7
  Parallel = TRUE
SPECIFICATION Spec
CHECK_DEADLOCK FALSE
INVARIANT ThreeClosestKept
