CONSTANTS
  Slots = {0, 1}
  NumRefs = 2
  Headers <- MCAnyOrderHeaders
  Sizes = {1, 3}
  MaxSize = 3
  MaxObus = 5
  Conformant = FALSE
SPECIFICATION Spec
CHECK_DEADLOCK FALSE
INVARIANTS
  PrimaryStillBound
  DecodedOnce
  SecondLookupNotOlder
  OvertakesOne
PROPERTIES
  StopKeepsFrameOut
  DecodeReturns
