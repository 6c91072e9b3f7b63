CONSTANTS
  Rows = 11
  Asked = 4
SPECIFICATION GridSpec
CHECK_DEADLOCK FALSE
INVARIANTS
  SliceFound
  GridComplete
