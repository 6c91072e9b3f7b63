\* Units of 8 cells, superblocks of 8 and of 16; the frames of MCFrames, each
\* with its bound on the partitions that are not the plainest.
SPECIFICATION Spec
CONSTANTS
  UnitMi = 8
  Frames <- MCFrames
INVARIANTS
  EveryCellOnce
  ContextsOfTile
  ReadsDecoded
  StrengthsRead
  StopWithinRow
