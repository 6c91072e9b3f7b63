\* Filter blocks and stripes of 16 pixels, stripes shifted by 2, superblocks
\* of 4 mode-info cells; the frames of MCFrames.
SPECIFICATION Spec
CONSTANTS
  BlockPx = 16
  UnitOffset = 2
  MibSize = 4
  SubpelBits = 14
  Frames <- MCFrames
INVARIANTS
  CdefInputs
  UnitsOnce
  RestorationContext
  TileColumnsInvisible
  FrameFiltered
