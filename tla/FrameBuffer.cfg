SPECIFICATION Spec
CONSTANTS
  Scans = {0, 1}
  BlankScans = {0}
  Exposure = {0, 10}
  ScanMode = {0, 3}
  FRAME_AVERAGING = 3
  ElementRange = {0, 1}
  FullRange = 1
  Reduction = {0}
  FrameSize <- MCFrameSize
  MaxFrames = 1
  MaxLate = 1
  NULL = NULL
INVARIANTS
  BufferHoldsFrame
