SPECIFICATION Spec
CONSTANTS
  Session = {s1}
  Size <- MCSize
  DefaultSize = 1
  Frame <- MCFrame
  Late = TRUE
  MaxQueue = 3
  NULL = NULL
INVARIANTS
  FrameNotTorn
  FrameSizeCurrent
