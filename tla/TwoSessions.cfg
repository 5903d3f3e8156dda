SPECIFICATION Spec
CONSTANTS
  Session = {s1, s2}
  Size <- MCSize
  DefaultSize = 1
  Frame <- MCFrame
  Late = FALSE
  MaxQueue = 4
  NULL = NULL
PROPERTIES
  OwnAnswer
