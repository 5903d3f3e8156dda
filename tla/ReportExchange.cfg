SPECIFICATION Spec
CONSTANTS
  Session = {s1}
  Size <- MCSize
  DefaultSize = 1
  Frame <- MCFrame
  Late = FALSE
  MaxQueue = 4
  NULL = NULL
INVARIANTS
  TypeOK
PROPERTIES
  OwnAnswer
  Implements
