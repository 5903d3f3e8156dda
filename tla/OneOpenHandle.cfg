SPECIFICATION Spec
CONSTANTS
  Device = {d1, d2}
  Addr = {a1, a2}
  Handle = {h1, h2}
  Format <- MCFormat
  PixelsPerPacket = 2
  MaxPackets = 2
  MaxChunks = 2
  LifoMalloc = TRUE
  NULL = NULL
INVARIANTS
  OneOpenHandle
