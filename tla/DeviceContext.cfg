SPECIFICATION ExposedSpec
CONSTANTS
  Device = {d1, d2}
  Addr = {a1, a2, a3}
  Handle = {h1, h2}
  Format <- MCFormat
  PixelsPerPacket = 2
  MaxPackets = 2
  MaxChunks = 2
  LifoMalloc = FALSE
  NULL = NULL
INVARIANTS
  TypeOK
  MemorySound
  HandleSound
  SerialSound
  FrameSound
PROPERTIES
  CallShrinks
  CallReturns
