SPECIFICATION Spec
CONSTANTS
  FlashSize = 5
  ReadPayload = 2
  WritePayload = 3
  MaxBatch = 2
  Offset <- MCOffset
  Length <- MCLength
  Byte <- MCByte
  Empty = 5
  Data <- MCData
  MaxQueue = 2
INVARIANTS
  TypeOK
  ReadExact
  WriteComplete
  WrittenInOrder
PROPERTIES
  CallShrinks
  CallReturns
