SPECIFICATION Spec
CONSTANTS
  DeviceCount = 2
  FramesRequired = 2
INVARIANTS
  BarrierOpens
CHECK_DEADLOCK FALSE
