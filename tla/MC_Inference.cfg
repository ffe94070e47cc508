SPECIFICATION Spec
CONSTANTS
  Npu = Npu
  Nobody = Nobody
  MaxFrames = 4
  MaxRestarts = 1
  MaxFails = 1
INVARIANTS
  NetworkSafe
PROPERTIES
  FrameSlotSpec
  ExitStopsVideo
CHECK_DEADLOCK FALSE
