SPECIFICATION Spec
CONSTANTS
  Clients = {c1, c2}
  Video = Video
  Nobody = Nobody
  MaxRestarts = 4
  MaxToggles = 2
  MaxFails = 1
INVARIANTS
  OsdSafe
  ClockKept
PROPERTIES
  RestartReturns
CHECK_DEADLOCK FALSE
