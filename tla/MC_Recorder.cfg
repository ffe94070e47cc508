SPECIFICATION FairSpec
CONSTANTS
  Clients = {c1, c2}
  Main = main
INVARIANTS
  NoSleepThroughDeinit
  DeinitClosesUnless
PROPERTIES
  StopTakesEffect
  DeinitReturnsUnless
CHECK_DEADLOCK FALSE
