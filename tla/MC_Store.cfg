SPECIFICATION FairSpec
CONSTANTS
  Name = {a, b}
  NoName = NoName
  NoFile = NoFile
  RepairDepth = 8
  Capacity = 2
  DelMin = 0
  DelMax = 1
  Quota = 30
  MaxSize = 2
  MaxCrash = 0
PROPERTIES
  IndexCatchesUp
  
CHECK_DEADLOCK FALSE
