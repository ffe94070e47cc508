SPECIFICATION Spec
CONSTANTS
  Name = {a, b, c}
  NoName = NoName
  NoFile = NoFile
  RepairDepth = 8
  Capacity = 2
  DelMin = 0
  DelMax = 1
  Quota = 30
  MaxSize = 1
  MaxCrash = 1
INVARIANTS
  IndexSound
  DifferencesExplained
PROPERTIES
  LiveFileSafe
SYMMETRY NameSymmetry
CHECK_DEADLOCK FALSE
