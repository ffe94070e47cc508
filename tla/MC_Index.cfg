SPECIFICATION IndexSpec
CONSTANTS
  FileName = {a, b, c, d, e}
  NoFile = NoFile
  MaxTime = 1
  Largest = 1
  MaxCalls = 2
  RepairDepth = 2
INVARIANTS
  WellFormed
PROPERTIES
  RepairMissesOnlyNeighbours
  IsFileSet
SYMMETRY NameSymmetry
CHECK_DEADLOCK FALSE
