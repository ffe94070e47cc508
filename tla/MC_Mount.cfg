SPECIFICATION FairSpec
CONSTANTS
  MaxCards = 1
INVARIANTS
  OneScanThread
  FoldersOutliveThreads
  MountedIsServed
PROPERTIES
  JoinsReturnUnless
CHECK_DEADLOCK FALSE
