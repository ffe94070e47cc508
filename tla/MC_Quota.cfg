SPECIFICATION FairPass
CONSTANTS
  Capacity = 5
  DelMin = 1
  DelMax = 3
  OffMax = 255
  FreeMod = 4
  MaxAdds = 2
  Quota <- ThirtyEach
INVARIANTS
  PassJustified
PROPERTIES
  MarkReached
CHECK_DEADLOCK FALSE
