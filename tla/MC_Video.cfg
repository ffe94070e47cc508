SPECIFICATION Spec
CONSTANTS
  Clients = {c1, c2}
  Main = Main
  Audio = Audio
  Nobody = Nobody
  Photographers = {c1}
  MaxPhotos = 2
  MaxRestarts = 2
  MaxFails = 1
INVARIANTS
  EncodersSafe
  JoinsEnd
  PhotoAnswered
PROPERTIES
  AudioExposed
CHECK_DEADLOCK FALSE
