SPECIFICATION Spec
CONSTANTS
  Clients = {c1, c2}
  Main = Main
  folder = folder
  level = level
  admin = admin
  guest = guest
  low = low
  high = high
  Keys = {folder, level}
  SetKeys = {level}
  Vals = {low, high}
  Users = {admin, guest}
  Nums = {2}
  Factory <- MCFactory
  Free = Free
  NoKey = NoKey
  Missing = Missing
  Torn = Torn
  NoOp = NoOp
  MaxCalls = 2
  MaxBoots = 1
  MaxFails = 1
INVARIANTS
  LockDiscipline
  StringsStayLive
  KeepsConfiguration
  FileFollows
  UserCount
CHECK_DEADLOCK FALSE
