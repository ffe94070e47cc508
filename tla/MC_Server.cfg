SPECIFICATION RpcSpec
CONSTANTS
  c1 = c1
  c2 = c2
  Clients = {c1, c2}
  Plans <- AllBesideAction
  MaxFails = 1
INVARIANTS
  CallsMeant
PROPERTIES
  NobodyWaits
CHECK_DEADLOCK FALSE
