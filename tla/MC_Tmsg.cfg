SPECIFICATION FairSpec
CONSTANTS
  Msg = {add, remove}
  NoMsg = NoMsg
  MaxEvents = 3
INVARIANTS
  FifoNoLoss
  HandleOutlivesThreads
PROPERTIES
  QueuedIsTaken
  DeinitReturns
  ChannelSpec
CHECK_DEADLOCK FALSE
