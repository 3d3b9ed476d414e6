SPECIFICATION FairSpec
CONSTANTS
  p1 = p1
  p2 = p2
  Producers <- MCProducers
  PopModes <- MCAllModes
  Cap = 2
  MaxItems = 3
  MaxChans = 3
INVARIANTS TypeOK NoAcceptedItemLost
PROPERTIES DeliversInOrder ClearedPopReturns BlockedPushReturns AcceptedItemIsHandled
CHECK_DEADLOCK FALSE
