SPECIFICATION FairSpec
CONSTANTS
  MaxConns = 2
  Enders = {1}
INVARIANTS ClosedOnce HolderNeverWaits
PROPERTIES ManagerEndsWithConnection CancelledLoopEnds
CHECK_DEADLOCK FALSE
