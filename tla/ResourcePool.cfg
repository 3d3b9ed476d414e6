SPECIFICATION FairSpec
CONSTANTS
  u1 = u1
  u2 = u2
  Users <- MCUsers
  Sizes <- MCSizes
  MaxSize = 2
  MinSize = 1
  MaxIdle = 1
  ValidateOnBorrow = TRUE
  ValidateOnReturn = TRUE
  MaxCreated = 3
INVARIANTS TypeOK WithinLimits ExclusiveUse HeldIsAlive NoSlotLost
PROPERTIES AcquireReturns CloseReturns
CHECK_DEADLOCK FALSE
