SPECIFICATION Spec
CONSTANTS
  u1 = u1
  u2 = u2
  Users <- MCUsers
  Sizes <- MCNoSizes
  MaxSize = 2
  MinSize = 1
  MaxIdle = 2
  ValidateOnBorrow = TRUE
  ValidateOnReturn = TRUE
  MaxCreated = 2
INVARIANT SecondReleaseIsHarmless
CHECK_DEADLOCK FALSE
