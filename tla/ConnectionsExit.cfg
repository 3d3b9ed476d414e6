SPECIFICATION Spec
CONSTANTS
  MaxConns = 2
  Enders = {2}
INVARIANT ExitEndsTheSession
CHECK_DEADLOCK FALSE
