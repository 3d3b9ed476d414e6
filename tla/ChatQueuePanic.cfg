SPECIFICATION Spec
CONSTANTS
  p1 = p1
  p2 = p2
  Producers <- MCProducers
  PopModes <- MCWaitOnly
  Cap = 2
  MaxItems = 2
  MaxChans = 2
INVARIANT PushNeverPanics
CHECK_DEADLOCK FALSE
