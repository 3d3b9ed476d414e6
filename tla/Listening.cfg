SPECIFICATION Spec
CONSTANTS
  Vads = {v1}
  Listeners = {l1}
  ChanCap = 1
  MaxInputs = 2
INVARIANTS ClosedOnce FewStaleFrames
CHECK_DEADLOCK FALSE
