SPECIFICATION Spec
CONSTANTS
  p1 = p1
  p2 = p2
  Proc = {p1, p2}
  FanOut = 3
  MaxRuns = 3
  MaxFaults = 1
INVARIANTS
  OneInitialiser
PROPERTIES
  SuccessIsComplete
CHECK_DEADLOCK FALSE
