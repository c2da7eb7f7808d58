SPECIFICATION Spec
CONSTANTS
  w1 = w1
  Waiters = {}
  Wanted = 3
  MaxStarts = 2
  GateTimesOut = TRUE
INVARIANTS
  Restartable
CHECK_DEADLOCK FALSE
