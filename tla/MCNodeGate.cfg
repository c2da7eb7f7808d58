SPECIFICATION Spec
CONSTANTS
  w1 = w1
  Waiters = {}
  Wanted = 3
  MaxStarts = 1
  GateTimesOut = FALSE
INVARIANTS
  PublishedAfterGate
CHECK_DEADLOCK FALSE
