SPECIFICATION FairSpec
CONSTANTS
  w1 = w1
  Waiters = {w1}
  Wanted = 3
  MaxStarts = 2
  GateTimesOut = TRUE
INVARIANTS
  NoLostWakeUp
  LeftBeforeDrain
  CloseReleases
PROPERTIES
  JoinedAfterReady
  StrandedUntilClose
  WaitersReturn
CHECK_DEADLOCK FALSE
