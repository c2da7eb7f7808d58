SPECIFICATION FairSpec
CONSTANTS
  p1 = p1
  p2 = p2
  nobody = nobody
  Peers = {p1, p2}
  D = 1
  Dhi = 1
  Buffer = 1
  NoPeer = nobody
PROPERTIES
  StopReturns
CHECK_DEADLOCK FALSE
