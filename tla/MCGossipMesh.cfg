SPECIFICATION FairSpec
CONSTANTS
  p1 = p1
  p2 = p2
  nobody = nobody
  Peers = {p1, p2}
  D = 1
  Dhi = 1
  Buffer = 1
  NoPeer = nobody
INVARIANTS
  MeshBounded
PROPERTIES
  DisconnectedLeaveMesh
  MeshRecovers
CHECK_DEADLOCK FALSE
