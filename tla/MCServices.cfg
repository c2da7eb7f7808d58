SPECIFICATION MCSpec
CONSTANTS
  c1 = c1
  c2 = c2
  c3 = c3
  p1 = p1
  p2 = p2
  Conns = {c1, c2, c3}
  Peers = {p1, p2}
  System = System
  Transient = Transient
  NoPeer = NoPeer
  Limit <- MCLimit
  MaxRacing = 2
  s1 = s1
  s2 = s2
  e1 = e1
  e2 = e2
  n1 = n1
  n2 = n2
  n3 = n3
  Subs = {s1, s2}
  Emitters = {e1, e2}
  Stateful = {e1}
  Nodes = {n1, n2, n3}
  Capacity <- Rooms
  MaxEvents = 2
  Nobody = Nobody
  NoNode = NoNode
SYMMETRY Symmetry
INVARIANTS
  Accounting
  BoundedOvershoot
  InOrder
  NodeNeeded
  LockChainsEnd
PROPERTIES
  EmitReachesAll
