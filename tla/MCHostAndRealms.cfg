SPECIFICATION MCSpec
CONSTANTS
  c1 = c1
  c2 = c2
  r1 = r1
  r2 = r2
  a1 = a1
  nil = nil
  d1 = d1
  d2 = d2
  g1 = g1
  g2 = g2
  Callers = {c1, c2}
  Realms = {r1, r2}
  Adders = {a1}
  None = nil
  Conns = {d1, d2}
  Circuits = {d2}
  Goroutines = {g1, g2}
INVARIANTS
  ActiveIsCurrent
  MembersRunWithRealm
  StaysClosed
  PoolHasNoGhosts
  NothingSurvivesClose
  ConnectedBeforeAdvertised
PROPERTIES
  OneRealmAtATime
  CallsReturn
  DisconnectedIsTrue
  DeadLeavePool
  EverythingCloses
  ReservationOpensGate
  GateGivesSignals
CHECK_DEADLOCK FALSE
