SPECIFICATION FairSpec
CONSTANTS
  c1 = c1
  c2 = c2
  r1 = r1
  r2 = r2
  a1 = a1
  nil = nil
  Callers = {c1, c2}
  Realms = {r1, r2}
  Adders = {a1}
  None = nil
PROPERTIES
  JoinedRealmRuns
CHECK_DEADLOCK FALSE
