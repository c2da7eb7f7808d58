SPECIFICATION FairSpec
CONSTANTS
  p1 = p1
  Peers = {p1}
  Adders = {"auth"}
  FlapThreshold = 2
  MaxExtensions = 1
  MaxEvents = 1
  MaxDrift = 1
PROPERTIES
  GraceEnds
