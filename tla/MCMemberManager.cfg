SPECIFICATION Spec
CONSTANTS
  p1 = p1
  Peers = {p1}
  Adders = {"auth", "sync"}
  FlapThreshold = 2
  MaxExtensions = 1
  MaxEvents = 1
  MaxDrift = 1
INVARIANTS
  NeverOvercounts
  GraceCovered
PROPERTIES
  LeftStaysOut
