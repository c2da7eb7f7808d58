SPECIFICATION FairSpec
CONSTANTS
  MaxMsgs = 3
  MaxSize = 2
  MaxAttempts = 2
  BatchSize = 2
  m1 = m1
  c1 = c1
  c2 = c2
  o1 = o1
  h1 = h1
  h2 = h2
  nil = nil
  Calls = {m1}
  Critical = {c1, c2}
  Others = {o1}
  Handlers = {h1, h2}
  RequireAll = FALSE
  AckRetries = 1
  NoCall = nil
INVARIANTS
  SentOnce
  TriesBounded
  LossHasCause
  DoneMeansComplete
PROPERTIES
  FatesAreFinal
  QueueDrains
  ResultIsEarned
  AckCallsReturn
CHECK_DEADLOCK FALSE
