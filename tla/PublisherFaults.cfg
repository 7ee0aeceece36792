\* Fair replicas and clock; a fault of any kind, batches slower than their claims.
CONSTANTS
  Events = {1, 2}
  Undecodable = {2}
  BatchSize = 2
  MaxOutboxAttempts = 2
  StaleAfter = 1
  DupWindow = 1
  MaxLate = 1
  Replicas = {r1, r2}
  FaultKinds = {"crash", "db", "cancel"}
  MaxFaults = 1
  SlowBatches = TRUE
  MaxAttempts = 2
SPECIFICATION FairSpec
INVARIANTS
  TypeOK
  NoLoss
  StatusMatchesAttempts
  AttemptsBounded
PROPERTIES
  ImplementsPromise
  EveryEventResolved
