\* Rolling restarts through Stop, no crash; one replica of each kind.
CONSTANTS
  Events = {1, 2}
  Undecodable = {2}
  BatchSize = 2
  MaxOutboxAttempts = 2
  StaleAfter = 1
  DupWindow = 1
  MaxLate = 0
  Replicas = {r1, r2, r3}
  FaultKinds = {"stop"}
  MaxFaults = 2
  SlowBatches = FALSE
  NATSReplicas = {r2}
  Unconnected = {r3}
SPECIFICATION FairSpec
INVARIANTS
  StopLeavesNoClaim
  StoredAtMostOnce
  ClaimsNeverIntersect
  SnapshotIsCurrent
PROPERTIES
  EveryEventResolved
