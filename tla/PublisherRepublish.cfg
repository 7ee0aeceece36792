\* One crash between publish and mark; the claim and the duplicate window are both two minutes.
CONSTANTS
  Events = {1}
  Undecodable = {}
  BatchSize = 2
  MaxOutboxAttempts = 2
  StaleAfter = 2
  DupWindow = 2
  MaxLate = 0
  Replicas = {r1, r2}
  FaultKinds = {"crash"}
  MaxFaults = 1
  SlowBatches = FALSE
  MaxAttempts = 2
SPECIFICATION Spec
SYMMETRY ReplicaSymmetry
INVARIANTS
  StoredAtMostOnce
