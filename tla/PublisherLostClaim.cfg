\* A slow batch and nothing else going wrong.
CONSTANTS
  Events = {1, 2}
  Undecodable = {}
  BatchSize = 2
  MaxOutboxAttempts = 2
  StaleAfter = 1
  DupWindow = 1
  MaxLate = 0
  Replicas = {r1, r2}
  FaultKinds = {}
  MaxFaults = 0
  SlowBatches = TRUE
  MaxAttempts = 2
SPECIFICATION Spec
SYMMETRY ReplicaSymmetry
INVARIANTS
  PendingIsUnheld
