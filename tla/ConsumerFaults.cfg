\* Claim then act beside act then mark: two consumers of one event, two pods.
CONSTANTS
  EventIds = {"e1"}
  Consumers = {"c1", "c2"}
  ClaimFirst = {"c1"}
  Messages <- OneEvent
  Pods = {p1, p2}
  Retention = 1
  Horizon = 1
  LastDay = 2
  PruneBatchSize = 1
  FaultKinds = {"crash", "db", "act"}
  MaxFaults = 1
  Payloads <- SomePayloads
  OutletKnown = {"o1"}
  Services = {"", "pos"}
SPECIFICATION Spec
SYMMETRY PodSymmetry
INVARIANTS
  AppliedAtMostOnce
  ClaimCovers
  SettledIsApplied
  ReadersAgree
  RevokedIsDecided
  OutletsDecide
PROPERTIES
  PruneIsComplete
CHECK_DEADLOCK FALSE
