\* Two pods move to queue subscriptions at the same time.
CONSTANTS
  Replicas = {r1, r2}
  SubscribeAttempts = 2
  StreamNamed = TRUE
  MaxFaults <- RaceFaults
SPECIFICATION Spec
INVARIANTS
  ActiveIsAttached
CHECK_DEADLOCK FALSE
