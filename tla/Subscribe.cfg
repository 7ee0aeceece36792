\* Fleets that start with plain or with queue subscriptions; every fault.
CONSTANTS
  Replicas = {r1, r2}
  SubscribeAttempts = 3
  StreamNamed = TRUE
  MaxFaults <- AnyFault
SPECIFICATION FairSpec
INVARIANTS
  FleetIsAttached
PROPERTIES
  AllAttached
  EventuallyServed
  LoopsEnd
CHECK_DEADLOCK FALSE
