\* One connection that Pump serves, on a pod without NATS.
CONSTANTS
  Pods = {"a"}
  Connected = {}
  Hubs = {"ha"}
  Home <- OneHome
  SubjectToken <- Tokens
  MaxFaults = 1
  Clients = {"c1"}
  Hub <- OneHub
  Tenant <- TenantOf
  Scopes <- ScopesOf
  Publishers = {"pa"}
  PodOf <- OnePublisher
  Posts <- OnePost
  Buffer = 2
  MaxPosts = 3
  Pumped = {"c1"}
  MaxReplies = 2
SPECIFICATION FairSpec
INVARIANTS
  TypeOK
  WritesInOrder
PROPERTIES
  PumpEnds
  DispatchEnds
CHECK_DEADLOCK FALSE
