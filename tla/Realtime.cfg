\* Two publishers, three hubs, a client of each pod; the clients need not read.
CONSTANTS
  Pods = {"a", "b"}
  Connected = {"a", "b"}
  Hubs = {"ha", "hb", "hb2"}
  Home <- HomeOf
  SubjectToken <- Tokens
  MaxFaults = 1
  Clients = {"c1", "c2"}
  Hub <- HubOf
  Tenant <- TenantOf
  Scopes <- ScopesOf
  Publishers = {"pa", "pb"}
  PodOf <- PodOfPublisher
  Posts <- SomePosts
  Buffer = 1
  MaxPosts = 2
  Pumped = {}
  MaxReplies = 1
SPECIFICATION Spec
INVARIANTS
  NoSendOnClosed
  HandlersHear
PROPERTIES
  ImplementsMulticast
CHECK_DEADLOCK FALSE
