\* The instance of Realtime: a post to a tenant whose name changes in the subject.
CONSTANTS
  Pods = {"a", "b"}
  Connected = {"a", "b"}
  Hubs = {"ha", "hb", "hb2"}
  Home <- HomeOf
  SubjectToken <- Tokens
  MaxFaults = 1
  Clients = {"c1", "c2"}
  Hub <- HubOf
  Tenant <- TenantOf
  Scopes <- ScopesOf
  Publishers = {"pa", "pb"}
  PodOf <- PodOfPublisher
  Posts <- SomePosts
  Buffer = 1
  MaxPosts = 2
  Pumped = {}
  MaxReplies = 1
SPECIFICATION Spec
INVARIANT NeverAcrossTenants
CHECK_DEADLOCK FALSE
