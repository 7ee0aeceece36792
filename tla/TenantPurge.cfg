\* Three tables and their foreign keys; purges side by side.
CONSTANTS
  Replicas = {r1, r2}
  TableOrder <- NameOrder
  TenantTable = 4
  Kept = {5}
  Schemas <- SomeSchemas
  Mailings <- SomeMailings
  MaxPasses = 3
  MaxDeliver = 3
  MaxFaults = 1
SPECIFICATION FairSpec
INVARIANTS
  TypeOK
  AllOrNothing
  PurgedOnOrder
  SettledIsPurged
  GivesUpOnlyIfEntangled
PROPERTIES
  PurgeCompletes
CHECK_DEADLOCK FALSE
