SPECIFICATION Spec
CONSTANTS
  j1 = j1
  j2 = j2
  j3 = j3
  rec = rec
  site = site
  other = other
  Caller = Caller
  Job = {j1, j2, j3}
  Recurring = {}
  Domain = {site}
  DomainOf <- OneDomainOf
  PriorityOf <- MCPriorityOf
  IdOf <- MCIdOf
  SpawnedBy <- OneSpawnedBy
  MaxTotal = 2
  Limit <- OneLimit
  MaxRetries = 1
  MaxCrashes = 0
INVARIANT DomainLimit
CHECK_DEADLOCK FALSE
