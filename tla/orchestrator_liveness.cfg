SPECIFICATION FairSpec
CONSTANTS
  j1 = j1
  j2 = j2
  j3 = j3
  rec = rec
  site = site
  other = other
  Caller = Caller
  Job = {j1, j2}
  Recurring = {}
  Domain = {site}
  DomainOf <- OneDomainOf
  PriorityOf <- MCPriorityOf
  IdOf <- MCIdOf
  SpawnedBy <- OneSpawnedBy
  MaxTotal = 2
  Limit <- OneLimit
  MaxRetries = 2
  MaxCrashes = 0
PROPERTY WaitingJobsProceed
CHECK_DEADLOCK FALSE
