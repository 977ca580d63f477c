SPECIFICATION Spec
CONSTANTS
  j1 = j1
  j2 = j2
  j3 = j3
  rec = rec
  site = site
  other = other
  Caller = Caller
  Job = {j1, j2, j3}
  Recurring = {rec}
  Domain = {site, other}
  DomainOf <- MCDomainOf
  PriorityOf <- MCPriorityOf
  IdOf <- MCIdOf
  SpawnedBy <- MCSpawnedBy
  MaxTotal = 2
  Limit <- MCLimit
  MaxRetries = 1
  MaxCrashes = 1
INVARIANT TypeOK
INVARIANT QueueMatchesStatus
INVARIANT SlotsAreCounted
PROPERTY RestartIsFaithful
PROPERTY OutcomeIsFinal
PROPERTY OnlyStaleWakeDrifts
CHECK_DEADLOCK FALSE
