SPECIFICATION FairSpec
CONSTANTS
  e1 = e1
  e2 = e2
  Nobody = Nobody
  Execution = {e1, e2}
  Platform = {"shop"}
  Site = {"shop page"}
  PlatformOf <- MCPlatformOf
  SiteOf <- MCSiteOf
  Kind <- MCKind
  MaxRetries <- MCMaxRetries
  StrategyRetries <- MCStrategyRetries
  Threshold = 2
  Custom <- MCCustom
  Wirings <- MCWirings
  Errors = {"transient", "other"}
  Statuses = {"200", "429"}
INVARIANT RecoveryInvariant
PROPERTY NothingMoreIsTried
PROPERTY KeepsContract
CHECK_DEADLOCK FALSE
