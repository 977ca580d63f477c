SPECIFICATION FairSpec
CONSTANTS
  l1 = l1
  l2 = l2
  Unknown = Unknown
  Logger = {l1, l2}
  Capacity = 1
  MaxLines = 2
  Backups = 2
  MaxCalls <- MCMaxCalls
  MaxFaults = 2
INVARIANT LossesAreCounted
INVARIANT ChainHolds
INVARIANT CloseSettles
PROPERTY CloseReturns
CHECK_DEADLOCK FALSE
