SPECIFICATION Spec
CONSTANTS
  Caller = {c1, c2}
  MaxServers = 2
  MaxRequests = 3
  MaxIssued = 3
  MaxNoise = 1
INVARIANT LinkInvariant
PROPERTY LinkKeepsContract
PROPERTY EveryCallEnds
CHECK_DEADLOCK FALSE
