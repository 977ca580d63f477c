SPECIFICATION Spec
CONSTANTS
  x = x
  y = y
  Browser = {x, y}
  Context = {c1, c2, c3, c4, u}
  UserContext = {u}
  Driver = {d1, d2}
  Ways <- MCWays
  Ask <- MCAsk
  MaxOps <- MCMaxOps
  MaxFaults = 2
  None = None
INVARIANT LifecycleInvariant
INVARIANT CloseKnowsItsContext
PROPERTY PoolIsShared
SYMMETRY Symmetry
\* Every instance may have used its calls.
CHECK_DEADLOCK FALSE
