SPECIFICATION StoresSpec
CONSTANTS
  s1 = s1
  s2 = s2
  c1 = c1
  c2 = c2
  n1 = n1
  k1 = k1
  k2 = k2
  short = short
  none = none
  a1 = a1
  a2 = a2
  p1 = p1
  p2 = p2
  lab = lab
  res = res
  Session = {s1, s2}
  MaxBroken = 1
  Cookie = {c1, c2}
  OnSite = {c1}
  Name = {n1}
  Key = {k1, k2}
  ShortKey = short
  NoKey = none
  MaxFaults = 1
  Account = {a1, a2}
  GlobMatches <- NoOverlap
  MaxVersion = 3
  MaxSecond = 3
  MaxCrashes = 2
  ProxySession = {p1, p2}
  Label = {lab}
  Tier = {res}
  DefaultTier = res
  NoName = none
  Threshold = 1
  MaxProxies = 3
  MaxFailing = 1
SYMMETRY Same
INVARIANT StoresTypeOK
INVARIANT CleanedStaysOut
INVARIANT ReportedIsRecoverable
PROPERTY OnlyDamageLiftsQuarantine
PROPERTY RotationKeepsCookies
PROPERTY OthersKeepTheirProxy
CHECK_DEADLOCK FALSE
