SPECIFICATION Spec
CONSTANTS
  t1 = t1
  t2 = t2
  s1 = s1
  s2 = s2
  Task = {t1, t2}
  Site = {s1, s2}
  Account = {own}
  Own = own
  Default <- MCDefault
  Other <- MCOther
  PerHour = 2
  Minute = 1
  Hour = 2
  ToolPerMinute = 1
  ToolCap = 3
  MaxRequests = 3
  MaxActions = 2
  MaxPages = 1
  MaxMinutes = 2
  SiteVariety = 1
  Duration <- MCDuration
  MaxCalls <- MCCalls
  Visits <- MCVisits
  MaxUses = 2
INVARIANT WindowsHold
INVARIANT SleepIsNeeded
INVARIANT WarmingOverrunIsBounded
