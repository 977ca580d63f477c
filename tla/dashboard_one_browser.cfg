SPECIFICATION DashboardSpec
CONSTANTS
  Task = {t1, t2}
  Profile = {profileA}
  Default = profileA
  MaxMade = 2
  MaxSteps = 0
INVARIANT OneSharedBrowser
CHECK_DEADLOCK FALSE
