SPECIFICATION ServicesSpec
CONSTANTS
  f1 = f1
  f2 = f2
  n1 = n1
  n2 = n2
  p1 = p1
  p2 = p2
  p3 = p3
  known = known
  other = other
  var = var
  none = none
  missing = missing
  t1 = t1
  t2 = t2
  profileA = profileA
  profileB = profileB
  x1 = x1
  x2 = x2
  x3 = x3
  s1 = s1
  s2 = s2
  File = {f1, f2}
  Step <- AllSteps
  Body <- Bodies
  Site = {known, other}
  Known = {known}
  Unset = none
  Variable = var
  Policy <- Policies
  Missing = missing
  MaxNesting = 3
  MaxEdits = 1
  Name = {n1, n2}
  NoName = none
  Address = {p1, p2, p3}
  MaxBrowsers = 3
  MaxTabId = 3
  Task = {t1, t2}
  Profile = {profileA, profileB}
  Default = profileA
  MaxMade = 4
  MaxSteps = 1
  Context = {x1, x2, x3}
  Bound = {s1, s2}
  Nobody = none
  Nothing = none
  user = user
  password = password
  enter = enter
  hidden = hidden
  Field = {user, password}
  Secret = {password}
  NoField = none
  Enter = enter
  Placeholder = hidden
  Windows <- JoinWithin
  MaxEvents = 3
  MaxClock = 2
SYMMETRY Same
INVARIANT ServicesTypeOK
INVARIANT ReplayIsChecked
INVARIANT TabsAreDistinct
INVARIANT AloneNothingIsLost
INVARIANT TablesAgree
INVARIANT NamedSecretsAreHidden
PROPERTY TabKeepsItsId
PROPERTY UnnamedCallsArrive
CHECK_DEADLOCK FALSE
