SPECIFICATION Spec
CONSTANTS
  a = a
  b = b
  s1 = s1
  Workspaces = {a, b}
  Home = a
  SharedPath = TRUE
  Selectors = {s1}
  EventWindow = 2
  MaxEvents = 3
  MaxApps = 3
  MaxStarts = 2
  MaxCrashes = 0
  MaxFaults = 0
INVARIANT
  KeptAtStop
CHECK_DEADLOCK FALSE
