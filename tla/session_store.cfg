SPECIFICATION Spec
CONSTANTS
  a = a
  b = b
  s1 = s1
  Workspaces = {a, b}
  Home = a
  SharedPath = FALSE
  Selectors = {s1}
  EventWindow = 2
  MaxEvents = 4
  MaxApps = 3
  MaxStarts = 2
  MaxCrashes = 1
  MaxFaults = 1
INVARIANTS
  TypeOK
  RecoverableNow
  KeptAtStop
  StreamDelivers
CHECK_DEADLOCK FALSE
