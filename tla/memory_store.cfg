SPECIFICATION Spec
CONSTANTS
  p1 = p1
  p2 = p2
  s1 = s1
  s2 = s2
  f1 = f1
  f2 = f2
  Procs = {p1, p2}
  Items = {s1, s2}
  Walk <- MCWalk
  Before <- MCBefore
  MaxItems = 1
  MaxOffered = 2
  MaxFiles = 1
  MaxEdits = 2
  Bounds <- MCBounds
INVARIANTS
  TypeOK
  FreshEntries
PROPERTIES
  NothingLostAlone
SYMMETRY MCSymmetry
CHECK_DEADLOCK FALSE
