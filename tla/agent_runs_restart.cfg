SPECIFICATION Spec

CONSTANTS
  Runs = {r1}
  Calls = {c1, c2}
  NoRun = NoRun
  NoCall = NoCall
  Events = {"restart", "interrupt", "approveAll", "cancel", "toolError", "denied"}
  MaxWaiting = 1

SYMMETRY CallSymmetry

 
INVARIANT ChatMeansAnswered

\* The system stops: no run is left to start and every call was answered.
CHECK_DEADLOCK FALSE
