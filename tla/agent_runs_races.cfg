SPECIFICATION Spec

CONSTANTS
  Runs = {r1}
  Calls = {c1, c2}
  NoRun = NoRun
  NoCall = NoCall
  Events = {"cancel", "approveAll", "policyReject", "disconnect"}
  MaxWaiting = 1

SYMMETRY CallSymmetry

INVARIANT TypeOK
INVARIANT AtMostOnce
INVARIANT DeniedNeverRuns
INVARIANT ResumedOnce
PROPERTY ImplementsLedger

\* The system stops: no run is left to start and every call was answered.
CHECK_DEADLOCK FALSE
