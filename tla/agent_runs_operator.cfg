SPECIFICATION FairSpec

CONSTANTS
  Runs = {r1, r2}
  Calls = {c1, c2}
  NoRun = NoRun
  NoCall = NoCall
  Events = {"toolError", "policyReject"}
  MaxWaiting = 1

INVARIANT AwaitingIsActionable
INVARIANT NoStrandedTurn
PROPERTY RequestsServed
PROPERTY RunsSettle

\* The system stops: no run is left to start and every call was answered.
CHECK_DEADLOCK FALSE
