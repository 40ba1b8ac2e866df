SPECIFICATION FairSpec

CONSTANTS
  Callers = {a, b}
  NoCaller = NoCaller
  RestartLimit = 2
  MaxConcurrent = 1
  PipeSize = 1
  MaxRequests = 2
  MaxReplies = 1
  Events = {"cancel", "startFails", "tooLarge", "rpcError", "noise", "lose", "hang", "exit", "health", "close"}

INVARIANT TypeOK
INVARIANT AnswerIsOwn
INVARIANT BoundedStarts
INVARIANT SlotsBalance
INVARIANT QuietInCooldown
PROPERTY CallsReturn

\* The system stops: the manager is closed or MaxRequests is reached.
CHECK_DEADLOCK FALSE
