SPECIFICATION FairSpec

CONSTANTS
  Requests <- TwoRequests
  r1 = r1
  r2 = r2
  MaxStarts = 2
  MaxCalls = 1
  Window = 1
  Outcomes <- LockedOutcomes
  Ops <- LockedOps

INVARIANT TypeOK
INVARIANT OneExecution
INVARIANT CancelReaches
PROPERTY EndedStaysEnded
PROPERTY RequestsReturn

CHECK_DEADLOCK FALSE
