SPECIFICATION Spec

CONSTANTS
  Requests <- TwoRequests
  r1 = r1
  r2 = r2
  MaxStarts = 3
  MaxCalls = 2
  Window = 2
  Outcomes <- NestedOutcomes
  Ops <- NestedOps

INVARIANT ParentsKnowTheirChild

CHECK_DEADLOCK FALSE
