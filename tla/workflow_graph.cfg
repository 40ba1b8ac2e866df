SPECIFICATION FairSpec

CONSTANTS
  Graphs <- SmallGraphs
  Ops <- AllOps
  MaxCalls = 2
  MaxTries = 6

INVARIANT TypeOK
INVARIANT OneResultEach
INVARIANT JoinsWait
INVARIANT WaitsCanBeAnswered
INVARIANT ToolRunsOnce
PROPERTY CompletedStays
PROPERTY ExecutorReturns

\* A run that ended, or that nobody answers, is not an error.
CHECK_DEADLOCK FALSE
