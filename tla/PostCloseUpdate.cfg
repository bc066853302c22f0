SPECIFICATION FairSpec
CONSTANTS
  Worker = worker
  tool = tool
  Tool <- MCTool
  DayLength = 3
  Evening = 2
  OpenFor = 2
  RetryAfter = 1
  MaxClock = 7
  MaxRuns = 3
  MaxKills = 1
PROPERTIES
  LedgerSpec
  RepeatNeedsOperator
  CatchesUp
CHECK_DEADLOCK FALSE
