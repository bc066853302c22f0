SPECIFICATION Spec
CONSTANTS
  MaxRuns = 1
  SharedAgent = TRUE
  Reports <- MCReports
CHECK_DEADLOCK FALSE
INVARIANT SkippedRunIsIdle
