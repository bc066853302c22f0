SPECIFICATION Spec
CONSTANTS
  t1 = t1
  t2 = t2
  c1 = c1
  c2 = c2
  Buffer = Buffer
  NoKey = NoKey
  Thread <- MCThread
  Caller <- MCCaller
  Key <- MCKey
  Allocation <- MCAllocation
  DailyLimit = 2
  Overflow = TRUE
  Threshold = 2
  OpenDuration = 1
  MaxDay = 2
INVARIANTS
  BudgetKept
  NothingLeaks
PROPERTIES
  KananaSpec
  GptSpec
