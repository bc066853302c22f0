SPECIFICATION Spec
CONSTANTS
  b1 = b1
  b2 = b2
  Bundle <- MCBundle
  Base = Base
  Absent = Absent
  Empty = Empty
  Torn = Torn
  OptionalSets <- MCOptionalSets
  MaxVersion = 3
  MaxDeploys = 1
  MaxFaults = 0
CHECK_DEADLOCK FALSE
INVARIANT RollbackKeepsWhatExisted
