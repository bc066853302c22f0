SPECIFICATION Spec
CONSTANTS
  b1 = b1
  b2 = b2
  Bundle <- MCBundle
  Base = Base
  Absent = Absent
  Empty = Empty
  Torn = Torn
  OptionalSets <- MCOptionalSets
  MaxVersion = 3
  MaxDeploys = 2
  MaxFaults = 1
SYMMETRY Symmetry
CHECK_DEADLOCK FALSE
INVARIANTS
  OnlyVettedServed
  ActiveVersionOnDisk
  DeployedBundleServed
  RollbackRestores
PROPERTY RegistrySpec
