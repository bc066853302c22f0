SPECIFICATION Spec
CONSTANTS
  Ticker = {t1, t2}
  MaxCycles = 4
  Cooldown = 2
  MinHolding = 3
  MaxOrders = 1
  MaxQty = 1
  MaxReadErrors = 1
  Wanted = 2
  Limit = 2
SYMMETRY Symmetry
INVARIANTS
  SkipsBounded
  PassMeansVerified
  KillStopsNext
PROPERTIES
  AccountSpec
  CooldownKept
  MinHoldingKept
