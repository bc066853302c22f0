SPECIFICATION Spec
CONSTANTS
  Ticker = {t1}
  MaxCycles = 1
  Cooldown = 1
  MinHolding = 1
  MaxOrders = 1
  MaxQty = 1
  MaxReadErrors = 1
  Wanted = 1
  Limit = 1
INVARIANT InterruptSubmittedNothing
