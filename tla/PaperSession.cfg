SPECIFICATION FairSpec
CONSTANTS
  s1 = s1
  s2 = s2
  Session <- MCSession
  NoSession = NoSession
  Cycles = 2
  MaxOrders = 1
  Required = TRUE
CHECK_DEADLOCK FALSE
INVARIANTS
  OneWorker
  
  StopHonoured
  CountersMatchBroker
PROPERTIES
  
  SessionEnds
