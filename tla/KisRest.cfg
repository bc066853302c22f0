SPECIFICATION FairSpec
CONSTANTS
  t1 = t1
  t2 = t2
  o1 = o1
  Thread <- MCThread
  Order <- MCOrder
  Quote = Quote
  Threshold = 2
  OpenDuration = 2
  MaxRetries = 3
INVARIANTS
  DuplicateOnlyIfLost
  ReportedRight
PROPERTIES
  BreakerSpec
  CallsEnd
  Recovers
