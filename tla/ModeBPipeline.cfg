SPECIFICATION FairSpec
CONSTANTS
  MaxRuns = 2
  SharedAgent = TRUE
  Reports <- MCReports
CHECK_DEADLOCK FALSE
INVARIANTS
  OnlyOwnPass
  OwnPolicyEvidence
  EvidenceOfOneRun
  FallbackNeverDeployed
  Closed
PROPERTY EveningEnds
