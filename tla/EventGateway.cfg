SPECIFICATION Spec
CONSTANTS
  news = news
  risk = risk
  final = final
  dart = dart
  post = post
  fda = fda
  Channel = {news, risk, final}
  Event = {dart, post}
  Dep = {fda}
  Required <- MCRequired
  Rank <- MCRank
  Expiry <- MCExpiry
  AsOf <- MCAsOf
  Supersedes <- MCSupersedes
  Handlers <- MCHandlers
  MaxPool = 3
  TTL = 2
  Reentrant = FALSE
  MaxDepth = 2
  MaxId = 4
  MaxTime = 3
  MaxBacklog = 1
  MaxJobs = 1
  Window = 1
  DedupeTTL = 2
INVARIANTS
  ContextsLive
  
  JobsBounded
  NoEarlyRepeat

  
CHECK_DEADLOCK FALSE
