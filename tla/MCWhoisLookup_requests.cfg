SPECIFICATION FairSpec
CONSTANTS
  lower = lower
  Requests = {r1, r2}
  Queries <- OneDomain
  Domains <- OneDomain
  Name <- MCName
  ResultTTL = 1
  FailureTTL = 1
  RefreshAge = 1
  Kinds = {"typed", "plain", "bulk", "graphql", "refresh"}
  NotFound = NotFound
  DbFaults = TRUE
  MaxRequests = 2
  MaxTime = 3
INVARIANT CachedAnswersInTime
INVARIANT RecordsAsSent
PROPERTY FirstSeenPreserved
PROPERTY EveryRequestEnds
