SPECIFICATION Spec
CONSTANTS
  lower = lower
  Requests = {r1, r2}
  Queries <- OneDomain
  Domains <- OneDomain
  Name <- MCName
  ResultTTL = 2
  FailureTTL = 1
  RefreshAge = 1
  Kinds = {"plain", "graphql"}
  NotFound = NotFound
  DbFaults = FALSE
  MaxRequests = 2
  MaxTime = 4
INVARIANT AnswersHaveContent
