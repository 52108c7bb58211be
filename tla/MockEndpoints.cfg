CONSTANTS
  Requests = {r1, r2}
  Endpoints = {e1, e2}
  QueueSize = 1
  NoRequest = NoRequest
  NoEndpoint = NoEndpoint
SPECIFICATION FairSpec
INVARIANTS
  TypeOK
  ReachesItsEndpoint
  LateRequestsRejected
  ServedAreReported
PROPERTY
  NeverWaitsForTest
CHECK_DEADLOCK FALSE
