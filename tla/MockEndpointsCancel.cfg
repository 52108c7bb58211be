CONSTANTS
  Requests = {r1, r2}
  Endpoints = {e1}
  QueueSize = 1
  NoRequest = NoRequest
  NoEndpoint = NoEndpoint
SPECIFICATION Spec
INVARIANT CloseCancels
CHECK_DEADLOCK FALSE
