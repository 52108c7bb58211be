CONSTANTS
  r1 = r1
  r2 = r2
  r3 = r3
  r4 = r4
  NoRequest = NoRequest
  Requests = {r1, r2, r3, r4}
  Counter <- WellNumbered
  ChannelSize = 2
SPECIFICATION FairSpec
INVARIANTS
  DeliveredInOrder
  OnlyCloseLoses
  NoReadyMessageDeferred
PROPERTIES
  AcceptReturns
  KeepsPromise
CHECK_DEADLOCK FALSE
