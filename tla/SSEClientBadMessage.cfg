CONSTANTS
  r1 = r1
  r2 = r2
  r3 = r3
  r4 = r4
  NoRequest = NoRequest
  Requests = {r1, r2}
  Counter <- TwoNumbers
  Kind <- SomeMalformed
  ChannelSize = 2
  OutputSize = 2
SPECIFICATION Spec
INVARIANT ReturnedKindsKnown
CHECK_DEADLOCK FALSE
