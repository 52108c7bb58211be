CONSTANTS
  r1 = r1
  r2 = r2
  r3 = r3
  r4 = r4
  NoRequest = NoRequest
  Requests = {r1, r2, r3, r4}
  Counter <- Numbers
  Kind <- Kinds
  ChannelSize = 1
  OutputSize = 2
SPECIFICATION FairSpec
INVARIANTS
  TypeOK
  SeenInOrder
  OnlyCloseDrops
  IgnoresNextErrorOnly
PROPERTIES
  ReachesTest
  ConsumerEnds
CHECK_DEADLOCK FALSE
