CONSTANTS
  MaxConns = 2
  MaxData = 3
  MaxBreaks = 1
  ChannelSize = 2
SPECIFICATION FairSpec
INVARIANTS
  TypeOK
  ReceivedIsPrefix
  EndsAfterAll
PROPERTIES
  SentArrives
  HandlerEnds
  SendReturns
  KeepsPromise
CHECK_DEADLOCK FALSE
