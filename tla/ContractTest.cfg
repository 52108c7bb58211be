CONSTANTS
  Scripts <- ConstScripts
  MaxRequests = 4
SPECIFICATION FairSpec
INVARIANTS
  TypeOK
  ConformingPasses
  CatchesFaults
PROPERTY TestEnds
CHECK_DEADLOCK FALSE
