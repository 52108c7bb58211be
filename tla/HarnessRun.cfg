CONSTANTS
  PortUsers = {"nobody", "withOK", "withError"}
  Services = {"down", "up", "hung"}
  MaxTests = 2
  MaxCommands = 1
SPECIFICATION FairSpec
INVARIANTS
  TypeOK
  ExitCodeTells
  ServerListens
  NamedAreDeleted
PROPERTY
  RunEnds
CHECK_DEADLOCK FALSE
