CONSTANTS
  PortUsers = {"nobody"}
  Services = {"up"}
  MaxTests = 1
  MaxCommands = 0
SPECIFICATION Spec
INVARIANT
  WaitsForListener
CHECK_DEADLOCK FALSE
