CONSTANTS
  a = a
  b = b
  Names = {a, b}
  Selected <- SomeSelected
  MaxDepth = 2
  MaxErrors = 1
  MaxCleanups = 2
SPECIFICATION Spec
INVARIANTS
  TypeOK
  FailuresExact
  OneResultEach
  CleanupPanicReported
PROPERTY
  CleanedUpInReverse
SYMMETRY Symmetry
CHECK_DEADLOCK FALSE
