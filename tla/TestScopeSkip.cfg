CONSTANTS
  a = a
  b = b
  Names = {a, b}
  Selected <- SomeSelected
  MaxDepth = 1
  MaxErrors = 1
  MaxCleanups = 1
SPECIFICATION Spec
PROPERTY
  DeferredAreCalled
SYMMETRY Symmetry
CHECK_DEADLOCK FALSE
