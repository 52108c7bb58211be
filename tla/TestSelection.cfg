CONSTANTS
  a = a
  b = b
  Names = {a, b}
  Patterns <- ShortPatterns
  MaxPatterns = 2
  MaxDepth = 3
SPECIFICATION Spec
INVARIANTS
  ChosenAreReached
  OthersAreNot
CHECK_DEADLOCK FALSE
