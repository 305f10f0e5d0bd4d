\* A message with a page, then one without.
SPECIFICATION Spec
CONSTANTS
  NENV = 2
  Values = {7, 8}
  Perms = {5}
  Letters <- Both
  Asks = {TRUE}
  GenMod = 3
  StartGen = 2
  MaxForks = 0
INVARIANT PermTellsPage
CHECK_DEADLOCK FALSE
