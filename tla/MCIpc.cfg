\* Three environments, two values and one slot reused; ids wrap from 2 to 1.
\* One environment sends a value alone, the others values with a page.
SPECIFICATION FairSpec
CONSTANTS
  NENV = 3
  Values = {7, 8}
  Perms = {5}
  Letters <- OneWithout
  Asks = {TRUE}
  GenMod = 3
  StartGen = 2
  MaxForks = 1
PROPERTIES MessagesMeet AwaitedMessageArrives
CHECK_DEADLOCK FALSE
