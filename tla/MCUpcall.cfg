SPECIFICATION FairSpec
CONSTANTS
  PGWORDS = 26
  MaxFaults = 4
PROPERTIES ResumesExactly FaultsReturn
CHECK_DEADLOCK FALSE
