SPECIFICATION FairSpec
CONSTANTS
  NCPU = 3
  MaxEntries = 4
INVARIANTS LockSound OwnStack
PROPERTY BootCompletes
