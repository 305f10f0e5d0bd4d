\* Forks, exits, messages and breakpoints on two processors, under fairness.
SPECIFICATION FairSpec
CONSTANTS
  bsp = bsp ap1 = ap1
  CPU <- TwoCpus
  BSP = bsp
  NoCpu = NoCpu
  NENV = 3
  NInit = 2
  GenMod = 2
  Calls = {"sched", "fork", "wake", "sleep", "destroy", "ipc", "brkpt"}
  Rules = {"settled", "destroy_once", "spare_receiver"}
INVARIANTS TypeOK LockExclusive RunsOnOneCpu CurEnvAlive OnSomeCpu ReceiverBlocked FreeListExact MonitorQuiet
PROPERTIES ZombieUntilTrap ZombieFreed RunnableRunsUnlessExits
