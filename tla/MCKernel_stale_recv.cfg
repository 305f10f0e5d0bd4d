SPECIFICATION Spec
CONSTANTS
  bsp = bsp ap1 = ap1
  CPU <- TwoCpus
  BSP = bsp
  NoCpu = NoCpu
  NENV = 3
  NInit = 1
  GenMod = 2
  Calls = {"sched", "fork", "wake", "sleep", "destroy", "ipc", "brkpt"}
  Rules = {"settled", "destroy_once"}
PROPERTY NewEnvNotReceiving
