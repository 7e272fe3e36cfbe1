SPECIFICATION FairSpec
CONSTANTS
  NPROC = 3
  CPUS = {c1, c2}
  NoCPU = NoCPU
  MaxPid = 3
  KillPids = {2}
  Faulty = {3}
PROPERTIES KilledExits WaitReturns
CHECK_DEADLOCK FALSE
