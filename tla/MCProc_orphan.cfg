SPECIFICATION FairSpec
CONSTANTS
  NPROC = 3
  CPUS = {c1, c2}
  NoCPU = NoCPU
  MaxPid = 3
  KillPids = {}
  Faulty = {}
PROPERTY OrphansReaped
CHECK_DEADLOCK FALSE
