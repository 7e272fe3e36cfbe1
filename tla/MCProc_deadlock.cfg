SPECIFICATION SpecNoFail
CONSTANTS
  NPROC = 4
  CPUS = {c1, c2}
  NoCPU = NoCPU
  MaxPid = 5
  KillPids = {}
  Faulty = {}
SYMMETRY Perms
INVARIANT NoLockDeadlock
CHECK_DEADLOCK FALSE
CONSTRAINT OneLineOfDescent
