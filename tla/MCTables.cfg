SPECIFICATION MCSpec
CONSTANTS
  NPROC = 3
  CPUS = {x1, x2}
  NoCPU = NoCPU
  MaxPid = 4
  KillPids = {0, 2}
  Faulty = {2, 3}
  Users = {u1, u2, u3}
  NBUF = 2
  LogMax = 2
  Blocks = {k0, x1, x2}
  Block0 = k0
  Values = {v1, v2}
  None = None
SYMMETRY Perms
INVARIANTS TableSound KilledWasAsked BuffersSound
PROPERTIES Transparent
CHECK_DEADLOCK FALSE
