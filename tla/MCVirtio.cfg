SPECIFICATION Spec
CONSTANTS
  Procs = {p1, p2, p3}
  NoProc = NoProc
  NUM = 6
  U16 = 12
SYMMETRY Perms
INVARIANTS DoneBeforeReturn NoLostWakeup RingsSound
