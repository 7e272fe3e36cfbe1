SPECIFICATION Spec
CONSTANTS
  Ops = {o1, o2}
  Blocks = {b1, b2}
  NoBlock = NoBlock
  Vals = {0, 1}
  MAXOPBLOCKS = 3
  LOGSIZE = 6
  NLog = 6
  OpBlocks = 1
  Recyclable = {b1, b2}
  CrashInstall = TRUE
INVARIANT RecycleSafe
