SPECIFICATION MCSpec
CONSTANTS
  Harts = {"h0", "h1"}
  BootHart = "h0"
  Threads = {"t1", "t2"}
  MaxTraps = 3
  TICKS = 4
  Sleepers = {1, 2}
  SleepArgs <- MCSleepArgs
  ClockHarts = {0, 1}
  MaxFires = 5
  INPUT_BUF = 2
  UINT = 4
  Readers = {"r1", "r2"}
  ReadSizes = {2}
  Writers = {"w1"}
  Cpus = {"h0", "h1"}
  Keys = {"x", "nl", "eof", "bs", "kill", "dump"}
  FIFO = 1
  MaxKeys = 5
  MaxReads = 2
  Ops = {"o1", "o2"}
  Blocks = {"b1", "b2", "b3", "b4"}
  NoBlock = "none"
  Vals = {0, 1}
  MAXOPBLOCKS = 2
  LOGSIZE = 4
  NLog = 4
  OpBlocks = 1
  Recyclable = {"b1", "b2", "b3", "b4"}
  CrashInstall = FALSE
INVARIANTS LocksExclude HartFitsThread SleepsExactly InputDelivered LogSound
PROPERTIES ConsRefines
CHECK_DEADLOCK FALSE
