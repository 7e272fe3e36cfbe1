SPECIFICATION FairSpec
CONSTANTS
  Procs = {p1, p2}
  NoProc = NoProc
  Bytes = {0, 1}
  PIPESIZE = 2
  UINT = 4
  MaxN = 2
  Victims = {p1}
  BadAddr = TRUE
INVARIANTS PipeInv
PROPERTIES Fifo EofMeansClosed CloseUnblocks
CHECK_DEADLOCK FALSE
