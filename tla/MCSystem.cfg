SPECIFICATION MCSpec
CONSTANTS
  Procs = {1, 2}
  InitProc = 1
  NPages = 18
  PGSIZE = 2
  NVP = 5
  UintMax = 64
  SbrkArgs <- MCSbrk
  Programs <- MCPrograms
  MaxFails = 2
  MaxCalls = 4
  NSizes = 4
  MetaSizes = {1, 2}
  Unavailables = {0, 1, 2, 3}
  Requests = {0, 4, 5, 16}
  LEAF_SIZE = 4
  HeapMax = 10
  MinCore = 4
  HdrSize = 2
  MallocArgs = {0, 2, 5}
  NP = 6
  NFd = 8
  NPipes = 6
  MaxForkFails = 1
  ShInputs <- MCShInputs
  NshInputs <- MCNshInputs
  PrimesMax = 7
  XargsInputs <- MCXargsInputs
  GREPBUF = 5
  Patterns <- MCPatterns
  GrepInputs <- MCGrepInputs
  DIRSIZ = 2
  NameChars = {2, 3}
  MaxPath = 6
  MemSize = 4
INVARIANTS PagesAccounted CopyRange BuddySound RingSound MeaningKept NothingLeftBehind GrepRight NamesRight
PROPERTIES FailureLeavesImage BuddyRefines UmRefines
CHECK_DEADLOCK FALSE
