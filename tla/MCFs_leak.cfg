SPECIFICATION MCFsSpec
CONSTANTS
    NINODE = 4
    NInodes = 4
    FileNames = {"a", "b"}
    Procs = {1, 2}
    NOFILE = 1
    MaxNsCalls = 3
    Trees <- MCTrees
    Calls <- MCCalls
    Users = {1, 2}
    NFILE = 3
    NFD = 2
    Pipes = {1}
    MaxChunk = 2
    MaxFileSize = 4
    Sizes = {1, 3}
    MaxFileCalls = 4
    FSSIZE = 14
    BSIZE = 2
    NDIRECT = 1
    LOGSIZE = 1
    NInodeBlocks = 1
    BPB = 12
    MAXOPBLOCKS = 6
    FirstSizes = {0, 3}
    Values = {8, 9}
    MaxBlockCalls = 4
INVARIANT UnlinkedFreed
CHECK_DEADLOCK FALSE
