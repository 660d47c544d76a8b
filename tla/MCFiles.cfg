SPECIFICATION Spec
CONSTANTS
  u1 = u1
  u2 = u2
  u3 = u3
  NmProcs = {u1, u2}
  NmInodes = {1, 2, 3, 4}
  NmBlocks = 3
  NmPerBlock = 1
  NmCalls <- MCCalls
  NmMaxCalls = 4
  FtProcs = {u1, u2}
  NR_OPEN = 2
  NR_FILE = 2
  PipeBuf = 3
  PipeAsk = 2
  PipeBytes = 4
  InProcs = {u1, u2, u3}
  NR_INODE = 2
  INODES_PER_BLOCK = 2
INVARIANTS FilesTypeOK  FileCountsExact PipeDelivers InodesCoherent
CHECK_DEADLOCK FALSE
