CONSTANTS
  Ops = {o1, o2, o3}
  Blocks = {b1, b2, b3}
  NoBlock = NoBlock
  MAXOPBLOCKS = 2
  LOGSIZE = 4
  LogBlocks = 4
  OpBlocks = 1
  MaxContent = 2
  MaxChanges = 4
SPECIFICATION FairSpec
INVARIANTS LogInv NoLogPanic
PROPERTIES ImplementsStore SleeperRetries
