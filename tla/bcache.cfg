CONSTANTS
  Procs = {p1, p2}
  NBUF = 2
  Blocks = {1, 2, 3}
  LogBlocks = {1}
  Indirect = {3}
  Values = 2
  MaxPinned = 1
  ReadOK = {TRUE}
  Nobody = Nobody
SPECIFICATION Spec
INVARIANT BcacheInv
PROPERTIES ImplementsStore DiskAnswers LockIsReleased
