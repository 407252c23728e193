CONSTANTS
  Procs = {p1, p2}
  NFrames = 12
  PG = 2
  KERNBASE = 12
  NPT = 4
  Grows <- GrowsValue
  Texts = {2}
  Addrs <- AddrsValue
  Lens = {1, 2}
  First = p1
SPECIFICATION Spec
INVARIANTS VmInv TlbHonest
PROPERTY ChildIsCopy
CHECK_DEADLOCK FALSE
