CONSTANTS
  Procs = {p1, p2}
  NInode = 4
  NBlock = 2
  MaxBlocks = 1
  Names = {etc, rc}
  Paths <- PathsValue
  Images <- ImagesValue
  MaxCalls = 3
  Crashes = TRUE
  Nobody = Nobody
  etc = etc
  rc = rc
SPECIFICATION Spec
SYMMETRY Symmetry
INVARIANTS FsInv DurableConsistent OnlyRacedIsKept NoPanic OnlyParentDeadlock
