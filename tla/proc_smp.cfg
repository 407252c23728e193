CONSTANTS
  NPROC = 4
  NCPU = 2
  MaxPid = 4
  Pages = 4
  KillPids = {1, 2}
  MaxSleep = 1
SPECIFICATION Spec
INVARIANTS MemoryConserved OnOneCpu ParentAlive NoMissedExit NoLostWakeup
PROPERTIES ImplementsTree
