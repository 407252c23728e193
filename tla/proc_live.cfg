CONSTANTS
  NPROC = 3
  NCPU = 2
  MaxPid = 3
  Pages = 4
  KillPids = {2}
  MaxSleep = 1
SPECIFICATION FairSpec
INVARIANT TypeOK
PROPERTIES CallsEnd OrphansReaped
