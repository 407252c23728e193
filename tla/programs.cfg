CONSTANTS
  NUL = nul
  FF = xff
  a = a
  b = b
  Inputs <- MCInputs
  PageSize = 2
  NoPage = nopage
  NumProcs = 2
  FirstSize = 2
  NULL = null
  bin = bin
  usr = usr
  opt = opt
  Bin = bin
  Lines <- MCLines
  Installed <- MCInstalled
  MaxChildren = 3
  MaxDirs = 3
  Requests = {1, 3, 8, 46, 60, 62, 63}
  Header = 2
  UINT = 64
  Chunk = 4
  Page = 2
  Heap = 2
  Limit = 12
  total_tickets = 30
SPECIFICATION Spec
INVARIANTS ZipInv WishInv UmallocInv RandInv
PROPERTY LineEnds
CHECK_DEADLOCK FALSE
