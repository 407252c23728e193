CONSTANTS
  Consumers = {c1, c2, c3}
  q_capacity = 2
  PagesIn <- WithEmpty
  Unset <- Strays
SPECIFICATION FairSpec
INVARIANTS PZipInv 
PROPERTY AllCompressed
CHECK_DEADLOCK FALSE
