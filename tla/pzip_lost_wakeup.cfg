CONSTANTS
  Consumers = {c1, c2}
  q_capacity = 2
  PagesIn <- TwoFiles
  Unset = {0, 1}
SPECIFICATION FairSpec
PROPERTIES Terminates
CHECK_DEADLOCK FALSE
