CONSTANTS
  NPROC = 3
  NCPU = 1
  MaxPid = 6
  Pages = 3
  KillPids = {}
  MaxSleep = 0
  TicketChoices = {5, 6}
  RandMax = 6
  IntHalf = 7
SPECIFICATION LotteryFairSpec
INVARIANT LotteryInv
PROPERTY LotteryShares
