CONSTANTS
  DMA_MAX = 3
  Timeout = 2
  MaxInit = 3
SPECIFICATION FairSpec
INVARIANTS UsedIsHeld CountIsEnabled UnusedIsQuiet DoneMeansOver
PROPERTY TestReturns
CHECK_DEADLOCK FALSE
