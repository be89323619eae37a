CONSTANTS
  Timers = {t1, t2, t3}
  NULL = NULL
  Always = 9
  MaxCounts = {1, 2, 9}
  Intervals = {2}
  RunCap = 2
  Restart = FALSE
SPECIFICATION FairSpec
INVARIANTS ActiveListed OnTime RunsBounded
PROPERTIES FiniteTimersEnd HandleReturns
