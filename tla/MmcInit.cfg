CONSTANTS
  Addresses = {2, 3}
  Boards <- MCBoards
  OpPolls = 3
  StatusPolls = 1
  ScrRetries = 1
  Checks = 2
  HsRetries = 1
  Faults = 3
  Inits = 2
SPECIFICATION MmcSpec
INVARIANTS BusAgreed ClockWithinCard
PROPERTY InitEnds
CHECK_DEADLOCK FALSE
