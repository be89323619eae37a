CONSTANTS
  MaxTag = 3
  MaxIn = 1
  MaxOut = 2
  Kinds = {"status", "in", "out", "bad"}
  Events = {"reset", "misc", "disconnect", "ep0"}
  MaxEvents = 2
  Quiet = TRUE
SPECIFICATION FairSpec
INVARIANTS AnswerInOrder CommandIntact NoPacketStranded DmaOfCommand
PROPERTY EveryCommandAnswered
CHECK_DEADLOCK FALSE
