CONSTANTS
  MaxTag = 3
  MaxIn = 2
  MaxOut = 2
  Kinds = {"status", "in", "out", "bad"}
  Events = {"reset", "misc", "disconnect", "ep0"}
  MaxEvents = 2
  Quiet = TRUE
SPECIFICATION Spec
INVARIANT NoPacketStranded
CHECK_DEADLOCK FALSE
