SPECIFICATION Spec
CONSTANTS
  Requests = {r1}
  HasFallback = TRUE
  SLO = 2
  HeadChunks = 2
  MaxChunks = 3
  NoEntry = NoEntry
INVARIANT OneHead
CHECK_DEADLOCK FALSE
