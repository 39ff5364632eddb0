SPECIFICATION DeadlineSpec
CONSTANTS
  r1 = r1
  Requests = {r1}
  HasFallback = TRUE
  SLO = 2
  HeadChunks = 2
  MaxChunks = 3
  NoEntry = NoEntry
  Operations = 4
INVARIANTS TypeOK LogTellsTruth AnsweredOnRecord NoHastyFailover WaitBound
PROPERTIES ImplementsChain EveryRequestEnds
CHECK_DEADLOCK FALSE
