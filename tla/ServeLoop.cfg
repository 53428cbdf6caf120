SPECIFICATION FairSpec
CONSTANTS
  None = None
  Reqs <- ThreeReqs
  Resets <- OneReset
  Bad <- NoIds
  Slots <- ThreeSlots
  TwoGpus = TRUE
  MemoryShort = FALSE
  MaxTokens <- LongFirst
  MaxChunks = 2
  MaxFailures = 1
\* the process ends when its client goes away
CHECK_DEADLOCK FALSE
INVARIANTS
  EngineShared AnsweredOnce
PROPERTIES
  EveryRequestAnswered
