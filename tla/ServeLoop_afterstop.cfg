SPECIFICATION Spec
CONSTANTS
  None = None
  Reqs <- TwoReqs
  Resets <- NoIds
  Bad <- NoIds
  Slots <- TwoSlots
  TwoGpus = TRUE
  MemoryShort = FALSE
  MaxTokens <- Three
  MaxChunks = 2
  MaxFailures = 0
\* the process ends when its client goes away
CHECK_DEADLOCK FALSE
INVARIANTS
  NothingAfterStop
