SPECIFICATION Spec
CONSTANTS
  None = None
  Reqs <- ThreeReqs
  Resets <- NoIds
  Bad <- NoIds
  Slots <- ThreeSlots
  TwoGpus = FALSE
  MemoryShort = TRUE
  MaxTokens <- ThreeAll
  MaxChunks = 2
  MaxFailures = 0
\* the process ends when its client goes away
CHECK_DEADLOCK FALSE
INVARIANTS
  InFlightStay
