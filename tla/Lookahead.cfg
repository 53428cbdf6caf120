SPECIFICATION MCSpec
CONSTANTS
  None = None
  Tokens <- TwoTokens
  Support <- Likely
  kMaxWindow = 4
  MaxDraft = 3
  MaxCtx = 11
  MaxPrompt = 2
  MaxTurns = 2
  Mass = 4
  Vocabulary = {1, 2, 3}
\* the number of requests is bounded
CHECK_DEADLOCK FALSE
INVARIANTS
  StagesInStep AcceptanceExact
PROPERTY DecodesPlainly
