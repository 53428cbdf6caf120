SPECIFICATION Spec
CONSTANTS
  Slots = {1, 2}
  Stages <- MCStages
  GroupStages = {1}
  W = 2
  MaxWindow = 3
  LongCtx = 7
  ShortCtx = 3
  MaxCtx <- MCMaxCtx
  MaxTurns <- MCMaxTurns
  MaxDraft = 1
  Prompts <- MCPrompts
  Resumable = {1}
  MaxCheckpoints = 2
  MaxRewind = 6
  Piped = TRUE
  LaneDraft = 0
CHECK_DEADLOCK FALSE
INVARIANTS
  WindowRowsRight
