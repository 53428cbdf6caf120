SPECIFICATION Spec
CONSTANTS
  Slots = {1, 2, 3}
  Stages <- MCStages
  GroupStages = {1}
  W = 2
  MaxWindow = 4
  LongCtx = 5
  ShortCtx = 4
  MaxCtx <- MCMaxCtx
  MaxTurns <- MCMaxTurns
  MaxDraft = 1
  Prompts <- MCPrompts
  Resumable = {}
  MaxCheckpoints = 2
  MaxRewind = 2
  Piped = TRUE
  LaneDraft = 0
CHECK_DEADLOCK FALSE
INVARIANTS
  CommitFindsWindow
