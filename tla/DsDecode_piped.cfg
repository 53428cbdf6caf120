SPECIFICATION Spec
CONSTANTS
  Slots = {1, 2}
  Stages <- MCStages
  GroupStages = {1}
  W = 2
  MaxWindow = 3
  LongCtx = 6
  ShortCtx = 3
  MaxCtx <- MCMaxCtx
  MaxTurns <- MCMaxTurns
  MaxDraft = 1
  Prompts <- MCPrompts
  Resumable = {1}
  MaxCheckpoints = 2
  MaxRewind = 2
  Piped = TRUE
  LaneDraft = 1
CHECK_DEADLOCK FALSE
INVARIANTS
  CommitFindsWindow
