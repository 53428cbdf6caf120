SPECIFICATION Spec
CONSTANTS
  None = None
  NStages = 2
  Slots <- TwoSlots
  Prompts <- MCPrompts
  Reply = 9
  Cuts <- MCCuts
  MaxCk = 2
  Window = 2
  Step = 2
  Baseline = 2
  MaxCtx = 6
  Vram <- TwoStagesVram
  ParkMin = 2
  ForkMin = 1
  ParkLimit = 16
  MaxRequests = 5
  MaxReplies = 1
  MaxPinFailures = 1
CHECK_DEADLOCK FALSE
INVARIANTS
  ConversationsRight PromiseKept RoomKept
PROPERTIES
  InFlightGrows
