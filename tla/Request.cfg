SPECIFICATION Spec
CONSTANTS
  r1 = r1  r2 = r2  r3 = r3  A = A  B = B
  Requests <- MCRequests
  Dialogue <- MCDialogue
  Turn <- MCTurn
  Slots = 1
  MaxTokens <- MCMaxTokens
  MaxConvs = 2
  None = None
INVARIANTS AnswerBounded WaitingExact ConversationsApart
PROPERTIES EveryRequestEnds
CHECK_DEADLOCK FALSE
