SPECIFICATION FairSpec
CONSTANTS
  a = a  b = b  c = c  None = None
  Clients <- TwoClients
  Slots = 1
  MaxProcs = 2
CHECK_DEADLOCK FALSE
INVARIANTS
  OneTurnOneAnswer
PROPERTIES
  CallEnds
