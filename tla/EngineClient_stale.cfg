SPECIFICATION Spec
CONSTANTS
  a = a  b = b  c = c  None = None
  Clients <- TwoClients
  Slots = 1
  MaxProcs = 2
SYMMETRY Alike
CHECK_DEADLOCK FALSE
INVARIANTS
  RetriesOnlyTheDead
