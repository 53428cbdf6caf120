\* Three layers, so that a buffer is used again within a forward, and three forwards or chunks in a row.
SPECIFICATION Spec
CONSTANTS
  NLayer = 3
  MaxForwards = 3
  Junk = Junk
INVARIANTS RanksAgree StatesInOrder
CHECK_DEADLOCK FALSE
