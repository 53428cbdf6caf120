SPECIFICATION MCSpec
CONSTANTS
  Decoding <- MCDecoding
  Reading = 1
  Prompts <- MCPrompts
  Chunk = 2
  PrefillMin = 2
  MaxWindow = 6
  Hows <- MCHows
  Layers = 2
  Missing = {1}
  MaxPos = 9
  MaxCalls = 3
  MaxFailures = 1
  None = None
  Junk = Junk
  Digits = 3
  Radix = 2
  Threads = 4
  Warp = 2
  FloatRows <- MCRows
  Exps <- MCExps
  FirstHead = 1
  HeadGrowth = 2
  kTopkMax = 2
  Params <- MCParams
  One = 4
  Ratio = 2
  TopBlocks = 2
  Cells = 13
  MaxRows = 6
  Tile = 2
  KeyTile = 3
  Splits = 3
  MinKeys = 2
  Neighbours = {1, 2, 3}
  Scores = {0, 1, 2}
  Experts = {0, 1, 2}
  Used = 2
  WindowRows = 3
  Pass = 2
  Bands <- MCBands
  RowLanes = 16
INVARIANTS StatesRight LogitsRight TopKRight SameOnBothPaths SelectionSeesItsText ContextReadOnce RowsAddUpAlone
PROPERTY EveryCallReturns
CHECK_DEADLOCK FALSE
