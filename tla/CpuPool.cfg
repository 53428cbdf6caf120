SPECIFICATION CpuSpec
CONSTANTS
  h1 = h1
  Helpers <- OneHelper
  Main = Main  None = None
  MaxRuns = 7
  Workers = {1}
  NThreads = 2
  Chunkings = {1, 2}
  Rows = 3
  OutRows = 4
  Window = 2
  MaxCalls = 2
  TaskLists <- MCTaskLists
\* the pool is destroyed in the end
CHECK_DEADLOCK FALSE
INVARIANTS
  OneLiveClosure ResultRight
PROPERTIES
  ImplementsBarrier EverythingEnds
