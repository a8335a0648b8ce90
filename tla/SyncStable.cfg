SPECIFICATION Spec
CONSTANTS
  Tree <- TwoBranches
  Heavy = {}
  Header <- MCHeader
  Genesis = "g"
  NoHeader = NoHeader
  Prev <- MCPrev
  Branch <- MCBranch
  Height <- MCHeight
  Work <- MCWork
  Interface = {i1, i2}
  Nobody = Nobody
  ChunkLen = 3
  Gap = 1
  Stable = TRUE
  MaxDrops = 1
CHECK_DEADLOCK FALSE
INVARIANTS SearchSound TipsApart
PROPERTIES ChainsOnlyGrow SyncedWhenDone
