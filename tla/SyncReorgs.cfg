SPECIFICATION Spec
CONSTANTS
  Tree <- ThreeBranches
  Heavy = {"c2"}
  Header <- MCHeader
  Genesis = "g"
  NoHeader = NoHeader
  Prev <- MCPrev
  Branch <- MCBranch
  Height <- MCHeight
  Work <- MCWork
  Interface = {i1, i2}
  Nobody = Nobody
  ChunkLen = 3
  Gap = 0
  Stable = FALSE
  MaxDrops = 1
CHECK_DEADLOCK FALSE
INVARIANT OneSearches
PROPERTY EventuallySynced
