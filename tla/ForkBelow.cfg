SPECIFICATION Spec
CONSTANTS
  Tree <- Forks
  Heavy = {}
  MaxChains = 4
  Header <- MCHeader
  Genesis = "g"
  NoHeader = NoHeader
  Prev <- MCPrev
  Branch <- MCBranch
  Height <- MCHeight
  Work <- MCWork
  Chain <- MCChain
  NoChain = NoChain
  ChunkLen = 3
  MaxCrashes = 0
  Cuts = FALSE
  AfterCut = FALSE
CHECK_DEADLOCK FALSE
INVARIANTS ForkpointAssertion
