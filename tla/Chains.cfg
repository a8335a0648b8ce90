SPECIFICATION Spec
CONSTANTS
  Tree <- Forks
  Heavy = {"b3"}
  MaxChains = 4
  Header <- MCHeader
  Genesis = "g"
  NoHeader = NoHeader
  Prev <- MCPrev
  Branch <- MCBranch
  Height <- MCHeight
  Work <- MCWork
  Chain <- MCChain
  NoChain = NoChain
  ChunkLen = 3
  MaxCrashes = 1
  Cuts = TRUE
  AfterCut = FALSE
CHECK_DEADLOCK FALSE
INVARIANTS
  TypeOK
  ChainsAreBranches
  InstancesKeepTheirHeaders
  BestChainAtKey
  FilesAreChains
PROPERTIES
  CleanStopLosesNoFork
