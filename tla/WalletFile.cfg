SPECIFICATION Spec
CONSTANTS
  MaxChanges = 4
  MaxLives = 2
  DiskFills = TRUE
  Missing = Missing
  Torn = Torn
  Free = Free
CHECK_DEADLOCK FALSE
INVARIANTS TypeOK DiskWhole CleanMeansSaved
PROPERTIES HiddenStaysOffDisk ImplementsAtomicFile DeleteEnds
