SPECIFICATION Spec
CONSTANTS
  Server = {sa, sb}
  MaxId = 3
  NumServer = 2
  None = None
  User = User
  MaxEvents = 1
CHECK_DEADLOCK FALSE
INVARIANT
  MainIsAlive
