SPECIFICATION Spec
CONSTANTS
  Server = {sa, sb}
  MaxId = 3
  NumServer = 2
  None = None
  User = User
  MaxEvents = 3
CHECK_DEADLOCK FALSE
INVARIANTS
  TypeOK
  NoneLeaks
PROPERTY
  EventuallyConnected
