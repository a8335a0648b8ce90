SPECIFICATION Spec
CONSTANTS
  t1 = t1
  t2 = t2
  a1 = a1
  a2 = a2
  Tx = {t1, t2}
  Addr = {a1, a2}
  Late = {a2}
  Involves <- OneEach
  Rivals <- EachOther
  Heirs <- NoHeirs
  Branch = {1, 2}
  Block <- MinedApart
  ForkHeight = 0
  MaxHeight = 1
  None = None
  NotThere = NotThere
  MaxEvents = 3
CHECK_DEADLOCK FALSE
INVARIANTS
  TypeOK
  RootsAreVerified
  VerifiedHeadersHeld
  SettledIsServers
PROPERTY
  EventuallySettled
