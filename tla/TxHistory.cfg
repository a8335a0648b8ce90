SPECIFICATION Spec
CONSTANTS
  p = p
  q = q
  c = c
  a1 = a1
  a2 = a2
  x = x
  p1 = p1
  q1 = q1
  c1 = c1
  Tx = {p, q, c}
  Outpoint = {x, p1, q1, c1}
  Addr = {a1, a2}
  Late = {a2}
  Shown = {a2}
  In <- TxIn
  Source <- CoinSource
  Owner <- CoinOwner
  None = None
  MaxReorgs = 1
  MaxActs = 2
CHECK_DEADLOCK FALSE
INVARIANTS
  TypeOK
  NoConflict
  CoinsAreServers
PROPERTY
  CachedStaysRight
