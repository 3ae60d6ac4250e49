CONSTANTS
  p = p
  q = q
  x = x
  y = y
  z = z
  a = a
  b = b
  Process = {p}
  Slot = {x, y}
  Account = {a, b}
  None = None
  TTL = 1
  Horizon = 2
SPECIFICATION FairSpec
INVARIANTS Coalesced
PROPERTIES KeepsContract CallsReturn
CHECK_DEADLOCK FALSE
