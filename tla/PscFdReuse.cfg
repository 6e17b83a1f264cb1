\* Two connections.
CONSTANTS
  Conns = {c1, c2}
  NSlots = 2
  NFds = 3
  None = None
  c1 = c1
  c2 = c2
SPECIFICATION Spec
CHECK_DEADLOCK FALSE
INVARIANTS ClosedUnderHandler
