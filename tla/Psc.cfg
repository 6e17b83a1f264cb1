\* Safety: three connections for two slots; descriptors for the listener and
\* for two connections.
CONSTANTS
  Conns = {c1, c2, c3}
  NSlots = 2
  NFds = 3
  None = None
  c1 = c1
  c2 = c2
  c3 = c3
SPECIFICATION Spec
SYMMETRY Symmetry
CHECK_DEADLOCK FALSE
INVARIANTS TypeOK SlotOwned Framed OwnSocket ListenerOpen
