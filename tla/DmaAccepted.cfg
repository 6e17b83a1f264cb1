\* No client: the trigger logic, the DMA and the dmadata thread alone.
CONSTANTS
  Clients = {}
  Requests = {0}
  MinLen = 1
  MaxLen = 2
  Margin = 1
  FifoDepth = 4
  MaxTrigs = 2
SPECIFICATION Spec
CHECK_DEADLOCK FALSE
INVARIANTS AcceptedIsCaptured
