\* One client that changes the length or re-arms at any time; a FIFO smaller
\* than a burst, so that it can overflow.
CONSTANTS
  Clients = {c1}
  Requests = {9}
  MinLen = 1
  MaxLen = 2
  Margin = 1
  FifoDepth = 2
  MaxTrigs = 2
  c1 = c1
SPECIFICATION Spec
CHECK_DEADLOCK FALSE
INVARIANTS TypeOK CaptureComplete OneReport RearmRecovers
PROPERTIES BufferIsOwn LatchReleased
