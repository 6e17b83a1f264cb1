\* One writing and one reading client; two blocks each, so that there is a
\* first and a last one; one tick of silence, one retry; three transfers, so
\* that one of each client's can follow another.
CONSTANTS
  Writers = {w1}
  Readers = {r1}
  NBlocks = 2
  NOld = 2
  Timeout = 1
  MaxRetries = 1
  BlkMod = 16
  MaxTimers = 2
  MaxOpens = 3
  None = None
  w1 = w1
  r1 = r1
SPECIFICATION Spec
CHECK_DEADLOCK FALSE
INVARIANTS TypeOK TimerRuns DoneIsStored
PROPERTIES TransferSpec ReaderWhole Released
