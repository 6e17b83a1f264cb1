\* Triggers at any time, also while the acknowledge is high.
CONSTANTS
  Sources = {"evr"}
  BurstLens = {2}
  TbtWords = 2
  FaWords = 1
  CountMod = 8
  SwClocks = 4
  TrigDuringAck = TRUE
SPECIFICATION FairSpec
INVARIANTS LatchHasReason
PROPERTIES LatchReleased
