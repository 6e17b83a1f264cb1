\* Triggers at any time, also while the acknowledge is high.
CONSTANTS
  Sources = {"evr"}
  BurstLens = {2}
  TbtWords = 3
  FaWords = 2
  CountMod = 4
  SwClocks = 5
  TrigDuringAck = TRUE
SPECIFICATION Spec
INVARIANTS LatchCoversBurst
