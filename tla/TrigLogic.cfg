\* A quiet trigger source: no trigger edge while the acknowledge is high.
CONSTANTS
  Sources = {"evr", "soft"}
  BurstLens = {2}
  TbtWords = 3
  FaWords = 2
  CountMod = 3
  SwClocks = 3
  TrigDuringAck = FALSE
SPECIFICATION FairSpec
INVARIANTS TypeOK LatchCoversBurst OneBurstPerPulse
PROPERTIES CycleSpec
