\* Two values of each setting, of which one is the same word; a module in the
\* first and the last SFP slot; two lines of NET.CNF.
CONSTANTS
  Fitted = {0, 5}
  MaxLines = 2
  KxVals = {k1, Zero}
  KyVals = {k2}
  Zero = Zero
  Erased = Erased
  Any = Any
  PlReset = PlReset
  k1 = k1
  k2 = k2
SPECIFICATION Spec
CHECK_DEADLOCK FALSE
INVARIANTS TypeOK OwnDevice NoStrayTransfer SettingsRestored ConfigAsWritten CardSettled
PROPERTIES SavedUnlessSwept StartEnds SaveEnds
