\* The disk is full when the baseline is closed.
SPECIFICATION Spec
CONSTANTS
  f1 = f1
  f2 = f2
  f3 = f3
  none = none
  Paths = {f1, f2, f3}
  NoPath = none
  Configs <- SaveOnly
  MaxRun = 1
INVARIANTS
  SavedBaselineIsStored
