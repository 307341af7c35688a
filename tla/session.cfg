\* Two runs on the same three files, with every configuration.
SPECIFICATION Spec
CONSTANTS
  f1 = f1
  f2 = f2
  f3 = f3
  none = none
  Paths = {f1, f2, f3}
  NoPath = none
  Configs <- AllConfigs
  MaxRun = 2
INVARIANTS
  TypeOK
  NothingLeaks
  OutputsInOrder
  ReportIsStored
  ReportAgreesWithComparison
