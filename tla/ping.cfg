\* Sessions of up to three probes in every order, and of twenty in three stretches.
SPECIFICATION Spec
CONSTANTS
  Rtts <- ThreeTimes
  Remotes <- OneRemote
  Target = "target"
  Counts <- ShortAndLong
  MaxChanges = 2
INVARIANTS
  TypeOK
  SummaryMatchesRows
  DistributionIsSound
  GradeFollowsResults
  AgreesWithMtr
