\* Three cycles over two hops: every order of three results at the first hop.
SPECIFICATION Spec
CONSTANTS
  Rtts <- ThreeTimes
  Remotes <- OneRemote
  MaxHop = 2
  Count = 3
  Ms = 1
INVARIANTS
  TypeOK
  StatusReflectsAnswers
  AveragesBounded
  StatsMatchHistory
