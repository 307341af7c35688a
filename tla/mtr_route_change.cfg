\* The route gets longer between two cycles.
SPECIFICATION Spec
CONSTANTS
  Rtts <- TwoTimes
  Remotes <- OneRemote
  MaxHop = 2
  Count = 2
  Ms = 1
INVARIANTS
  DestinationReachedIsFound
