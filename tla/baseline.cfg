\* Two hops and up to two cycles, a file cut off anywhere.
SPECIFICATION Spec
CONSTANTS
  Rtts <- Times
  Remotes <- Routers
  Results <- SixResults
  Blanks = {7}
  MaxHop = 2
  Count = 2
  Tenth = 10
  Ms = 100
INVARIANTS
  TypeOK
  RestoredFaithfully
  OwnBaselineIsQuiet
  ChangesComplete
  DiagnosisIsSound
