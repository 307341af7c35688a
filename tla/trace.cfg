\* Three hops with two attempts each, both settings of every option.
SPECIFICATION Spec
CONSTANTS
  MaxHop = 3
  TraceAttempts = 2
  SeqMod = 8
INVARIANTS
  TypeOK
  SeqNeverReused
  TtlMatchesSeq
  OmittedHopsTimedOut
  RowsFollowRoute
  CsvFollowsTerminal
