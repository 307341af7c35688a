\* Up to three probes, sequence numbers that never wrap.
SPECIFICATION Spec
CONSTANTS
  Modes <- BothModes
  Ident <- OwnIdent
  ForeignIdents <- Others
  SeqMod = 4
  MaxProbe = 3
  TimeoutMs = 2
  TicksPerMs = 2
  SockCap = 2
INVARIANTS
  TypeOK
  AnswerIsForCurrentProbe
  SelectTimerMeetsDeadline
  RecvNeverBlocks
PROPERTIES
  ImplementsProbeService
