\* Four probes in a space of two sequence numbers: every number is used twice.
\* The program is scheduled and the clock advances; the network may flood for ever.
SPECIFICATION FairSpec
CONSTANTS
  Modes <- BothModes
  Ident <- OwnIdent
  ForeignIdents <- Others
  SeqMod = 2
  MaxProbe = 4
  TimeoutMs = 2
  TicksPerMs = 2
  SockCap = 2
INVARIANTS
  AnswerIsOwn
PROPERTIES
  NoOwnAnswerDiscarded
  EveryWaitEnds
