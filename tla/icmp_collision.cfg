\* Another process traces with the same ICMP identifier.
SPECIFICATION Spec
CONSTANTS
  Modes <- TraceOnly
  Ident <- OwnIdent
  ForeignIdents <- Colliding
  SeqMod = 2
  MaxProbe = 1
  TimeoutMs = 1
  TicksPerMs = 1
  SockCap = 1
INVARIANTS
  OtherTracerouteNotAccepted
