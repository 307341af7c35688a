\* Two cycles over three hops, through the engine; the route may change once.
SPECIFICATION NetSpec
CONSTANTS
  Rtts <- OneTime
  Remotes <- Addresses
  Routers <- ThreeRouters
  Target = "target"
  MaxHop = 3
  Count = 2
  Ms = 1
  MaxRouteChanges = 1
  SeqMod = 8
  TimeoutMs = 1
  TicksPerMs = 1
  SockCap = 1
INVARIANTS
  TableShowsRoute
  SweepAccounting
  TableIsTheSweep
  ObservedCyclesIsCount
PROPERTIES
  ImplementsMtr
