\* Whatever decides over a request, one part per behaviour.
SPECIFICATION MCSpec
CONSTANTS
  Workflows <- Everything
  Caps = {"k1", "k2"}
  Worlds <- SomeWorlds
  Edits <- SomeEdits
  Injected <- Telemetry
  Runners <- SomeRunners
  Submissions <- SomeSubmissions
  Clients = {c1, c2}
  Sessions <- SomeSessions
  Events = {e1, e2, e3}
  Hourly = {1, 2}
  Concurrent = {0, 2}
  Window = 2
  MaxTime = 4
  MaxEdits = 1
  NULL = NULL
INVARIANTS
  CompiledInv
  CyclesFound
  OnlyFrozenFails
  AdmissionInv
  CatalogueInv
  ApiInv
  LimiterInv
PROPERTIES
  RoundTripKeeps
CHECK_DEADLOCK FALSE
