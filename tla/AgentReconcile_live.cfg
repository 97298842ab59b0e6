\* Convergence once the disturbances end, whatever a compile ends in.
SPECIFICATION FairSpec
CONSTANTS
  m = m
  svc = svc
  v1 = v1
  v2 = v2
  NULL = NULL
  Drifted = Drifted
  Workload = Workload
  Deps <- BothDeps
  Unwatched <- Services
  Contents <- AnyContents
  Specs <- AnySpecs
  MaxGen = 2
  MaxSecret = 1
  StatusTries = 1
  Budgets <- Recoveries
INVARIANTS
  RestsOnlyWhenReported
  WorkloadCompiled
PROPERTIES
  Convergence
CHECK_DEADLOCK FALSE
