\* Edits, deletion, restarts, failing writes, foreign edits, pods coming and going.
SPECIFICATION Spec
SYMMETRY Alike
CONSTANTS
  m = m
  svc = svc
  v1 = v1
  v2 = v2
  NULL = NULL
  Drifted = Drifted
  Workload = Workload
  Deps <- BothDeps
  Unwatched <- Services
  Contents <- Versions
  Specs <- RefSpecs
  MaxGen = 2
  MaxSecret = 0
  StatusTries = 1
  Budgets <- Lifetimes
INVARIANTS
  RestInv
PROPERTIES
  NoResurrection
  Rollout
CHECK_DEADLOCK FALSE
