\* A digest edited after the first was verified.
SPECIFICATION Spec
CONSTANTS
  d1 = d1
  d2 = d2
  NULL = NULL
  Digests <- TwoDigests
  BackoffInitial = 15
  BackoffMax = 300
  MaxUid = 1
  MaxGen = 2
  StatusTries = 1
  Budgets <- Calm
INVARIANTS
  DeployedIsVerified
CHECK_DEADLOCK FALSE
