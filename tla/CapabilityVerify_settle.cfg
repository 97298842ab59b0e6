\* A digest edited through outages and restarts, an object deleted and created
\* again under its name, and a long outage.
SPECIFICATION FairSpec
CONSTANTS
  d1 = d1
  d2 = d2
  NULL = NULL
  Digests <- TwoDigests
  BackoffInitial = 15
  BackoffMax = 300
  MaxUid = 2
  MaxGen = 2
  StatusTries = 1
  Budgets <- Lifetimes
INVARIANTS
  VerdictInv
  VerdictIsForThisDigest
PROPERTIES
  VerificationSettles
CHECK_DEADLOCK FALSE
