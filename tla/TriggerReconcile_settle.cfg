\* Edits, a moving agent, a Secret that comes and goes, failing requests, deletion.
SPECIFICATION FairSpec
CONSTANTS
  NULL = NULL
  SameNamespace = TRUE
  Worlds <- MCWorlds
  MaxGen = 2
  MaxChanges = 1
  MaxFaults = 1
  MaxDrift = 1
  MaxMishaps = 2
INVARIANTS
  TriggerInv
PROPERTIES
  ConfigurationSettles
  NothingLeftBehind
CHECK_DEADLOCK FALSE
