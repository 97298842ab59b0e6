\* Edits, their undoing, deletion, foreign changes, failing requests, restarts.
SPECIFICATION FairSpec
CONSTANTS
  NULL = NULL
  Specs = {a, b}
  BadSpecs = {bad}
  MaxGen = 3
  MaxFaults = 1
  MaxDrift = 1
INVARIANTS
  WorkflowInv
PROPERTIES
  TemplateRollout
  WorkflowSettles
  NothingLeftBehind
CHECK_DEADLOCK FALSE
