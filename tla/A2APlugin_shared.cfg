\* Two nodes of one template.
SPECIFICATION Spec
CONSTANTS
  n1 = n1
  n2 = n2
  p1 = p1
  p2 = p2
  NULL = NULL
  Nodes = {n1, n2}
  Plugins = {p1, p2}
  KeyOf <- OneTemplate
  Scenes <- Undisturbed
  MaxTasks = 2
  Candidates = 1
  MaxPollErrors = 2
INVARIANTS
  ResultIsOwn
CHECK_DEADLOCK FALSE
