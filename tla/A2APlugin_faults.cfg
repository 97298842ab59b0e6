\* Failures and retries, restarts beside a second node, a shared ConfigMap.
SPECIFICATION FairSpec
CONSTANTS
  n1 = n1
  n2 = n2
  p1 = p1
  p2 = p2
  NULL = NULL
  Nodes = {n1, n2}
  Plugins = {p1, p2}
  KeyOf <- TwoTemplates
  Scenes <- Usual
  MaxTasks = 5
  Candidates = 2
  MaxPollErrors = 2
INVARIANTS
  StoreInv
  ResultIsOwn
  OrphansArePaidFor
PROPERTIES
  NodesSettle
CHECK_DEADLOCK FALSE
