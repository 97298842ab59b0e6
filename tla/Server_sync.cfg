\* The page against "stays in sync with the cluster".
SPECIFICATION Spec
CONSTANTS
  Names = {n1}
  Streams = {s1, s2}
  MaxChanges = 2
  MaxFaults = 0
  MaxPolls = 1
INVARIANTS
  StaysInSync
CHECK_DEADLOCK FALSE
