\* Two resources, three changes, two failures, refreshes or shutdowns.
SPECIFICATION Spec
CONSTANTS
  Names = {n1, n2}
  Streams = {s1, s2}
  MaxChanges = 3
  MaxFaults = 2
  MaxPolls = 2
INVARIANTS
  PageInv
  RunInv
PROPERTIES
  KeepsCatchingUp
  DrainEnds
  EveryRunEnds
CHECK_DEADLOCK FALSE
