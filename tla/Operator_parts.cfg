\* The delivery probe of two replicas, the catalogue's controllers, the verifier.
SPECIFICATION MCSpec
CONSTANTS
  NULL = NULL
  Layers <- SomeLayers
  MaxLayers = 2
  MaxRoot = 2
  Replicas = {r1, r2}
  Deployments <- SomeDeployments
  WriteTries = 3
  Groups <- SomeGroups
  StatusTries = 1
INVARIANTS
  VerifierInv
  ProbeInv
  CatalogInv
PROPERTIES
  RootOutlivesOutage
  StartEnds
  DeletionCompletes
  CatalogSettles
CHECK_DEADLOCK FALSE
