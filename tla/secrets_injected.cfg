SPECIFICATION FairSpec
CONSTANTS
  k1 = k1
  k2 = k2
  p1 = p1
  NoKey = NoKey
  NoPath = NoPath
  Containers = {"app", "sidecar"}
  Variables = {"a", "b", "d"}
  Keys = {k1, k2}
  Paths = {p1}
  Pods <- VariousPods
  MaxVersion = 2
  MaxFailures = 2
INVARIANTS TypeOK OwnSecrets OneVersion
PROPERTY ApplicationsStart
