\* Two resources compete for one subnet.
CONSTANTS
  c1 = c1
  c2 = c2
  NoCluster = NoCluster
  Webhook = controller
  Names <- MCNames
  KindName <- MCKindName
  Docker <- MCDocker
  Clusters = {c1, c2}
  Responsible = {c1, c2}
  SubnetMin = 255
  SubnetMax = 255
  Components = {controller}
  Deletable = {c1, c2}
  Holdable = {}
  Unannotated = {c1, c2}
  Misannotated = {c1, c2}
  Losable = {}
  MaxLag = 1
  MaxFaults = 0
  MaxCrashes = 0
SPECIFICATION Spec
INVARIANTS
  NeverForgotten
  PoolInNetwork
PROPERTIES
  SharedOnlyByLag
SYMMETRY Symmetry
CHECK_DEADLOCK FALSE
