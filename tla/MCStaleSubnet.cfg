\* Two resources, two subnets.
CONSTANTS
  c1 = c1
  c2 = c2
  NoCluster = NoCluster
  Webhook = controller
  Names <- MCNames
  KindName <- MCKindName
  Docker <- MCDocker
  Clusters = {c1, c2}
  Responsible = {c1, c2}
  SubnetMin = 200
  SubnetMax = 201
  Components = {controller}
  Deletable = {}
  Holdable = {}
  Unannotated = {c1, c2}
  Misannotated = {}
  Losable = {}
  MaxLag = 4
  MaxFaults = 0
  MaxCrashes = 0
SPECIFICATION Spec
INVARIANTS
  UniqueSubnets
CHECK_DEADLOCK FALSE
