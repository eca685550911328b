\* A failure anywhere, a kind cluster that vanishes.
CONSTANTS
  c1 = c1
  c2 = c2
  NoCluster = NoCluster
  Webhook = controller
  Names <- MCNames
  KindName <- MCKindName
  Docker <- MCDocker
  Clusters = {c1, c2}
  Responsible = {c1}
  SubnetMin = 200
  SubnetMax = 200
  Components = {controller}
  Deletable = {c1}
  Holdable = {}
  Unannotated = {c1}
  Misannotated = {c2}
  Losable = {c1}
  MaxLag = 1
  MaxFaults = 1
  MaxCrashes = 0
SPECIFICATION FairSpec
PROPERTIES
  BecomesReady
  DeletionCompletes
  LossRepaired
CHECK_DEADLOCK FALSE
