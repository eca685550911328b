\* A restart while kind creates the cluster.
CONSTANTS
  c1 = c1
  c2 = c2
  NoCluster = NoCluster
  Webhook = controller
  Names <- MCNames
  KindName <- MCKindName
  Docker <- MCDocker
  Clusters = {c1}
  Responsible = {c1}
  SubnetMin = 200
  SubnetMax = 200
  Components = {controller}
  Deletable = {}
  Holdable = {}
  Unannotated = {c1}
  Misannotated = {}
  Losable = {}
  MaxLag = 2
  MaxFaults = 0
  MaxCrashes = 1
SPECIFICATION FairSpec
PROPERTIES
  EventuallyRunning
CHECK_DEADLOCK FALSE
