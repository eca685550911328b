\* One resource; failing calls, lost answers, a crash, a foreign finalizer.
CONSTANTS
  c1 = c1
  c2 = c2
  NoCluster = NoCluster
  Webhook = controller
  Names <- MCNames
  KindName <- MCKindName
  Docker <- MCDocker
  Clusters = {c1}
  Responsible = {c1}
  SubnetMin = 200
  SubnetMax = 200
  Components = {controller, speaker}
  Deletable = {c1}
  Holdable = {c1}
  Unannotated = {c1}
  Misannotated = {}
  Losable = {}
  MaxLag = 3
  MaxFaults = 1
  MaxCrashes = 1
SPECIFICATION Spec
INVARIANTS
  TypeOK
  NoOrphanKind
  PoolMatchesSubnet
  ReadyBacked
  NeverForgotten
PROPERTIES
  SubnetSticky
  NoRecreation
  DeletedOnRelease
  ImplementsLifecycle
CHECK_DEADLOCK FALSE
