\* A request that is bound later; a failure, a Secret that is deleted.
CONSTANTS
  Cluster = c1
  Perms = {}
  Bound = FALSE
  Asks = {"token"}
  Unsafe = FALSE
  Deletable = TRUE
  Resynced = {}
  MaxEdits = 0
  MaxLag = 1
  MaxFaults = 1
  MaxCrashes = 0
SPECIFICATION FairSpec
PROPERTIES
  BecomesGranted
  DeletionCompletes
CHECK_DEADLOCK FALSE
