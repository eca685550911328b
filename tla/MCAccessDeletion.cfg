\* The request is deleted after the Cluster.
CONSTANTS
  Cluster = c1
  Perms = {}
  Bound = TRUE
  Asks = {"token"}
  Unsafe = FALSE
  Deletable = TRUE
  Resynced = {}
  MaxEdits = 0
  MaxLag = 1
  MaxFaults = 0
  MaxCrashes = 0
SPECIFICATION FairSpec
PROPERTIES
  SecretGoes
CHECK_DEADLOCK FALSE
