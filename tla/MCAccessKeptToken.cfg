\* The kind cluster vanishes and is created anew.
CONSTANTS
  Cluster = c1
  Perms = {read}
  Bound = TRUE
  Asks = {"token"}
  Unsafe = TRUE
  Deletable = FALSE
  Resynced = {}
  MaxEdits = 1
  MaxLag = 1
  MaxFaults = 0
  MaxCrashes = 0
SPECIFICATION Spec
PROPERTIES
  KeptTokenValid
CHECK_DEADLOCK FALSE
