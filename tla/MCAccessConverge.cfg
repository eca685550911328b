\* The request is changed or its Secret deleted; the kind cluster is created anew.
CONSTANTS
  Cluster = c1
  Perms = {read}
  Bound = TRUE
  Asks = {"token", "oidc"}
  Unsafe = TRUE
  Deletable = FALSE
  Resynced = {"oidc"}
  MaxEdits = 1
  MaxLag = 1
  MaxFaults = 0
  MaxCrashes = 0
SPECIFICATION FairSpec
PROPERTIES
  TokenRenewed
  AccessConverges
  OidcRepaired
CHECK_DEADLOCK FALSE
