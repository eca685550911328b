\* A failure or a lost answer anywhere, a restart, resyncs.
CONSTANTS
  Cluster = c1
  Perms = {read}
  Bound = TRUE
  Asks = {"token", "oidc"}
  Unsafe = FALSE
  Deletable = TRUE
  Resynced = {"token", "oidc"}
  MaxEdits = 0
  MaxLag = 1
  MaxFaults = 1
  MaxCrashes = 1
SPECIFICATION Spec
INVARIANTS
  TypeOK
  NoLeftoverAccess
  TokenBacked
  NeverForgotten
  GrantedHasSecret
  GrantBacked
PROPERTIES
  GrantNotLost
  KeptTokenSound
  ObservedForward
  ImplementsAccess
CHECK_DEADLOCK FALSE
