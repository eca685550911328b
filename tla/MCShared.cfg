\* Two requests on one kind cluster that can ask for a permission of one name.
CONSTANTS
  r1 = r1
  r2 = r2
  Nobody = Nobody
  Requests = {r1, r2}
  Names <- MCNames
  References <- MCReferences
  Namespaced <- MCNamespaced
  Askable <- MCAskable
  Editable = {r1}
  MaxFaults = 1
SPECIFICATION FairSpec
INVARIANTS
  TypeOK
  BindingsBacked
  NoLeftovers
  GrantBacked
  BoundToOwnRole
PROPERTIES
  Isolation
  PassExact
  AccessConverges
  DeletionCompletes
  ImplementsAccess
CHECK_DEADLOCK FALSE
