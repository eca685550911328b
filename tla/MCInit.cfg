\* Two versions of the provider, one after the other.
CONSTANTS
  Order <- MCOrder
  MaxVersion = 2
SPECIFICATION Spec
INVARIANTS
  InitUpgrades
CHECK_DEADLOCK FALSE
