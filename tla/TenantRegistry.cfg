SPECIFICATION Spec
CONSTANTS
  Null = Null
  Refs = {1, 2}
  Tails = {11, 12}
  Rings <- MCRings
  Materials <- MCMaterials
  Start = 2
  MaxTime = 4
  MaxCalls = 4
  Debounce = 2
INVARIANTS RegistriesAgree VaultFaithful KeysScoped
PROPERTY DeletionIsFinal
CHECK_DEADLOCK FALSE
