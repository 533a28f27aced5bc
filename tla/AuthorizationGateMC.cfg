SPECIFICATION Spec
CONSTANTS
  Characters <- MCCharacters
  MaxLength = 4
INVARIANTS
  ScopeIsSubtree
  FormIsIrrelevant
  ScopeIsInherited
  GrantStaysInManifest
CHECK_DEADLOCK FALSE
