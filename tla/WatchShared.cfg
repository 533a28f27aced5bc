SPECIFICATION Spec
CONSTANTS
  Daemons = {d1, d2}
  Targets <- MCTargets
  Setups <- MCOnce
  Observations <- MCOneObservations
  RoundCap = 1
  MaxReturned = 2
  MaxStarts = 1
  MaxSetBacks = 1
INVARIANTS
  TypeOK
  DiffIsOfSameTarget
SYMMETRY DaemonSymmetry
