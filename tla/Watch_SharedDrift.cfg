SPECIFICATION Spec
CONSTANTS
  Daemons = {d1, d2}
  Targets <- MCOneTarget
  Setups <- MCOneSetup
  Observations <- MCOneObservations
  RoundCap = 1
  MaxReturned = 3
  MaxStarts = 1
  MaxSetBacks = 0
INVARIANTS
  DriftReachesSomeone
