SPECIFICATION Spec
CONSTANTS
  Daemons = {d1}
  Targets <- MCOneTarget
  Setups <- MCSetups
  Observations <- MCObservations
  RoundCap = 1
  MaxReturned = 3
  MaxStarts = 2
  MaxSetBacks = 0
INVARIANTS
  DiffIsWithinOneConfig
