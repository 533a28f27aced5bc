SPECIFICATION Spec
CONSTANTS
  Daemons = {d1}
  Targets <- MCTargets
  Setups <- MCEndings
  Observations <- MCWithErrors
  RoundCap = 3
  MaxReturned = 3
  MaxStarts = 2
  MaxSetBacks = 0
INVARIANTS
  DiffIsAgainstPrevious
  EndsAfterAllRounds
PROPERTIES
  ImplementsMonitor
  NoTargetStarves
  StopEnds
  BoundedRunEnds
