SPECIFICATION FairSpec
CONSTANTS
  JobCount = 5
  Device <- MCDevice
  NoDevice = "none"
  Permits = 2
  Factor = 2
  Hung = {1}
INVARIANT TypeOK SingleFlight PermitsConserved
PROPERTY ImplementsSlots EveryJobEnds
CHECK_DEADLOCK FALSE
