SPECIFICATION Spec
CONSTANTS
  Worlds <- MCWorlds
  ClusterOf <- Struck
  MayAnswer <- MCMayAnswer
  Cuts <- MCCuts
INVARIANTS
  AbsenceIsAccounted
  HealthyIsEarned
  TreeIsSound
  RootIsUnexplained
CHECK_DEADLOCK FALSE
