CONSTANTS
  f = f
  g = g
  N = 3
  Files = {f, g}
  Plans <- AllPlans
SPECIFICATION FairSpec
INVARIANTS TypeOK FilesAreSerialized DependenciesComeFirst
           NothingIsGivenUpForNothing LoneClaimsAreSupported
PROPERTIES TasksRunOnce RunReturns
CHECK_DEADLOCK FALSE
