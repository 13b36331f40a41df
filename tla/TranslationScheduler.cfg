SPECIFICATION FairSpec
CONSTANTS
  a = a
  b = b
  Routes <- MCRoutes
  Keys <- MCKeys
  Profiles <- MCProfiles
  Priority <- MCPriority
  Budget <- MCBudget
  PreparationDeadline = 2
  MaxJob = 3
  MaxGeneration = 2
  Scenarios <- MCScenarios
INVARIANTS
  DeadlinesExcludeLoading
PROPERTIES
  ResultsAreCurrent
  LatestTextWins
  EveryJobSettles
