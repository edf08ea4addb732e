CONSTANTS
  k1 = k1
  k2 = k2
  Undefined = Undefined
  Tokens <- SomeTokens
  Definitions <- SomeDefinitions
  Templates <- PageTemplate
  Queries <- SomeQueries
  Operations = {"resolve", "invoke", "invokeAll"}
  Calls <- TwoCalls
  MaxChanges = 3
SYMMETRY Alike
SPECIFICATION Spec
INVARIANTS
  EveryoneHasOne
  WinnerIsRight
  MatchesAreLaunchedInTurn
CHECK_DEADLOCK FALSE
