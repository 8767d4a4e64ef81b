SPECIFICATION Spec
CONSTANTS
  Runs <- TwoRuns
  Serial = FALSE
  MaxKills = 0
  StartStates <- Homes
INVARIANT AccountStateSurvives
