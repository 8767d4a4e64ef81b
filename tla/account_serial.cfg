SPECIFICATION Spec
CONSTANTS
  Runs <- FourRuns
  Serial = TRUE
  MaxKills = 2
  StartStates <- Homes
INVARIANTS AccountStateSurvives ReadableWhenStarted
