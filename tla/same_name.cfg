SPECIFICATION Spec
CONSTANTS
  l1 = l1
  l2 = l2
  l3 = l3
  w1 = w1
  w2 = w2
  aic = aic
  Launchers <- Launchers2
  Worktrees <- Worktrees1
  Hides <- HidesAll
  Bases <- Bases1
  BaseOf <- OneBase
  StaleGrace = 1
  MaxWaits = 2
  QuickOwner = TRUE
  QuickReclaim = TRUE
  MaySeal = FALSE
  Pace = "prompt"
  MaxCrashes = 0
  MayVanish = FALSE
  Nobody = Nobody
  NoTree = NoTree
INVARIANT ProtectedWhileRunning
