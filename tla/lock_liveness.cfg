SPECIFICATION FairSpec
CONSTANTS
  l1 = l1
  l2 = l2
  l3 = l3
  w1 = w1
  w2 = w2
  aic = aic
  Launchers <- Launchers2
  Worktrees <- Worktrees1
  Hides <- HidesAll
  Bases <- Launchers2
  BaseOf <- OwnBase
  StaleGrace = 1
  MaxWaits = 2
  QuickOwner = FALSE
  QuickReclaim = FALSE
  Pace = "stalled"
  MaySeal = TRUE
  MaxCrashes = 1
  MayVanish = FALSE
  Nobody = Nobody
  NoTree = NoTree
PROPERTIES EveryLauncherEnds StaleHoldReclaimed
