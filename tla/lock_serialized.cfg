SPECIFICATION Spec
CONSTANTS
  l1 = l1
  l2 = l2
  l3 = l3
  w1 = w1
  w2 = w2
  aic = aic
  Launchers <- Launchers3
  Worktrees <- Worktrees2
  Hides <- HidesChain
  Bases <- Launchers3
  BaseOf <- OwnBase
  StaleGrace = 0
  MaxWaits = 1
  QuickOwner = TRUE
  QuickReclaim = TRUE
  Pace = "prompt"
  MaySeal = FALSE
  MaxCrashes = 1
  MayVanish = TRUE
  Nobody = Nobody
  NoTree = NoTree
INVARIANTS TypeOK MutualExclusion ProtectedWhileRunning NothingLeaks
PROPERTIES UserLockKept ImplementsRegistry
