SPECIFICATION FairSpec
CONSTANTS
  Cases <- MCCases
  Meaning <- MCMeaning
  IllFormedSessions = {"s!"}
  ReadOnly = {"m:ro"}
  ReadWrite = {"m:rw"}
  MountPath <- MCMountPath
  Dirs = {"skills"}
  Checkouts = {"checkout"}
  BuilderCodes = {1, 3}
  IllFormedKeys = {"0x"}
  OwnedKeys = {"HOST_UID"}
  MaxFlips = 2
INVARIANTS
  CommandRunsOrIsRefused
  EnvironmentAsPromised
  OfferIsFounded
PROPERTIES
  WaitingEnds
