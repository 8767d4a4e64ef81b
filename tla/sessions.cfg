SPECIFICATION Spec
CONSTANTS
  Clients = {"p", "q"}
  Olds = {"o1", "o2", "o3", "o4"}
  OldName <- OldNames
  OldEnv <- OldEnvs
  OldSession <- OldSessions
  Calls <- AllCalls
  Shape <- AllShapes
  Worlds <- AllWorlds
  MaxFaults = 1
  MaxExits = 1
INVARIANTS GateHonoured RefusalsFounded
PROPERTIES AttachUnambiguous ClashMeansOverlap
