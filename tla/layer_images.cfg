SPECIFICATION Spec
CONSTANTS
  p = p
  q = q
  old = old
  new = new
  b1 = b1
  b2 = b2
  Launchers = {p, q}
  Files <- TwoFiles
  Versions = {old, new}
  Bases = {b1, b2}
  NoBase = NoBase
  BuilderCodes = {1}
  Ways <- AllWays
  MaxEdits = 1
  MaxMoves = 2
  MaxFaults = 2
SYMMETRY Alike
CONSTRAINT OneOrTheOther
INVARIANTS TypeOK TagNamesBase CleanImagesMatch RunsWhatWasNamed
PROPERTIES LeftoversReported
