SPECIFICATION Spec
CONSTANTS
  Char <- TwoChars
  NL <- Newline
  Reads <- SomeReads
  Prints <- SomePrints
  ChildStatuses <- TwoStatuses
  MaxGiven = 4
  MaxRecords = 1
  MaxFaults = 1
INVARIANTS TypeOK SuccessMeansComplete ReplacedIntact
PROPERTIES ImplementsLineLog
