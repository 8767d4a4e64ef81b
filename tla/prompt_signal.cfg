SPECIFICATION Spec
CONSTANTS
  Signals <- BothSignals
  ContainerCodes <- TwoCodes
  MaxSignals = 2
  MaxPrompts = 2
  NoSignal = NoSignal
PROPERTY PromptSignalReported
