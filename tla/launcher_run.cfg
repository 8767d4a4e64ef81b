SPECIFICATION FairSpec
CONSTANTS
  Signals <- BothSignals
  ContainerCodes <- TwoCodes
  MaxSignals = 2
  MaxPrompts = 2
  NoSignal = NoSignal
INVARIANT TypeOK
INVARIANT NothingStranded
INVARIANT ReplacementHoldsNothing
INVARIANT EarlySignalStopsLaunch
INVARIANT NoFalseSuccess
INVARIANT SignalReported
PROPERTY LocksOutliveChild
PROPERTY SignalEndsRun
