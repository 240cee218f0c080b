SPECIFICATION Spec
CONSTANTS
  NumAgents = 9
  ReadyUpTo = 0
  TalkingUpTo = 1
  WrappingUpTo = 9
  StartTimes <- Draws
  TalkSeconds <- Talk
  WrapSeconds = 2
  DialSeconds = 1
  QueueSize = 11
  LogLimit = 1
  RampTicks = 3
  DriftTicks = 1
  Period = 3
  MaxDials = 10
  Scenarios = {"D"}
INVARIANT TypeOK
INVARIANT CallsAccounted
INVARIANT RouteShares
INVARIANT InterventionsFound
PROPERTY ProgressiveNeverAbandons
PROPERTY AbandonmentThrottles
PROPERTY BinomialBound
PROPERTY KeepsEnginePromise
CHECK_DEADLOCK FALSE
