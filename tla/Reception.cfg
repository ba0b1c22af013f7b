CONSTANTS
  long = long
  short = short
  fast = fast
  g1 = g1
  p1 = p1
  p2 = p2
  None = None
  Frames <- ThreeFrames
  Gateways <- OneGateway
  Paths <- TwoPaths
  Sf <- TheirSf
  Frequency <- OneChannel
  Size <- TheirSize
  RxPower <- TheirPower
  Delay <- TheirDelay
  TickLength = 500000
  OldEventThreshold = 4
  ListLimit = 1
  RetryDelay = 4
  TxTimes = {2}
  ReportInterval = 4
  MaxSends = 2
  MaxTime = 8
SPECIFICATION Spec
SYMMETRY AnyPath
CHECK_DEADLOCK FALSE
INVARIANT TypeOK
INVARIANT NoInterfererForgotten
INVARIANT OneSurvives
INVARIANT CountsAddUp
