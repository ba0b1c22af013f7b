CONSTANTS
  g1 = g1
  g2 = g2
  Gateways <- TwoGateways
  Loss <- NearAndFar
  Confirmed = TRUE
  MaxNumbTx = 2
  EnableDRAdapt = TRUE
  ControlDataRate = TRUE
  HistoryRange = 4
  HistoryAveraging = "AVERAGE"
  TpAveraging = "AVERAGE"
  ToggleTxPower = TRUE
  NbChannels = 3
  Requests <- SomeRequests
  MaxRequests = 1
SPECIFICATION FairSpec
INVARIANT TypeOK
INVARIANT StaysHeard
INVARIANT AlwaysAChannel
INVARIANT NoAnswerTwice
PROPERTY AdrSettles
