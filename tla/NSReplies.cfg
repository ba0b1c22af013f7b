CONSTANTS
  d1 = d1
  d2 = d2
  b1 = b1
  b2 = b2
  None = None
  Devices <- TwoDevices
  Gateways <- TwoGateways
  Powers <- TwoPowers
  FCntMod = 256
  MaxTries = 2
  SubBands <- TwoBands
  BandOf <- Windows
  DutyDiv <- Duties
  TxTimes <- OneLength
  Spaced = TRUE
  MaxAttempts <- TwoAndOne
SPECIFICATION FairSpec
INVARIANT ReplyInWindow
INVARIANT ForwardedCanBeSent
PROPERTY OneOpportunity
PROPERTY RepliesResolved
PROPERTY DeliveryRefined
