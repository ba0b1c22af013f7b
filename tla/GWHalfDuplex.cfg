CONSTANTS
  g1 = g1
  g2 = g2
  s1 = s1
  s2 = s2
  s3 = s3
  b1 = b1
  b2 = b2
  None = None
  Paths <- TwoPaths
  Signals <- ThreeSignals
  SubBands <- TwoBands
  DutyDiv <- Duties
  TxTimes <- Lengths
  RxTimes <- Lengths
  Booked = TRUE
  MaxDrift = 2
SPECIFICATION FairSpec
INVARIANT HalfDuplex
PROPERTY EndIsTraced
PROPERTY PathsAreFreed
