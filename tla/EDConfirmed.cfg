CONSTANTS
  p1 = p1
  p2 = p2
  b1 = b1
  None = None
  Packets <- TwoPackets
  Oversize <- NoPacket
  SubBands <- OneBand
  DutyDiv <- LongDuty
  AirTimes <- Short
  RxTimes <- ShortOrLong
  Outcomes <- NoData
  ReceiveDelay1 = 2
  ReceiveDelay2 = 4
  Window1 = 1
  Window2 = 1
  AckTimeouts <- Timeouts
  TsFloor = 6
  MaxNumbTx = 3
  Confirmed = TRUE
  TxGap = FALSE
SPECIFICATION FairSpec
INVARIANT TypeOK
INVARIANT NoAbort
INVARIANT WindowsAreQuiet
INVARIANT AttemptsOnAir
PROPERTY NoStaleRetransmission
PROPERTY EveryPacketReported
PROPERTY RadioSleeps
PROPERTY EndIsReported
