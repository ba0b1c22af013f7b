----------------------------- MODULE MCFrameHeader -----------------------------
(* Instances of FrameHeader for TLC. *)
EXTENDS FrameHeader

Filled(mtype, id, addr, fCnt, flag, port) ==
  [mtype |-> mtype, major |-> 1, address |-> [nwkId |-> id, nwkAddr |-> addr], adr |-> flag,
   adrAckReq |-> ~flag, ack |-> flag, fPending |-> FALSE, fCnt |-> fCnt, fPort |-> port]

\* An uplink and a downlink whose fields use the highest bits.
TwoHeaders == {Filled(4, 127, 2^25 - 2, 65535, TRUE, 3), Filled(3, 56, 16777216 + 1864, 513, FALSE, 0)}

\* One command of every class, and values at and beyond the edge of a field.
EveryCommand ==
  Plain \union
  {[cmd |-> "LinkAdrAns", powerAck |-> FALSE, dataRateAck |-> TRUE, channelMaskAck |-> TRUE],
   [cmd |-> "RxParamSetupAns", rx1DrOffsetAck |-> TRUE, rx2DataRateAck |-> FALSE, channelAck |-> TRUE],
   [cmd |-> "DevStatusAns", battery |-> 10, margin |-> 10],
   [cmd |-> "DevStatusAns", battery |-> 10, margin |-> 64],
   [cmd |-> "NewChannelAns", dataRateRangeOk |-> TRUE, channelFrequencyOk |-> FALSE],
   [cmd |-> "LinkCheckAns", margin |-> 0, gwCnt |-> 2],
   [cmd |-> "LinkAdrReq", dataRate |-> 5, txPower |-> 7, channelMask |-> 32775, chMaskCntl |-> 0, nbRep |-> 1],
   [cmd |-> "LinkAdrReq", dataRate |-> 16, txPower |-> 0, channelMask |-> 7, chMaskCntl |-> 0, nbRep |-> 1],
   [cmd |-> "DutyCycleReq", maxDCycle |-> 255],
   [cmd |-> "RxParamSetupReq", rx1DrOffset |-> 5, rx2DataRate |-> 3, frequency |-> 869525000],
   [cmd |-> "RxParamSetupReq", rx1DrOffset |-> 0, rx2DataRate |-> 0, frequency |-> 868],
   [cmd |-> "NewChannelReq", chIndex |-> 3, frequency |-> 867100000, minDataRate |-> 0, maxDataRate |-> 5],
   [cmd |-> "RxTimingSetupReq", delay |-> 15]}

TenBytes == <<255, 255, 3, 3, 3, 2, 255, 255, 255, 255>>
NoPayload == <<>>

\* What LinkCheckComponent and AdrComponent add to one reply.
LinkCheckAndAdr ==
  {[cmd |-> "LinkCheckAns", margin |-> 0, gwCnt |-> 2],
   [cmd |-> "LinkAdrReq", dataRate |-> 5, txPower |-> 7, channelMask |-> 7, chMaskCntl |-> 0, nbRep |-> 1]}
===============================================================================
