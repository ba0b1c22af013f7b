------------------------------ MODULE MacCommand ------------------------------
(* The MAC commands of mac-command.cc: what each class holds, the bytes it     *)
(* writes into the FOpts field of a frame and what it reads back from them.    *)
(* A command is a record whose field cmd names its class; bytes are numbers.   *)
EXTENDS Integers, Sequences

Byte == 0 .. 255
U16 == 0 .. 2^16 - 1
Hertz == Nat                         \* the frequencies of commands, in Hz

Bit(b) == IF b THEN 1 ELSE 0
IsSet(byte, i) == (byte \div 2^i) % 2 = 1

\* ns-3's Buffer::Iterator writes and reads 16 bits with the low byte first.
WriteU16(n) == <<n % 256, n \div 256>>
ReadU16(low, high) == high * 256 + low

\* The identifier of a command: a request and its answer share it.
GetCID(cmd) ==
  CASE cmd \in {"LinkCheckReq", "LinkCheckAns"} -> 2
    [] cmd \in {"LinkAdrReq", "LinkAdrAns"} -> 3
    [] cmd \in {"DutyCycleReq", "DutyCycleAns"} -> 4
    [] cmd \in {"RxParamSetupReq", "RxParamSetupAns"} -> 5
    [] cmd \in {"NewChannelReq", "NewChannelAns"} -> 7
    [] cmd = "RxTimingSetupReq" -> 8
    \* RxTimingSetupAns, TxParamSetupReq, TxParamSetupAns and DlChannelAns are
    \* constructed with the type DEV_STATUS_REQ.
    [] OTHER -> 6

\* Mutant: the answers of one byte count their identifier only.
SerializedSizeOfId(cmd) ==
  CASE cmd = "NewChannelReq" -> 6
    [] cmd \in {"LinkAdrReq", "RxParamSetupReq"} -> 5
    [] cmd \in {"LinkCheckAns", "DevStatusAns"} -> 3
    [] cmd \in {"DutyCycleReq", "RxTimingSetupReq"} -> 2
    [] OTHER -> 1

\* m_serializedSize, by which the frame header counts the bytes of its options.
SerializedSize(cmd) ==
  CASE cmd = "NewChannelReq" -> 6
    [] cmd \in {"LinkAdrReq", "RxParamSetupReq"} -> 5
    [] cmd \in {"LinkCheckAns", "DevStatusAns"} -> 3
    [] cmd \in {"LinkAdrAns", "DutyCycleReq", "RxParamSetupAns", "NewChannelAns", "RxTimingSetupReq"} -> 2
    [] OTHER -> 1

-------------------------------------------------------------------------------
(* Commands that are their identifier alone.                                   *)
PlainUp == {"LinkCheckReq", "DutyCycleAns", "RxTimingSetupAns", "TxParamSetupAns", "DlChannelAns"}
PlainDown == {"DevStatusReq", "TxParamSetupReq"}
Plain == [cmd: PlainUp \union PlainDown]

LinkCheckReq == [cmd |-> "LinkCheckReq"]
DutyCycleAns == [cmd |-> "DutyCycleAns"]
RxTimingSetupAns == [cmd |-> "RxTimingSetupAns"]
TxParamSetupAns == [cmd |-> "TxParamSetupAns"]
TxParamSetupReq == [cmd |-> "TxParamSetupReq"]
DlChannelAns == [cmd |-> "DlChannelAns"]
DevStatusReq == [cmd |-> "DevStatusReq"]

-------------------------------------------------------------------------------
LinkCheckAns == [cmd: {"LinkCheckAns"}, margin: Byte, gwCnt: Byte]

WriteLinkCheckAns(c) == <<c.margin, c.gwCnt>>

ReadLinkCheckAns(b) == [cmd |-> "LinkCheckAns", margin |-> b[2], gwCnt |-> b[3]]

-------------------------------------------------------------------------------
LinkAdrReq == [cmd: {"LinkAdrReq"}, dataRate: Byte, txPower: Byte, channelMask: U16,
               chMaskCntl: Byte, nbRep: Byte]

WriteLinkAdrReq(c) ==
  <<(c.dataRate * 16 + (c.txPower % 16)) % 256>> \o WriteU16(c.channelMask)
  \o <<(c.chMaskCntl * 16 + (c.nbRep % 16)) % 256>>

ReadLinkAdrReq(b) ==
  [cmd |-> "LinkAdrReq", dataRate |-> b[2] \div 16, txPower |-> b[2] % 16,
   channelMask |-> ReadU16(b[3], b[4]), chMaskCntl |-> b[5] \div 16, nbRep |-> b[5] % 16]

\* The channels of a mask, and (AddLinkAdrReq) the mask of a set of channels.
GetEnabledChannelsList(mask) == {i \in 0 .. 15 : IsSet(mask, i)}

-------------------------------------------------------------------------------
LinkAdrAns == [cmd: {"LinkAdrAns"}, powerAck: BOOLEAN, dataRateAck: BOOLEAN, channelMaskAck: BOOLEAN]

WriteLinkAdrAns(c) == <<Bit(c.powerAck) * 4 + Bit(c.dataRateAck) * 2 + Bit(c.channelMaskAck)>>

ReadLinkAdrAns(b) ==
  [cmd |-> "LinkAdrAns", powerAck |-> IsSet(b[2], 2), dataRateAck |-> IsSet(b[2], 1),
   channelMaskAck |-> IsSet(b[2], 0)]

-------------------------------------------------------------------------------
DutyCycleReq == [cmd: {"DutyCycleReq"}, maxDCycle: Byte]

WriteDutyCycleReq(c) == <<c.maxDCycle>>

ReadDutyCycleReq(b) == [cmd |-> "DutyCycleReq", maxDCycle |-> b[2]]

\* The fraction of the time a command allows, as a pair <<a, n>> for a / 2^n: none,
\* all with maxDCycle = 0, or less.
GetMaximumAllowedDutyCycle(c) == IF c.maxDCycle = 255 THEN <<0, 0>> ELSE <<1, c.maxDCycle>>

-------------------------------------------------------------------------------
RxParamSetupReq == [cmd: {"RxParamSetupReq"}, rx1DrOffset: Byte, rx2DataRate: Byte, frequency: Hertz]

\* A frequency is written in units of 100 Hz, its highest byte first.
WriteFrequency(hz) ==
  LET encoded == hz \div 100
  IN  <<(encoded \div 65536) % 256, (encoded \div 256) % 256, encoded % 256>>

WriteRxParamSetupReq(c) ==
  <<(c.rx1DrOffset % 8) * 16 + (c.rx2DataRate % 16)>> \o WriteFrequency(c.frequency)

ReadRxParamSetupReq(b) ==
  [cmd |-> "RxParamSetupReq", rx1DrOffset |-> (b[2] \div 16) % 8, rx2DataRate |-> b[2] % 16,
   frequency |-> ((b[3] * 256 + b[4]) * 256 + b[5]) * 100]

RxParamSetupAns == [cmd: {"RxParamSetupAns"}, rx1DrOffsetAck: BOOLEAN, rx2DataRateAck: BOOLEAN,
                    channelAck: BOOLEAN]

WriteRxParamSetupAns(c) == <<Bit(c.rx1DrOffsetAck) * 4 + Bit(c.rx2DataRateAck) * 2 + Bit(c.channelAck)>>

ReadRxParamSetupAns(b) ==
  [cmd |-> "RxParamSetupAns", rx1DrOffsetAck |-> IsSet(b[2], 2), rx2DataRateAck |-> IsSet(b[2], 1),
   channelAck |-> IsSet(b[2], 0)]

-------------------------------------------------------------------------------
DevStatusAns == [cmd: {"DevStatusAns"}, battery: Byte, margin: Byte]

WriteDevStatusAns(c) == <<c.battery, c.margin>>

\* Only six bits of the margin are read.
ReadDevStatusAns(b) == [cmd |-> "DevStatusAns", battery |-> b[2], margin |-> b[3] % 64]

-------------------------------------------------------------------------------
NewChannelReq == [cmd: {"NewChannelReq"}, chIndex: Byte, frequency: Hertz, minDataRate: Byte,
                  maxDataRate: Byte]

WriteNewChannelReq(c) ==
  <<c.chIndex>> \o WriteFrequency(c.frequency) \o <<(c.maxDataRate * 16 + (c.minDataRate % 16)) % 256>>

\* The two upper bytes of the frequency are read as one number of 16 bits.
ReadNewChannelReq(b) ==
  [cmd |-> "NewChannelReq", chIndex |-> b[2], frequency |-> (ReadU16(b[3], b[4]) * 256 + b[5]) * 100,
   maxDataRate |-> b[6] \div 16, minDataRate |-> b[6] % 16]

NewChannelAns == [cmd: {"NewChannelAns"}, dataRateRangeOk: BOOLEAN, channelFrequencyOk: BOOLEAN]

WriteNewChannelAns(c) == <<Bit(c.dataRateRangeOk) * 2 + Bit(c.channelFrequencyOk)>>

ReadNewChannelAns(b) ==
  [cmd |-> "NewChannelAns", dataRateRangeOk |-> IsSet(b[2], 1), channelFrequencyOk |-> IsSet(b[2], 0)]

-------------------------------------------------------------------------------
RxTimingSetupReq == [cmd: {"RxTimingSetupReq"}, delay: Byte]

WriteRxTimingSetupReq(c) == <<c.delay % 16>>

ReadRxTimingSetupReq(b) == [cmd |-> "RxTimingSetupReq", delay |-> b[2] % 16]

\* Seconds; no delay at all means one second.
GetDelay(c) == IF c.delay = 0 THEN 1 ELSE c.delay

-------------------------------------------------------------------------------
Uplinks == [cmd: PlainUp] \union LinkAdrAns \union RxParamSetupAns \union DevStatusAns \union NewChannelAns
Downlinks == [cmd: PlainDown] \union LinkCheckAns \union LinkAdrReq \union DutyCycleReq
             \union RxParamSetupReq \union NewChannelReq \union RxTimingSetupReq

\* The virtual Serialize: the identifier, then what the class writes.
Serialized(c) ==
  <<GetCID(c.cmd)>> \o
  CASE c.cmd = "LinkCheckAns" -> WriteLinkCheckAns(c)
    [] c.cmd = "LinkAdrReq" -> WriteLinkAdrReq(c)
    [] c.cmd = "LinkAdrAns" -> WriteLinkAdrAns(c)
    [] c.cmd = "DutyCycleReq" -> WriteDutyCycleReq(c)
    [] c.cmd = "RxParamSetupReq" -> WriteRxParamSetupReq(c)
    [] c.cmd = "RxParamSetupAns" -> WriteRxParamSetupAns(c)
    [] c.cmd = "DevStatusAns" -> WriteDevStatusAns(c)
    [] c.cmd = "NewChannelReq" -> WriteNewChannelReq(c)
    [] c.cmd = "NewChannelAns" -> WriteNewChannelAns(c)
    [] c.cmd = "RxTimingSetupReq" -> WriteRxTimingSetupReq(c)
    [] OTHER -> <<>>
===============================================================================
