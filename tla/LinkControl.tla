------------------------------ MODULE LinkControl ------------------------------
(* How the network server steers a device: the frames the device sends and the *)
(* MAC commands in them, the receptions the server remembers, the components   *)
(* LinkCheckComponent and AdrComponent that write commands into the reply, the *)
(* reply on the air, and ParseCommands on the device with every handler it     *)
(* calls.  One step is one attempt or one reply: the timing of attempts and    *)
(* windows is EndDevice and NetworkServer.  Powers are in hundredths of a dB.  *)
EXTENDS MacCommand, SequencesExt

CONSTANTS
  Gateways,
  Loss,               \* the path loss to every gateway
  Confirmed,          \* m_mType is CONFIRMED_DATA_UP
  MaxNumbTx,          \* m_maxNumbTx
  EnableDRAdapt,      \* m_enableDRAdapt
  ControlDataRate,    \* m_controlDataRate, the ADR bit of every uplink
  HistoryRange,       \* attributes of AdrComponent
  HistoryAveraging,
  TpAveraging,
  ToggleTxPower,
  NbChannels,         \* how many channels a device is set up with
  Requests,           \* commands of a component of the user's own
  MaxRequests         \* bound: how many of them, and of link checks

VARIABLES
  device,        \* what the handlers of commands read and write
  history,       \* m_receivedPacketList: the last HistoryRange packets
  uplink,        \* the commands of the last packet the server received
  inbox,         \* what is left of the commands of a reply
  phase,         \* "idle", "window" while the server may reply, or "parsing"
  calm,          \* from now on nothing is lost and no gateway is busy
  requested      \* how many Requests and link checks were made

vars == <<device, history, uplink, inbox, phase, calm, requested>>

Methods == {"AVERAGE", "MAXIMUM", "MINIMUM"}

\* A logical channel: its data rates, whether it is enabled for uplinks, and
\* whether its frequency lies in a sub-band of the device.
Channel == [lo: 0 .. 15, hi: 0 .. 15, on: BOOLEAN, known: BOOLEAN]

\* Every region sets its channels up alike.
Channels == [i \in 0 .. NbChannels - 1 |-> [lo |-> 0, hi |-> 5, on |-> TRUE, known |-> TRUE]]

ASSUME GatewaysAssumption == IsFiniteSet(Gateways) /\ Gateways # {} /\ Loss \in [Gateways -> Nat]
ASSUME AttributesAssumption ==
  /\ Confirmed \in BOOLEAN /\ EnableDRAdapt \in BOOLEAN
  /\ ControlDataRate \in BOOLEAN /\ ToggleTxPower \in BOOLEAN
  /\ MaxNumbTx \in 1 .. 255 /\ HistoryRange \in Nat \ {0}
  /\ HistoryAveraging \in Methods /\ TpAveraging \in Methods
ASSUME ChannelsAssumption == NbChannels \in 1 .. 16

\* What the reader of a command can find in the bits of a data rate or an offset.
FitsItsBits(c) ==
  /\ c.cmd = "LinkAdrReq" => c.dataRate <= 15 /\ c.txPower <= 15
  /\ c.cmd = "RxParamSetupReq" => c.rx1DrOffset <= 7 /\ c.rx2DataRate <= 15
  /\ c.cmd = "NewChannelReq" => c.minDataRate <= 15 /\ c.maxDataRate <= 15

ASSUME RequestsAssumption ==
  Requests \subseteq Downlinks /\ (\A c \in Requests : FitsItsBits(c)) /\ MaxRequests \in Nat

-------------------------------------------------------------------------------
(* Tables (ConfigureForEuRegion) and what the radios can hear.                 *)

SfForDataRate == [dr \in 0 .. 6 |-> IF dr = 6 THEN 7 ELSE 12 - dr]
BandwidthForDataRate == [dr \in 0 .. 6 |-> IF dr = 6 THEN 250 ELSE 125]
TxDbmForTxPower == [i \in 0 .. 7 |-> 16 - 2 * i]

\* GatewayLoraPhy::sensitivity and EndDeviceLoraPhy::sensitivity.
GatewaySensitivity == [sf \in 7 .. 12 |-> -13000 - 250 * (sf - 7)]
DeviceSensitivity == [sf \in 7 .. 12 |-> CASE sf <= 10 -> -12400 - 300 * (sf - 7)
                                           [] sf = 11 -> -13500 [] sf = 12 -> -13700]

\* 0 stands for a data rate or a power that does not exist.  Two of the three
\* look-ups let the first index behind their table pass, and at() throws.
Thrown == -1
GetSfFromDataRate(dr) == IF dr >= 7 THEN 0 ELSE SfForDataRate[dr]
GetBandwidthFromDataRate(dr) ==
  IF dr > 7 THEN 0 ELSE IF dr = 7 THEN Thrown ELSE BandwidthForDataRate[dr]
GetDbmForTxPower(i) ==
  IF i > 8 THEN 0 ELSE IF i = 8 THEN Thrown ELSE TxDbmForTxPower[i]

RxPower(d, g) == 100 * d.txPower - Loss[g]
Hearing(d) == {g \in Gateways : RxPower(d, g) >= GatewaySensitivity[SfForDataRate[d.dataRate]]}

\* m_replyDataRateMatrix, of which at() throws for an offset beyond 5.
GetFirstReceiveWindowDataRate(d) ==
  IF d.rx1DrOffset < d.dataRate THEN d.dataRate - d.rx1DrOffset ELSE 0

\* GetReplyForDevice asks the device itself for its data rates, but has a second
\* frequency of its own.  Gateways send with 14 dBm in the sub-band of the
\* uplinks and with 27 dBm on the second frequency.
HearsReply(d, g, window) ==
  IF window = 1
  THEN 1400 - Loss[g] >= DeviceSensitivity[SfForDataRate[GetFirstReceiveWindowDataRate(d)]]
  ELSE /\ d.rx2Frequency = "869.525" /\ GetSfFromDataRate(d.rx2DataRate) # 0
       /\ 2700 - Loss[g] >= DeviceSensitivity[SfForDataRate[d.rx2DataRate]]

-------------------------------------------------------------------------------
(* AdrComponent.                                                               *)

GetMinTxFromGateways(gwList) == Min({gwList[g] : g \in DOMAIN gwList})
GetMaxTxFromGateways(gwList) == Max({gwList[g] : g \in DOMAIN gwList})
GetAverageTxFromGateways(gwList) ==
  MapThenSumSet(LAMBDA g : gwList[g], DOMAIN gwList) \div Cardinality(DOMAIN gwList)

GetReceivedPower(gwList) ==
  CASE TpAveraging = "AVERAGE" -> GetAverageTxFromGateways(gwList)
    [] TpAveraging = "MAXIMUM" -> GetMaxTxFromGateways(gwList)
    [] TpAveraging = "MINIMUM" -> GetMinTxFromGateways(gwList)

\* The noise of 125 kHz and a noise figure of 6 dB.
RxPowerToSNR(rxPower) == rxPower + 11703

SNRs(h) == {RxPowerToSNR(GetReceivedPower(h[i])) : i \in DOMAIN h}
GetMinSNR(h) == Min(SNRs(h))
GetMaxSNR(h) == Max(SNRs(h))
\* Mutant: the best of the packets stands for all of them.
AverageIsMaximum(h) == Max(SNRs(h))

GetAverageSNR(h) ==
  MapThenSumSet(LAMBDA i : RxPowerToSNR(GetReceivedPower(h[i])), DOMAIN h) \div HistoryRange

SNR(h) ==
  CASE HistoryAveraging = "AVERAGE" -> GetAverageSNR(h)
    [] HistoryAveraging = "MAXIMUM" -> GetMaxSNR(h)
    [] HistoryAveraging = "MINIMUM" -> GetMinSNR(h)

SfToDr(sf) == IF sf \in 8 .. 12 THEN 12 - sf ELSE 5

\* What each data rate needs to be demodulated.
Treshold == [dr \in 0 .. 5 |-> -2000 + 250 * dr]

AtMost(a, b) == IF a <= b THEN a ELSE b

\* Steps of 3 dB are spent on the data rate first, then on the power, two dBm
\* each between 2 and 14; a lack of margin raises the power.
AdrImplementation(sf, txPower, h) ==
  LET steps == (SNR(h) - Treshold[SfToDr(sf)]) \div 300
      faster == IF steps > 0 THEN AtMost(steps, sf - 7) ELSE 0
      weaker == IF steps > faster /\ txPower > 2
                THEN AtMost(steps - faster, (txPower - 1) \div 2) ELSE 0
      stronger == IF steps < 0 /\ txPower < 14 THEN AtMost(-steps, (15 - txPower) \div 2) ELSE 0
  IN  [dataRate |-> SfToDr(sf - faster), txPower |-> txPower - 2 * weaker + 2 * stronger]

GetTxPowerIndex(txPower) == IF txPower >= 16 THEN 0 ELSE IF txPower >= 4 THEN 8 - txPower \div 2 ELSE 7

\* The request that BeforeSendingReply adds, as a sequence of none or one.  It
\* always enables channels 0, 1 and 2.
AdrCommand ==
  LET sf == SfForDataRate[device.dataRate]
      adr == AdrImplementation(sf, device.txPower, history)
      newTxPower == IF ToggleTxPower THEN adr.txPower ELSE device.txPower
  IN  IF /\ ControlDataRate /\ Len(history) >= HistoryRange
         /\ adr.dataRate # SfToDr(sf) \/ newTxPower # device.txPower
      THEN <<[cmd |-> "LinkAdrReq", dataRate |-> adr.dataRate, txPower |-> GetTxPowerIndex(newTxPower),
              channelMask |-> 7, chMaskCntl |-> 0, nbRep |-> 1]>>
      ELSE <<>>

\* LinkCheckComponent::BeforeSendingReply: only the number of gateways is set, in
\* eight bits.
LinkCheckCommand ==
  IF \E i \in DOMAIN uplink : uplink[i].cmd = "LinkCheckReq"
  THEN <<[cmd |-> "LinkCheckAns", margin |-> 0,
          gwCnt |-> Cardinality(DOMAIN history[Len(history)]) % 256]>>
  ELSE <<>>
-------------------------------------------------------------------------------
(* The handlers of ParseCommands.  Each queues its answer, if it has one.      *)

Answer(d, c) == [d EXCEPT !.commands = Append(@, c)]

\* An exception, a failed assertion or NS_ABORT ends the program.
Throw(d) == [d EXCEPT !.alive = FALSE]

OnLinkCheckAns(d, c) == [d EXCEPT !.gatewayCount = c.gwCnt]

Admits(channel, dr) == channel.lo <= dr /\ dr <= channel.hi

\* Mutant: the channels are not asked whether they admit the data rate.
OnLinkAdrReqUnchecked(d, c) ==
  Answer([d EXCEPT !.dataRate = c.dataRate, !.txPower = GetDbmForTxPower(c.txPower),
                   !.channels = [i \in DOMAIN @ |-> [@[i] EXCEPT !.on = i \in GetEnabledChannelsList(c.channelMask)]]],
         [cmd |-> "LinkAdrAns", powerAck |-> TRUE, dataRateAck |-> TRUE, channelMaskAck |-> TRUE])

\* An index equal to the number of channels passes the first check.
OnLinkAdrReq(d, c) ==
  LET enabled == GetEnabledChannelsList(c.channelMask)
      size == Cardinality(DOMAIN d.channels)
      channelMaskOk == \A i \in enabled : i <= size
      valid == GetSfFromDataRate(c.dataRate) # 0 /\ GetBandwidthFromDataRate(c.dataRate) # 0
      found == \E i \in enabled \ {size} : Admits(d.channels[i], c.dataRate)
      dataRateOk == valid /\ (channelMaskOk => found)
      txPowerOk == GetDbmForTxPower(c.txPower) # 0
      beyond == valid /\ channelMaskOk /\ size \in enabled /\ ~found
      answered == Answer(d, [cmd |-> "LinkAdrAns", powerAck |-> txPowerOk, dataRateAck |-> dataRateOk,
                             channelMaskAck |-> channelMaskOk])
  IN  IF Thrown \in {GetBandwidthFromDataRate(c.dataRate), GetDbmForTxPower(c.txPower)} \/ beyond
      THEN Throw(d)
      ELSE IF channelMaskOk /\ dataRateOk /\ txPowerOk
      THEN [answered EXCEPT !.dataRate = c.dataRate, !.txPower = GetDbmForTxPower(c.txPower),
                            !.channels = [i \in DOMAIN @ |-> [@[i] EXCEPT !.on = i \in enabled]]]
      ELSE answered

\* The whole of the air time is a value the assertion does not allow.
OnDutyCycleReq(d, c) ==
  IF GetMaximumAllowedDutyCycle(c) = <<1, 0>> THEN Throw(d)
  ELSE Answer([d EXCEPT !.aggregatedDutyCycle = GetMaximumAllowedDutyCycle(c)], DutyCycleAns)

\* Everything is taken over, whatever the answer says; and the frequency is in
\* Hz where the device keeps MHz, so that it is never that of the server.
OnRxClassParamSetupReq(d, c) ==
  Answer([d EXCEPT !.rx2DataRate = c.rx2DataRate, !.rx1DrOffset = c.rx1DrOffset, !.rx2Frequency = "Hz"],
         [cmd |-> "RxParamSetupAns", rx1DrOffsetAck |-> c.rx1DrOffset <= 5,
          rx2DataRateAck |-> GetSfFromDataRate(c.rx2DataRate) # 0, channelAck |-> TRUE])

\* Battery and margin are made up.
OnDevStatusReq(d) == Answer(d, [cmd |-> "DevStatusAns", battery |-> 10, margin |-> 10])

\* Nothing is checked.  The frequency is again in Hz: no sub-band has it.
OnNewChannelReq(d, c) ==
  IF c.chIndex \notin DOMAIN d.channels THEN Throw(d)
  ELSE Answer([d EXCEPT !.channels[c.chIndex] =
                 [lo |-> c.minDataRate, hi |-> c.maxDataRate, on |-> TRUE, known |-> FALSE]],
              [cmd |-> "NewChannelAns", dataRateRangeOk |-> TRUE, channelFrequencyOk |-> TRUE])

Execute(d, c) ==
  IF ~d.alive THEN d
  ELSE CASE c.cmd = "LinkCheckAns" -> OnLinkCheckAns(d, c)
         [] c.cmd = "LinkAdrReq" -> OnLinkAdrReq(d, c)
         [] c.cmd = "DutyCycleReq" -> OnDutyCycleReq(d, c)
         [] c.cmd = "RxParamSetupReq" -> OnRxClassParamSetupReq(d, c)
         [] c.cmd \in {"DevStatusReq", "TxParamSetupReq"} -> OnDevStatusReq(d)
         [] c.cmd = "NewChannelReq" -> OnNewChannelReq(d, c)
         [] OTHER -> d

\* The end of the retransmission procedure.
resetRetransmissionParameters(d) == [d EXCEPT !.waitingAck = FALSE, !.retxLeft = MaxNumbTx]

\* What the reader of a reply finds in it: the length of the options is sent
\* modulo 8, and the loop goes on until it has read that many bytes.
OnTheAir(commands) ==
  LET bytes(n) == MapThenSumSet(LAMBDA i : SerializedSize(commands[i].cmd), 1 .. n)
      read == Min({n \in 0 .. Len(commands) : bytes(n) >= bytes(Len(commands)) % 8})
  IN  SubSeq(commands, 1, read)

\* Mutant: the commands of a reply are parsed without a look at its ACK.
ReceiveAckIgnored(d) == d

\* ParseCommands: the ACK first, then one command after the other.
ReceiveAck(d) == IF d.waitingAck /\ Confirmed THEN resetRetransmissionParameters(d) ELSE d

ParseCommand ==
  /\ phase = "parsing"
  /\ IF inbox = <<>>
     THEN /\ phase' = "idle"
          /\ UNCHANGED <<device, inbox>>
     ELSE /\ device' = Execute(device, Head(inbox))
          /\ inbox' = Tail(inbox)
          /\ UNCHANGED phase
  /\ UNCHANGED <<history, uplink, calm, requested>>

-------------------------------------------------------------------------------
(* The device sends.                                                           *)

\* DoSend: a new packet takes the queued commands with it, and they are
\* forgotten; a retransmission gets fresh headers with what is queued by then.
DoSend(isNew) ==
  IF isNew
  THEN [device EXCEPT !.commands = <<>>, !.waitingAck = Confirmed,
                      !.retxLeft = IF Confirmed THEN MaxNumbTx - 1 ELSE MaxNumbTx]
  ELSE [device EXCEPT !.retxLeft = @ - 1]

\* Mutant: the wrong half of the attempts.
AdaptOddAttempts(d) ==
  IF EnableDRAdapt /\ d.dataRate > 0 /\ d.retxLeft < MaxNumbTx /\ d.retxLeft % 2 = 1
  THEN [d EXCEPT !.dataRate = @ - 1, !.txPower = 14]
  ELSE d

\* SendToPhy lowers the data rate with every second attempt.
AdaptDataRate(d) ==
  IF EnableDRAdapt /\ d.dataRate > 0 /\ d.retxLeft < MaxNumbTx /\ d.retxLeft % 2 = 0
  THEN [d EXCEPT !.dataRate = @ - 1, !.txPower = 14]
  ELSE d

\* Looking up the waiting time of a channel outside every sub-band aborts, the
\* reply data rate of an offset beyond 5 throws.
CannotSend(d) == d.rx1DrOffset > 5 \/ \E i \in DOMAIN d.channels : d.channels[i].on /\ ~d.channels[i].known

\* Nothing came in the first window.  The second one lasts a number of symbols,
\* which needs a bandwidth: at() throws, or the length is a division by zero.
OpenSecondReceiveWindow(d) == IF d.rx2DataRate >= 7 THEN Throw(d) ELSE d

\* InsertReceivedPacket: what the gateways heard, the last HistoryRange of it.
InsertReceivedPacket(d, heard) ==
  LET all == Append(history, [g \in heard |-> RxPower(d, g)])
  IN  IF Len(all) > HistoryRange THEN SubSeq(all, 2, Len(all)) ELSE all

\* Mutant: the budget is not looked at.
MayRetransmitAlways == device.waitingAck

\* FailedReception and CloseSecondReceiveWindow send again while attempts are left.
MayRetransmit == device.waitingAck /\ device.retxLeft > 0

\* An attempt: the gateways in range hear it, unless it is lost at some.
Transmit(isNew) ==
  /\ phase = "idle" /\ device.alive
  /\ isNew \/ MayRetransmit
  /\ LET sent == AdaptDataRate(DoSend(isNew))
     IN  \/ /\ CannotSend(device)
            /\ device' = Throw(device)
            /\ UNCHANGED <<history, uplink, phase>>
         \/ /\ ~CannotSend(device)
            /\ \E heard \in IF calm THEN {Hearing(sent)} ELSE SUBSET Hearing(sent) :
                 IF heard = {}
                 THEN /\ device' = OpenSecondReceiveWindow(sent)
                      /\ UNCHANGED <<history, uplink, phase>>
                 ELSE /\ device' = sent
                      /\ history' = InsertReceivedPacket(sent, heard)
                      /\ uplink' = OnTheAir(device.commands)
                      /\ phase' = "window"
  /\ UNCHANGED <<inbox, calm, requested>>

\* The last attempt was not acknowledged.
GiveUp ==
  /\ phase = "idle" /\ device.alive
  /\ device.waitingAck /\ device.retxLeft = 0
  /\ device' = resetRetransmissionParameters(device)
  /\ UNCHANGED <<history, uplink, inbox, phase, calm, requested>>

\* AddMacCommand, with which an application asks for a link check.
AddMacCommand ==
  /\ phase = "idle" /\ device.alive
  /\ requested < MaxRequests
  /\ device' = Answer(device, LinkCheckReq)
  /\ requested' = requested + 1
  /\ UNCHANGED <<history, uplink, inbox, phase, calm>>

-------------------------------------------------------------------------------
(* The server replies.                                                         *)

\* GetBestGatewayForDevice, while every gateway is free to send.
Strongest ==
  LET gwList == history[Len(history)]
  IN  {g \in DOMAIN gwList : \A other \in DOMAIN gwList : gwList[other] <= gwList[g]}

\* OnReceiveWindowOpportunity with a gateway that can send: the components fill
\* in the reply, which goes out when there is anything in it.
Reply(window, request) ==
  /\ phase = "window"
  /\ calm => window = 1
  /\ LET commands == LinkCheckCommand \o AdrCommand \o request
     IN  \E g \in IF calm THEN Strongest ELSE DOMAIN history[Len(history)] :
           LET needsReply == Confirmed \/ commands # <<>>
               listening == IF window = 1 THEN device ELSE OpenSecondReceiveWindow(device)
               hears == needsReply /\ listening.alive /\ HearsReply(device, g, window)
           IN  \/ /\ hears
                  /\ device' = ReceiveAck(device)
                  /\ inbox' = OnTheAir(commands)
                  /\ phase' = "parsing"
               \/ /\ ~(calm /\ hears)
                  /\ device' = OpenSecondReceiveWindow(device)
                  /\ phase' = "idle"
                  /\ UNCHANGED inbox
  /\ requested' = requested + Len(request)
  /\ UNCHANGED <<history, uplink, calm>>

BeforeSendingReply(window) ==
  \/ Reply(window, <<>>)
  \/ /\ requested < MaxRequests
     /\ \E c \in Requests : Reply(window, <<c>>)

\* No gateway can send in either window: InitializeReply forgets the reply.
InitializeReply ==
  /\ phase = "window" /\ ~calm
  /\ phase' = "idle"
  /\ device' = OpenSecondReceiveWindow(device)
  /\ UNCHANGED <<history, uplink, inbox, calm, requested>>

\* Interference and other traffic end.
CalmDown ==
  /\ ~calm /\ calm' = TRUE
  /\ UNCHANGED <<device, history, uplink, inbox, phase, requested>>

Init ==
  /\ \E dr \in 0 .. 5 :
       device = [dataRate |-> dr, txPower |-> 14, channels |-> Channels, rx1DrOffset |-> 0,
                 rx2DataRate |-> 0, rx2Frequency |-> "869.525", aggregatedDutyCycle |-> <<1, 0>>,
                 gatewayCount |-> 0, commands |-> <<>>, waitingAck |-> FALSE, retxLeft |-> MaxNumbTx,
                 alive |-> TRUE]
  /\ Hearing(device) # {}
  /\ history = <<>>
  /\ uplink = <<>>
  /\ inbox = <<>>
  /\ phase = "idle"
  /\ calm = FALSE
  /\ requested = 0

Next ==
  \/ \E isNew \in BOOLEAN : Transmit(isNew)
  \/ GiveUp
  \/ AddMacCommand
  \/ \E window \in 1 .. 2 : BeforeSendingReply(window)
  \/ InitializeReply
  \/ ParseCommand
  \/ CalmDown

Spec == Init /\ [][Next]_vars

\* The windows of an attempt are over, with a reply or without.
WindowsPass == phase = "window" /\ phase' \in {"idle", "parsing"}

\* Applications keep sending, and events that are scheduled run.
FairSpec ==
  /\ Spec
  /\ WF_vars(\E isNew \in BOOLEAN : Transmit(isNew))
  /\ WF_phase(WindowsPass)
  /\ WF_vars(ParseCommand)

-------------------------------------------------------------------------------
(* Properties.                                                                 *)

\* What a device sends: the made-up values of DevStatusAns leave one of each.
Answers == {LinkCheckReq, DutyCycleAns, [cmd |-> "DevStatusAns", battery |-> 10, margin |-> 10]}
           \union LinkAdrAns \union RxParamSetupAns \union NewChannelAns

Device == [dataRate: 0 .. 6, txPower: 0 .. 16, channels: [DOMAIN Channels -> Channel],
           rx1DrOffset: 0 .. 7, rx2DataRate: 0 .. 15, rx2Frequency: {"869.525", "Hz"},
           aggregatedDutyCycle: {0, 1} \X Byte, gatewayCount: Byte,
           commands: Seq(Answers), waitingAck: BOOLEAN, retxLeft: 0 .. 255, alive: BOOLEAN]

\* The registers of the device stay within the tables they index.
TypeOK ==
  /\ device \in Device
  /\ Len(history) <= HistoryRange
  /\ \A i \in DOMAIN history :
       DOMAIN history[i] \subseteq Gateways /\ DOMAIN history[i] # {}
  /\ uplink \in Seq(Answers) /\ inbox \in Seq(Downlinks)
  /\ phase \in {"idle", "window", "parsing"} /\ calm \in BOOLEAN
  /\ requested \in 0 .. MaxRequests
  /\ phase = "window" => history # <<>>

\* A device that some gateway hears at the start is heard for ever: no history
\* of receptions, some of them from before a change of power or data rate and
\* some missed by the nearest gateway, makes AdrComponent turn it down too far.
StaysHeard == Hearing(device) # {}

\* A device never enables a set of channels none of which admits its data rate.
AlwaysAChannel ==
  device.alive => \E i \in DOMAIN device.channels :
                    device.channels[i].on /\ Admits(device.channels[i], device.dataRate)

\* Commands reach a device that sends confirmed packets only together with the
\* ACK, so none of its answers is queued while it may still retransmit: a
\* retransmission would carry an answer that DoSend forgets only with the next
\* new packet, and the server would get it twice.
NoAnswerTwice ==
  device.waitingAck => \A i \in DOMAIN device.commands : device.commands[i] = LinkCheckReq

\* Once nothing is lost any more, AdrComponent comes to rest: it does not move a
\* device to and fro for ever.
AdrSettles == <>[]calm => <>[](phase = "window" => AdrCommand = <<>>)
===============================================================================
