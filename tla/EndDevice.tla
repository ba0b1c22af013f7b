------------------------------ MODULE EndDevice ------------------------------
(***************************************************************************)
(* A Class A LoRaWAN end device: ClassAEndDeviceLorawanMac and its base    *)
(* EndDeviceLorawanMac on top of SimpleEndDeviceLoraPhy, run by the ns-3   *)
(* event list.  The application hands packets down (Send), the channel     *)
(* hands signals up (StartReceive), and everything else happens in events  *)
(* the device schedules for itself.                                        *)
(*                                                                         *)
(* The handlers call each other in the middle of their own work, so each   *)
(* is an operator from a device state to a device state, or to the set of  *)
(* device states it may produce; the actions at the end apply them.        *)
(***************************************************************************)
EXTENDS Integers, FiniteSets, Sequences, Ns3Events

CONSTANTS
  Packets,       \* application packets
  Oversize,      \* those over the payload limit once the headers are added
  None,          \* no packet
  SubBands,      \* sub-bands of the enabled channels
  DutyDiv,       \* 1 / duty cycle of each sub-band
  AirTimes,      \* on-air times of uplinks, in ticks
  RxTimes,       \* on-air times of the signals a device may lock on
  Outcomes,      \* what the receptions turn out to be
  ReceiveDelay1, ReceiveDelay2, Window1, Window2,
  AckTimeouts,   \* values of the uniform draw of ACK_TIMEOUT
  TsFloor,       \* how long ago the timestamp of an event is told apart
  MaxNumbTx,     \* m_maxNumbTx
  Confirmed,     \* m_mType is CONFIRMED_DATA_UP
  TxGap          \* the outside may act between SwitchToStandby and TxFinished

AllOutcomes == {"ack", "data", "other", "uplink", "lost"}

ASSUME PacketsAssumption == None \notin Packets /\ Oversize \subseteq Packets
ASSUME TimesAssumption ==
  /\ AirTimes \subseteq Nat \ {0} /\ RxTimes \subseteq Nat \ {0}
  /\ AckTimeouts \subseteq Nat /\ TsFloor \in Nat
  /\ \A u \in AckTimeouts : u <= TsFloor
  /\ ReceiveDelay1 \in Nat \ {0} /\ ReceiveDelay2 \in Nat \ {0}
  /\ Window1 \in Nat \ {0} /\ Window2 \in Nat \ {0} /\ Window2 <= TsFloor
ASSUME RadioAssumption ==
  /\ SubBands # {} /\ IsFiniteSet(SubBands)
  /\ DutyDiv \in [SubBands -> Nat \ {0}]
  /\ Outcomes \subseteq AllOutcomes
  /\ MaxNumbTx \in 1..255 /\ Confirmed \in BOOLEAN /\ TxGap \in BOOLEAN

VARIABLE ed      \* the state of the device, see InitialDevice
vars == <<ed>>

Functions == {"SwitchToStandby", "TxFinished", "EndReceive", "DoSend",
              "OpenFirstReceiveWindow", "CloseFirstReceiveWindow",
              "OpenSecondReceiveWindow", "CloseSecondReceiveWindow"}
PhyStates == {"SLEEP", "STANDBY", "TX", "RX"}
NoReport == [txs |-> 0, ok |-> FALSE, packet |-> None, made |-> FALSE]

InitialDevice ==
  [state      |-> "SLEEP",                      \* m_state of the PHY
   events     |-> <<>>,                         \* pending ns-3 events
   waitingAck |-> FALSE,                        \* m_retxParams
   retxLeft   |-> MaxNumbTx,
   packet     |-> None,
   secondTs   |-> 0,                            \* timestamp held by m_secondReceiveWindow, minus now
   wait       |-> [b \in SubBands |-> 0],       \* waiting time of each sub-band
   report     |-> NoReport,                     \* the m_requiredTxCallback call of this step
   onAir      |-> 0,                            \* history: times the current packet left the antenna
   aborted    |-> "no"]                         \* the assertion or dereference that ended the run

-----------------------------------------------------------------------------
(* PHY: EndDeviceLoraPhy and SimpleEndDeviceLoraPhy *)

Abort(s, why) == [s EXCEPT !.aborted = IF @ = "no" THEN why ELSE @]

SwitchToStandby(s) == [s EXCEPT !.state = "STANDBY"]

\* NS_ASSERT (m_state == STANDBY)
SwitchToSleep(s) ==
  IF s.state = "STANDBY" THEN [s EXCEPT !.state = "SLEEP"] ELSE Abort(s, "SwitchToSleep")

\* Faulty variant: TxFinished is scheduled ahead of the switch it relies on.
PhySendReordered(s, d) ==
  IF s.state \notin {"STANDBY", "SLEEP"}
  THEN s
  ELSE [s EXCEPT !.state = "TX",
                 !.onAir = @ + 1,
                 !.events = Schedule(Schedule(@, "TxFinished", d, None),
                                     "SwitchToStandby", d, None)]

\* A radio that is busy ignores the request and tells nobody.
PhySend(s, d) ==
  IF s.state \notin {"STANDBY", "SLEEP"}
  THEN s
  ELSE [s EXCEPT !.state = "TX",
                 !.onAir = @ + 1,
                 !.events = Schedule(Schedule(@, "SwitchToStandby", d, None),
                                     "TxFinished", d, None)]

-----------------------------------------------------------------------------
(* Sending: EndDeviceLorawanMac and ClassAEndDeviceLorawanMac *)

Report(s, ok) ==
  [s EXCEPT !.report = [txs |-> (MaxNumbTx - s.retxLeft) % 256, ok |-> ok,
                        packet |-> s.packet, made |-> TRUE]]

\* Faulty variant: a pending transmission outlives the reset.
resetWithoutCancel(s) ==
  [s EXCEPT !.waitingAck = FALSE, !.retxLeft = MaxNumbTx, !.packet = None]

resetRetransmissionParameters(s) ==
  [s EXCEPT !.waitingAck = FALSE, !.retxLeft = MaxNumbTx, !.packet = None,
            !.events = Cancel(@, "DoSend")]

\* Faulty variant: the sub-band reopens as soon as the packet has left.
OffTimeIgnoringDuty(b, d) == d

\* A sub-band that carried a packet of air time d is closed for
\* d / dutyCycle - d, counted from the start of the transmission.
OffTime(b, d) == d * DutyDiv[b] - d

FreeSubBands(s) == {b \in SubBands : s.wait[b] = 0}

\* Faulty variant: the transmission is charged to no sub-band.
SendToPhyUncharged(s) ==
  IF FreeSubBands(s) = {}
  THEN {Abort(s, "GetChannelForTx")}
  ELSE {PhySend(s, d) : d \in AirTimes}

\* GetChannelForTx shuffles the enabled channels; with none free its null
\* result is dereferenced.  The transmission is charged to the sub-band
\* whether or not the radio accepted it.
SendToPhy(s) ==
  IF FreeSubBands(s) = {}
  THEN {Abort(s, "GetChannelForTx")}
  ELSE {[PhySend(s, d) EXCEPT !.wait[b] = OffTime(b, d)] :
           b \in FreeSubBands(s), d \in AirTimes}

DoSend(s, p) ==
  IF p # s.packet
  THEN LET old == IF s.waitingAck THEN Report(s, FALSE) ELSE s
           new == [resetRetransmissionParameters(old) EXCEPT !.onAir = 0]
       IN  SendToPhy(IF Confirmed
                     THEN [new EXCEPT !.packet = p, !.waitingAck = TRUE,
                                      !.retxLeft = MaxNumbTx - 1]
                     ELSE new)
  ELSE IF s.waitingAck
       THEN SendToPhy([s EXCEPT !.retxLeft = (@ - 1) % 256])
       ELSE {s}

postponeTransmission(s, delay, p) ==
  [s EXCEPT !.events = Schedule(Cancel(@, "DoSend"), "DoSend", delay, p)]

Later(a, b) == IF a < b THEN b ELSE a

DutyCycleDelay(s) ==
  CHOOSE w \in {s.wait[b] : b \in SubBands} : \A b \in SubBands : w <= s.wait[b]

WindowsPending(s) ==
  \/ Pending(s.events, "CloseFirstReceiveWindow")
  \/ Pending(s.events, "CloseSecondReceiveWindow")
  \/ Pending(s.events, "OpenSecondReceiveWindow")

\* Faulty variant: the delay is left negative once the timeout has passed.
DelayUnclamped(s) ==
  IF s.waitingAck THEN {s.secondTs + u : u \in AckTimeouts} ELSE {DutyCycleDelay(s)}
\* GetNextTransmissionDelay and GetNextClassTransmissionDelay: the values the
\* delay can take (one for every draw of ACK_TIMEOUT).
GetNextTransmissionDelay(s) ==
  IF s.waitingAck
  THEN {Later(DutyCycleDelay(s), s.secondTs + u) : u \in AckTimeouts}
  ELSE IF WindowsPending(s)
       THEN {Later(DutyCycleDelay(s), s.secondTs + Window2)}
       ELSE {DutyCycleDelay(s)}

\* The retransmission copy already carries its headers when its size is
\* compared with the largest payload.
TooLarge(s, p) == p = s.packet /\ p \in Oversize

SendWithDelay(s, p, delay) ==
  IF delay # 0
  THEN {postponeTransmission(s, delay, p)}
  ELSE IF s.retxLeft > 0 THEN DoSend(s, p) ELSE {s}

Send(s, p) ==
  IF TooLarge(s, p)
  THEN {s}
  ELSE UNION {SendWithDelay(s, p, delay) : delay \in GetNextTransmissionDelay(s)}

-----------------------------------------------------------------------------
(* Receiving: ClassAEndDeviceLorawanMac *)

\* Faulty variant: giving a packet up tells nobody.
GiveUpSilently(s) ==
  IF s.retxLeft > 0 THEN Send(s, s.packet) ELSE {resetRetransmissionParameters(s)}

\* What every handler that finds the reply missing does next.
RetransmitOrFail(s) ==
  IF s.retxLeft > 0
  THEN Send(s, s.packet)
  ELSE {resetRetransmissionParameters(Report(s, FALSE))}

LastWindowUsed(s) == s.waitingAck /\ ~Pending(s.events, "OpenSecondReceiveWindow")

\* Faulty variant: a reply lost to interference ends the procedure silently.
FailedReceptionSilent(s) == {SwitchToSleep(s)}

FailedReception(s) ==
  LET asleep == SwitchToSleep(s)
  IN  IF LastWindowUsed(s) THEN RetransmitOrFail(asleep) ELSE {asleep}

\* The ACK part of ParseCommands.
ParseAck(s, ack) ==
  IF s.waitingAck /\ ack
  THEN resetRetransmissionParameters(Report(s, TRUE))
  ELSE s

\* A downlink for this device; its sleep comes last.
ReceiveForUs(s, ack) ==
  {SwitchToSleep(ParseAck([s EXCEPT !.events = Cancel(@, "OpenSecondReceiveWindow")], ack))}

\* A downlink for another device, or an uplink: the retransmission is
\* arranged first and the radio is put to sleep after it.
ReceiveForOthers(s) ==
  {SwitchToSleep(t) : t \in IF LastWindowUsed(s) THEN RetransmitOrFail(s) ELSE {s}}

EndReceive(s, outcome) ==
  LET up == SwitchToStandby(s)
  IN  CASE outcome = "lost" -> FailedReception(up)
        [] outcome = "ack"  -> ReceiveForUs(up, TRUE)
        [] outcome = "data" -> ReceiveForUs(up, FALSE)
        [] OTHER            -> ReceiveForOthers(up)

TxFinished(s) ==
  SwitchToSleep(
    [s EXCEPT !.events = Schedule(Schedule(@, "OpenFirstReceiveWindow", ReceiveDelay1, None),
                                  "OpenSecondReceiveWindow", ReceiveDelay2, None),
              !.secondTs = ReceiveDelay2])

OpenFirstReceiveWindow(s) ==
  [SwitchToStandby(s) EXCEPT
     !.events = Schedule(@, "CloseFirstReceiveWindow", Window1, None)]

CloseFirstReceiveWindow(s) ==
  CASE s.state = "TX"      -> Abort(s, "CloseFirstReceiveWindow")
    [] s.state = "STANDBY" -> SwitchToSleep(s)
    [] OTHER               -> s

OpenSecondReceiveWindow(s) ==
  IF s.state = "RX"
  THEN s
  ELSE [SwitchToStandby(s) EXCEPT
          !.events = Schedule(@, "CloseSecondReceiveWindow", Window2, None)]

\* Faulty variant: a window in which nothing was heard leaves the radio on.
CloseSecondAwake(s) ==
  IF s.state = "RX" THEN {s}
  ELSE IF s.waitingAck THEN RetransmitOrFail(s)
  ELSE {resetRetransmissionParameters(Report(s, TRUE))}

CloseSecondReceiveWindow(s) ==
  LET closed == IF s.state = "STANDBY" THEN SwitchToSleep(s) ELSE s
  IN  IF s.state = "RX" THEN {s}
      ELSE IF s.waitingAck THEN RetransmitOrFail(closed)
      ELSE {resetRetransmissionParameters(Report(closed, TRUE))}

-----------------------------------------------------------------------------
(* Actions *)

Running == ed.aborted = "no"

\* The device as the next event, number i of the list, finds it.
Popped(i) == [ed EXCEPT !.events = Without(@, i), !.report = NoReport]

RunsNext(fn, i) ==
  /\ Running
  /\ IsNext(ed.events, i)
  /\ ed.events[i].fn = fn

RunSwitchToStandby(i) ==
  /\ RunsNext("SwitchToStandby", i)
  /\ ed' = SwitchToStandby(Popped(i))

RunTxFinished(i) ==
  /\ RunsNext("TxFinished", i)
  /\ ed' = TxFinished(Popped(i))

RunOpenFirst(i) ==
  /\ RunsNext("OpenFirstReceiveWindow", i)
  /\ ed' = OpenFirstReceiveWindow(Popped(i))

RunCloseFirst(i) ==
  /\ RunsNext("CloseFirstReceiveWindow", i)
  /\ ed' = CloseFirstReceiveWindow(Popped(i))

RunOpenSecond(i) ==
  /\ RunsNext("OpenSecondReceiveWindow", i)
  /\ ed' = OpenSecondReceiveWindow(Popped(i))

RunCloseSecond(i) ==
  /\ RunsNext("CloseSecondReceiveWindow", i)
  /\ ed' \in CloseSecondReceiveWindow(Popped(i))

RunDoSend(i) ==
  /\ RunsNext("DoSend", i)
  /\ ed' \in DoSend(Popped(i), ed.events[i].arg)

RunEndReceive(i) ==
  /\ RunsNext("EndReceive", i)
  /\ \E outcome \in Outcomes : ed' \in EndReceive(Popped(i), outcome)

RunEvent ==
  \E i \in DOMAIN ed.events :
    \/ RunSwitchToStandby(i)
    \/ RunTxFinished(i)
    \/ RunOpenFirst(i)
    \/ RunCloseFirst(i)
    \/ RunOpenSecond(i)
    \/ RunCloseSecond(i)
    \/ RunDoSend(i)
    \/ RunEndReceive(i)

Scheduled(fn) == \E i \in DOMAIN ed.events : ed.events[i].fn = fn

\* TxFinished is scheduled 10 ns after SwitchToStandby, "just after".
OutsideMayAct ==
  /\ Running
  /\ TxGap \/ ~Scheduled("TxFinished") \/ Scheduled("SwitchToStandby")

\* A packet object the application can hand down: one nothing refers to.
Fresh(p) == p # ed.packet /\ \A i \in DOMAIN ed.events : ed.events[i].arg # p

AppSend(p) ==
  /\ OutsideMayAct /\ Fresh(p)
  /\ ed' \in Send([ed EXCEPT !.report = NoReport], p)

\* A signal of length d the radio can lock on begins.  One it cannot lock on,
\* or that finds the radio in another state, leaves the device as it is.
StartReceive(d) ==
  /\ OutsideMayAct /\ ed.state = "STANDBY"
  /\ ed' = [ed EXCEPT !.state = "RX", !.report = NoReport,
                      !.events = Schedule(@, "EndReceive", d, None)]

\* The device one tick later.
OneTickLater(s) ==
  [s EXCEPT !.report   = NoReport,
            !.events   = Elapse(@),
            !.wait     = [b \in SubBands |-> Later(s.wait[b] - 1, 0)],
            !.secondTs = Later(@ - 1, 0 - TsFloor)]

\* One tick passes, once every event of this instant has run.
Tick ==
  /\ Running /\ Quiet(ed.events)
  /\ ed' = OneTickLater(ed)

Init == ed = InitialDevice

Next ==
  \/ RunEvent
  \/ \E p \in Packets : AppSend(p)
  \/ \E d \in RxTimes : StartReceive(d)
  \/ Tick

Spec == Init /\ [][Next]_vars

\* The simulator keeps running: the main loop takes every due event and
\* moves the clock on.
FairSpec == Spec /\ WF_vars(RunEvent) /\ WF_vars(Tick)
-----------------------------------------------------------------------------
(* Properties *)

MaybePacket == Packets \cup {None}
Event == [fn : Functions, due : Nat, held : BOOLEAN, arg : MaybePacket]

Aborts == {"no", "SwitchToSleep", "GetChannelForTx", "CloseFirstReceiveWindow"}

Byte == 0..255
WaitingTimes == [SubBands -> Nat]
Reports == [txs : Byte, ok : BOOLEAN, packet : MaybePacket, made : BOOLEAN]

DeviceType ==
  [state : PhyStates, events : Seq(Event), waitingAck : BOOLEAN, retxLeft : Byte,
   packet : MaybePacket, secondTs : Int, wait : WaitingTimes, report : Reports,
   onAir : Nat, aborted : Aborts]

\* The state of the device keeps its type; the uint8_t counters stay in range.
TypeOK == ed \in DeviceType

\* The run never ends in an assertion of the PHY, in the NS_ABORT of
\* CloseFirstReceiveWindow, or in the dereference of a null channel.
NoAbort == ed.aborted = "no"

\* A transmission never overlaps the receive windows of the previous one: at
\* most the closing of the second one is left to do at this instant.
WindowsAreQuiet ==
  ed.state = "TX" =>
    \A i \in DOMAIN ed.events :
      /\ ed.events[i].fn \notin {"OpenFirstReceiveWindow", "CloseFirstReceiveWindow",
                                "OpenSecondReceiveWindow"}
      /\ ed.events[i].fn = "CloseSecondReceiveWindow" => ed.events[i].due = 0

\* Every attempt the retransmission budget was charged for really left the
\* antenna: a busy radio never swallows one.
AttemptsOnAir == ed.waitingAck => ed.onAir = MaxNumbTx - ed.retxLeft

\* The budget is never exceeded and its uint8_t counter never wraps.
BudgetKept == ed.retxLeft <= MaxNumbTx

\* m_nextTx names the only transmission that is pending: postponing and
\* resetting leave no other one behind.
OnePendingTransmission ==
  \A i, j \in DOMAIN ed.events :
    ed.events[i].fn = "DoSend" /\ ed.events[j].fn = "DoSend" => i = j

\* Once a packet leaves the retransmission procedure (acknowledged, given up
\* or replaced by a new one) no pending event will transmit it again.
NoStaleRetransmission ==
  [][\A p \in Packets :
       ed.packet = p /\ ed'.packet # p
         => \A i \in DOMAIN ed'.events : ed'.events[i].arg # p]_vars

\* A packet leaves the retransmission procedure only together with a report
\* that names it, whichever handler ends the procedure: the ACK, the last
\* attempt, or a new packet that takes its place.
EndIsReported ==
  [][ed.waitingAck /\ (~ed'.waitingAck \/ ed'.packet # ed.packet)
       => ed'.report.made /\ ed'.report.packet = ed.packet]_vars

\* Every packet the device waits to have acknowledged is reported to the
\* RequiredTransmissions trace source in the end.
EveryPacketReported ==
  \A p \in Packets :
    (ed.packet = p) ~> (ed.report.made /\ ed.report.packet = p)

\* The device goes back to sleep after whatever it does.
RadioSleeps == (ed.state # "SLEEP") ~> (ed.state = "SLEEP")
=============================================================================
