----------------------------- MODULE RTSchedule -----------------------------
(***************************************************************************)
(* The real-time schedule: rt-lorawan-simulator sizes slots and windows    *)
(* (index.js), rt-lorawan-2 turns the slot of each device into the initial *)
(* delay and the period of a PeriodicSender, the device's MAC layer sends  *)
(* or postpones, and the traces of rt-lorawan-2 compare the outcome with   *)
(* the slot.  The devices are those of module EndDevice, with unconfirmed  *)
(* packets, the default of their MType attribute.                          *)
(***************************************************************************)
EXTENDS Integers, FiniteSets, Sequences, Ns3Events

CONSTANTS
  Devices, Gateways,
  AirTime,       \* on-air time of every packet: all devices use one data rate
  TableAirTime,  \* packetAirtimeBySF
  TimeGuard,     \* time_guard
  Second,        \* one second, in ticks
  DutyDiv,       \* 1 / duty cycle: 100
  ReceiveDelay1, ReceiveDelay2, Window1, Window2,
  Horizon,       \* Simulator::Stop
  None, Band     \* no packet; the sub-band of the default channels

ASSUME ScheduleAssumption ==
  /\ IsFiniteSet(Devices) /\ Devices # {}
  /\ AirTime \in Nat \ {0} /\ TableAirTime \in Nat \ {0}
  /\ TimeGuard \in Nat /\ Second \in Nat \ {0} /\ DutyDiv \in Nat \ {0}
  /\ ReceiveDelay1 \in Nat \ {0} /\ ReceiveDelay2 \in Nat \ {0}
  /\ Window1 \in Nat \ {0} /\ Window2 \in Nat \ {0}
  /\ Horizon \in Nat /\ None \notin Nat

VARIABLES
  plan,          \* the scenario: covers, slot, window and length
  now,           \* Simulator::Now
  app,           \* when the PeriodicSender of each device sends next
  eds,           \* the devices
  tasks,         \* tasksCounter
  starts,        \* the last event of type 1 of each device
  finishes       \* the last event of type 2 of each device
vars == <<plan, now, app, eds, tasks, starts, finishes>>

Device(d) == INSTANCE EndDevice
  WITH Packets <- Nat, Oversize <- {}, SubBands <- {Band}, DutyDiv <- [b \in {Band} |-> DutyDiv],
       AirTimes <- {AirTime}, RxTimes <- {AirTime}, Outcomes <- {"uplink"}, AckTimeouts <- {0},
       TsFloor <- Window2, MaxNumbTx <- 8, Confirmed <- FALSE, TxGap <- FALSE, ed <- eds[d]

-----------------------------------------------------------------------------
(* index.js *)

CeilDiv(a, b) == (a + b - 1) \div b

\* Faulty variant: only the packet and the wait before its first window.
SlotLengthUplinkOnly == TimeGuard + TableAirTime + TableAirTime

\* getSlotLengthBySF
SlotLength ==
  LET RX_1_DELAY == TableAirTime
      RX_2_DELAY == RX_1_DELAY + Second
  IN  TimeGuard + TableAirTime + RX_1_DELAY + TableAirTime + RX_2_DELAY + TableAirTime + TimeGuard

DutyCycleLength == CeilDiv(TableAirTime * DutyDiv, SlotLength)

DevicesOf(covers, g) == {d \in Devices : g \in covers[d]}

MaxDevices(covers) ==
  CHOOSE n \in 0..Cardinality(Devices) :
    /\ \E g \in Gateways : n = Cardinality(DevicesOf(covers, g))
    /\ \A g \in Gateways : Cardinality(DevicesOf(covers, g)) <= n

Larger(a, b) == IF a < b THEN b ELSE a

\* Faulty variant: the duty cycle is not provided for.
WindowForDevicesOnly(covers) == MaxDevices(covers)

WindowLength(covers) == Larger(DutyCycleLength, MaxDevices(covers))

\* Devices heard by no gateway are not scheduled.
Coverages == [Devices -> (SUBSET Gateways) \ {{}}]

\* The slots are assigned between index.js and rt-lorawan-2: any assignment in
\* which the devices of a gateway have slots of their own.
Assignments(covers) ==
  {slot \in [Devices -> 1..WindowLength(covers)] :
     \A d, e \in Devices :
       d # e /\ covers[d] \cap covers[e] # {} => slot[d] # slot[e]}

-----------------------------------------------------------------------------
(* rt-lorawan-2 and PeriodicSender *)

\* Faulty variants: slots are counted from 0; packets back to back.
InitialDelayFromZero(slot) == SlotLength * slot
InitialDelayBackToBack(slot) == TableAirTime * (slot - 1)
InitialDelay(slot) == SlotLength * (slot - 1)

\* Faulty variant: one slot too long.
IntervalPlusSlot == plan.length * (plan.window + 1)
Interval == plan.length * plan.window

TheoreticalStart(d, task) ==
  (plan.window * task - (plan.window - plan.slot[d]) - 1) * plan.length

DeadlineFinish(d, task) ==
  (plan.window * task - (plan.window - plan.slot[d])) * plan.length

NoEvent == [task |-> 0, theoretical |-> 0, actual |-> 0]

\* OnEDStartTxPackets, called when the MAC layer hands a new packet to the PHY;
\* OnEDFinishTxPackets, called when the transmission is over.
OnEDStartTxPackets(d) ==
  /\ tasks' = [tasks EXCEPT ![d] = @ + 1]
  /\ starts' = [starts EXCEPT ![d] =
       [task |-> tasks'[d], theoretical |-> TheoreticalStart(d, tasks'[d]), actual |-> now]]
  /\ UNCHANGED finishes

OnEDFinishTxPackets(d) ==
  /\ finishes' = [finishes EXCEPT ![d] =
       [task |-> tasks[d], theoretical |-> DeadlineFinish(d, tasks[d]), actual |-> now]]
  /\ UNCHANGED <<tasks, starts>>

-----------------------------------------------------------------------------
(* Steps of the devices *)

\* The sub-band of a device is charged exactly when DoSend sends a packet.
Sends(d, s) == s.wait[Band] > eds[d].wait[Band]

\* The devices whose first window is open: the radio listens on the channel of
\* the device's own last packet, and locks on any packet it hears there.
Listening(d) ==
  {e \in Devices \ {d} :
     eds[e].state = "STANDBY" /\ Pending(eds[e].events, "CloseFirstReceiveWindow")}

Locked(s) ==
  [s EXCEPT !.state = "RX", !.events = Schedule(@, "EndReceive", AirTime, None)]

\* Device d takes state s.  A packet it puts on air may be overheard.
Becomes(d, s) ==
  \E heard \in SUBSET (IF s.state = "TX" /\ eds[d].state # "TX" THEN Listening(d) ELSE {}) :
    eds' = [e \in Devices |-> IF e = d THEN s ELSE IF e \in heard THEN Locked(eds[e]) ELSE eds[e]]

\* The states device d may be in after the event number i of its list.
After(d, i) ==
  LET s == Device(d)!Popped(i)
      e == eds[d].events[i]
  IN  CASE e.fn = "SwitchToStandby"          -> {Device(d)!SwitchToStandby(s)}
        [] e.fn = "TxFinished"               -> {Device(d)!TxFinished(s)}
        [] e.fn = "OpenFirstReceiveWindow"   -> {Device(d)!OpenFirstReceiveWindow(s)}
        [] e.fn = "CloseFirstReceiveWindow"  -> {Device(d)!CloseFirstReceiveWindow(s)}
        [] e.fn = "OpenSecondReceiveWindow"  -> {Device(d)!OpenSecondReceiveWindow(s)}
        [] e.fn = "CloseSecondReceiveWindow" -> Device(d)!CloseSecondReceiveWindow(s)
        [] e.fn = "DoSend"                   -> Device(d)!DoSend(s, e.arg)
        [] e.fn = "EndReceive"               -> Device(d)!EndReceive(s, "uplink")

\* PeriodicSender::SendPacket.  The packets of a device are told apart by the
\* instant they were created.
SendPacket(d) ==
  /\ app[d] = now /\ Device(d)!OutsideMayAct
  /\ app' = [app EXCEPT ![d] = now + Interval]
  /\ \E s \in Device(d)!Send(eds[d], now) :
       /\ Becomes(d, s)
       /\ IF Sends(d, s) THEN OnEDStartTxPackets(d) ELSE UNCHANGED <<tasks, starts, finishes>>
  /\ UNCHANGED <<plan, now>>

RunEvent(d) ==
  /\ \E i \in DOMAIN eds[d].events :
       /\ Device(d)!Running /\ IsNext(eds[d].events, i)
       /\ \E s \in After(d, i) :
            /\ Becomes(d, s)
            /\ IF Sends(d, s) THEN OnEDStartTxPackets(d)
               ELSE IF eds[d].events[i].fn = "TxFinished" THEN OnEDFinishTxPackets(d)
               ELSE UNCHANGED <<tasks, starts, finishes>>
  /\ UNCHANGED <<plan, now, app>>

InstantIsOver == \A d \in Devices : Quiet(eds[d].events) /\ app[d] # now

Tick ==
  /\ InstantIsOver /\ now < Horizon
  /\ now' = now + 1
  /\ eds' = [d \in Devices |-> Device(d)!OneTickLater(eds[d])]
  /\ UNCHANGED <<plan, app, tasks, starts, finishes>>

Init ==
  /\ \E covers \in Coverages : \E slot \in Assignments(covers) :
       plan = [covers |-> covers, slot |-> slot,
               window |-> WindowLength(covers), length |-> SlotLength]
  /\ now = 0
  /\ app = [d \in Devices |-> InitialDelay(plan.slot[d])]
  /\ eds = [d \in Devices |-> Device(d)!InitialDevice]
  /\ tasks = [d \in Devices |-> 0]
  /\ starts = [d \in Devices |-> NoEvent]
  /\ finishes = [d \in Devices |-> NoEvent]

Next == Tick \/ \E d \in Devices : SendPacket(d) \/ RunEvent(d)

Spec == Init /\ [][Next]_vars
-----------------------------------------------------------------------------
(* Properties *)

\* The radio of a device never locks on the packet of another device: while
\* it listens nobody sends.
NeverOverhears == \A d \in Devices : eds[d].state # "RX"

\* The traces report every packet as started at the very beginning of its slot
\* and finished before the end of it.
TracedOnTime ==
  \A d \in Devices :
    /\ starts[d].actual = starts[d].theoretical
    /\ finishes[d].actual <= finishes[d].theoretical

\* The slots of device d that have begun: at most one every instant.
SlotsBegun(d) == {k \in 1..(now + 1) : TheoreticalStart(d, k) <= now}

\* Every slot of every device carries one packet: none is dropped, none is
\* left over for a later slot, and tasksCounter numbers the slots.
SlotsAllUsed ==
  InstantIsOver => \A d \in Devices : tasks[d] = Cardinality(SlotsBegun(d))

\* A device is busy from the start of a transmission to the end of its windows.
Busy == {d \in Devices : eds[d].state # "SLEEP" \/ eds[d].events # <<>>}

Slotted == INSTANCE SlottedAccess WITH busy <- Busy

\* The delay and the period that rt-lorawan-2 works out make every
\* PeriodicSender send at the first instant of slots its device owns.
SendersKeepSlots ==
  \A d \in Devices :
    app[d] % plan.length = 0 /\ Slotted!Owns(d, app[d])

\* The devices keep to the schedule: they begin at the start of a slot of
\* their own and have closed both receive windows before it is over.
SlotsRefined == Slotted!Spec
=============================================================================
