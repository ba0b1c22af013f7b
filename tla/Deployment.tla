------------------------------ MODULE Deployment -------------------------------
(* How a scenario comes about.  Scenario.js places gateways on a grid and      *)
(* devices around them; rt-lorawan-1 lets one device after the other send a    *)
(* frame, the reception of which starts the next device, and prints who heard  *)
(* it; index.js gives each device a window of slots and a deadline from that.  *)
EXTENDS Integers, Sequences, FiniteSets, FiniteSetsExt

CONSTANTS
  GatewayQuantities, Iterations,  \* of the configurations
  MinQty, MaxQty,                 \* of devices
  RandomNumbers,                  \* samples of Math.random, in thousandths
  DutyDiv,                        \* 1 / duty cycle: 100
  Assignments                     \* how rt-lorawan-1 chooses data rates

ASSUME DeploymentAssumption ==
  /\ GatewayQuantities \subseteq Nat \ {0} /\ Iterations \subseteq Nat
  /\ MinQty \in Nat \ {0} /\ MaxQty \in Nat /\ MinQty <= MaxQty
  /\ RandomNumbers \subseteq 0 .. 999 /\ DutyDiv \in Nat \ {0} /\ Assignments \subseteq {"SF12", "up"}

VARIABLES
  phase,
  assignment,
  gateways,      \* places, in metres
  columns,
  devices,       \* places
  sfs,           \* spreading factor of each device
  probe,         \* state of rt-lorawan-1
  rows,          \* what it printed
  schedule       \* windowlength and deadline of each device

vars == <<phase, assignment, gateways, columns, devices, sfs, probe, rows, schedule>>

between(random, min, max) == min + (random * (max - min)) \div 1000

-------------------------------------------------------------------------------
(* Scenario.js.                                                                *)

DistanceBtwGateways == 1272792  \* centimetres: the side of a square in the circle
GatewayHeight == 15

\* The number of rows that iteration chooses for a grid of qty gateways.
Columns(qty, iteration) ==
  LET dividends == {v \in 1 .. qty : v * v <= qty /\ (qty % v) = 0}
      nth == iteration % Cardinality(dividends)
  IN  CHOOSE v \in dividends : Cardinality({w \in dividends : w < v}) = nth

\* The offset of five per cent, which the loop applies again for each gateway.
distanceBtwCenters[i \in Nat] ==
  IF i = 0 THEN DistanceBtwGateways ELSE (95 * distanceBtwCenters[i - 1]) \div 100

Placed(index, distance) == (index * distance + distance \div 2 + 50) \div 100

GatewaysPlacement(qty, cols) ==
  LET perRow == qty \div cols
  IN  [i \in 1 .. cols * perRow |->
         [x |-> Placed((i - 1) % perRow, distanceBtwCenters[i]),
          y |-> Placed((i - 1) \div perRow, distanceBtwCenters[i])]]

\* Mutant: a whole square is added beyond the last gateway.
SizeOfWholeSquare(places) ==
  LET last == places[Len(places)]
  IN  [width |-> last.x + DistanceBtwGateways \div 100, height |-> last.y + DistanceBtwGateways \div 100]

ScenarioSize(places) ==
  LET last == places[Len(places)]
  IN  [width |-> last.x + DistanceBtwGateways \div 200, height |-> last.y + DistanceBtwGateways \div 200]

-------------------------------------------------------------------------------
(* Reach: the metres at which LogDistancePropagationLossModel leaves 14 dBm    *)
(* with the sensitivity of the gateways, and with that of the devices.         *)

GatewayReach == [sf \in 7 .. 12 |-> <<4216, 4914, 5727, 6675, 7779, 9066>>[sf - 6]]
DeviceReach == [sf \in 7 .. 12 |-> <<2920, 3509, 4216, 5067, 5727, 6473>>[sf - 6]]

Square(n) == n * n

\* Nothing farther than 10 km is within reach.
Within(reach, device, gateway) ==
  LET dx == device.x - gateway.x
      dy == device.y - gateway.y
  IN  /\ dx \in -10000 .. 10000 /\ dy \in -10000 .. 10000
      /\ Square(dx) + Square(dy) + Square(GatewayHeight) <= Square(reach)

\* SetSpreadingFactorsUp: the fastest with which the device could hear its best
\* gateway, and SF12 out of range.
SpreadingFactorUp(device) ==
  Min({12} \union {sf \in 7 .. 12 : \E i \in DOMAIN gateways : Within(DeviceReach[sf], device, gateways[i])})

Heard(d) == {i \in DOMAIN gateways : Within(GatewayReach[sfs[d]], devices[d], gateways[i])}

-------------------------------------------------------------------------------
(* rt-lorawan-1.                                                               *)

IdleProbe == [nodeId |-> 0, lastPacketId |-> 99, armed |-> {}, arriving |-> {}]

\* Mutant: the last packet is not remembered.
OnGWReceivedForgetful(d, i) ==
  /\ probe' = [probe EXCEPT !.nodeId = Min({@ + 1, Len(devices)}), !.arriving = @ \ {<<d, i>>},
                            !.armed = IF probe.nodeId + 1 < Len(devices) THEN @ \union {probe.nodeId + 2} ELSE @]
  /\ rows' = Append(rows, [nodeId |-> probe'.nodeId, gatewayId |-> i, sf |-> sfs[probe'.nodeId]])

\* A gateway received the packet of device d, whose uid is taken for d.  Another
\* packet than the last starts the next device; devices count from 1 here.
OnGWReceivedPackets(d, i) ==
  /\ probe' = IF probe.lastPacketId = d THEN [probe EXCEPT !.arriving = @ \ {<<d, i>>}]
              ELSE [nodeId |-> probe.nodeId + 1, lastPacketId |-> d, arriving |-> probe.arriving \ {<<d, i>>},
                    armed |-> IF probe.nodeId + 1 < Len(devices) THEN probe.armed \union {probe.nodeId + 2} ELSE probe.armed]
  /\ rows' = Append(rows, [nodeId |-> probe'.nodeId, gatewayId |-> i, sf |-> sfs[probe'.nodeId]])

-------------------------------------------------------------------------------
(* index.js: addSFandGWs, in units of 0.1 ms.                                  *)

packetAirtimeBySF == [sf \in 7 .. 12 |-> <<3689, 6559, 6769, 6948, 15606, 27935>>[sf - 6]]

SlotLengthBySF(sf) ==
  LET airtime == packetAirtimeBySF[sf]
      timeGuard == 10
      rx1Delay == airtime
      rx2Delay == rx1Delay + 10000
  IN  timeGuard + airtime + rx1Delay + airtime + rx2Delay + airtime + timeGuard

RowsOf(gateway, sf) == Cardinality({k \in DOMAIN rows : rows[k].gatewayId = gateway /\ rows[k].sf = sf})

\* Mutant: the last gateway decides.
DevicesAtTheLast(sf) == RowsOf(Len(gateways), sf)

\* The most devices with one spreading factor that one gateway hears.
maxDevices(sf) == Max({RowsOf(i, sf) : i \in DOMAIN gateways})

WindowLength(sf) ==
  LET dutyCycleLength == (DutyDiv * packetAirtimeBySF[sf] + SlotLengthBySF(sf) - 1) \div SlotLengthBySF(sf)
  IN  Max({dutyCycleLength, maxDevices(sf)})

\* Mutant: the deadline is rounded up twice.
DeadlineAfter(random, windowlength) == between(random, 1, windowlength) + 2

Deadline(random, windowlength) == between(random, 1, windowlength) + 1

\* A device nobody heard gets neither.
NoSchedule == [windowlength |-> 0, deadline |-> 0, gateways |-> {}]

\* The rows of a device by their places; the first one decides.
ScheduleOf(d, random) ==
  LET processedDevices == {k \in DOMAIN rows : rows[k].nodeId = d}
      windowlength == WindowLength(rows[Min(processedDevices)].sf)
  IN  IF processedDevices = {} THEN NoSchedule
      ELSE [windowlength |-> windowlength, deadline |-> Deadline(random, windowlength),
            gateways |-> {rows[k].gatewayId : k \in processedDevices}]

-------------------------------------------------------------------------------

Init ==
  /\ phase = "create" /\ assignment \in Assignments
  /\ gateways = <<>> /\ columns = 0 /\ devices = <<>> /\ sfs = <<>>
  /\ probe = IdleProbe /\ rows = <<>> /\ schedule = <<>>

CreateGateways(qty, iteration) ==
  /\ phase = "create" /\ gateways = <<>>
  /\ columns' = Columns(qty, iteration)
  /\ gateways' = GatewaysPlacement(qty, columns')
  /\ UNCHANGED <<phase, assignment, devices, sfs, probe, rows, schedule>>

CreateDevices(random) ==
  LET size == ScenarioSize(gateways)
      places == {[x |-> between(r, 0, size.width), y |-> between(s, 0, size.height)] :
                   r \in RandomNumbers, s \in RandomNumbers}
  IN  /\ phase = "create" /\ gateways # <<>>
      /\ devices' \in [1 .. between(random, MinQty, MaxQty) -> places]
      /\ phase' = "created"
      /\ UNCHANGED <<assignment, gateways, columns, sfs, probe, rows, schedule>>

\* The main function of rt-lorawan-1.  The call of SetSpreadingFactorsUp is
\* commented out there, in favour of data rate 0 for every device.
StartProbe ==
  /\ phase = "created" /\ phase' = "probe"
  /\ sfs' = [d \in DOMAIN devices |-> IF assignment = "up" THEN SpreadingFactorUp(devices[d]) ELSE 12]
  /\ probe' = [probe EXCEPT !.armed = {1}]
  /\ UNCHANGED <<assignment, gateways, columns, devices, rows, schedule>>

\* OneShotSender, 30 s after its installation: long after the packet before it
\* has reached every gateway.
SendPacket(d) ==
  /\ phase = "probe" /\ d \in probe.armed /\ probe.arriving = {}
  /\ probe' = [probe EXCEPT !.armed = @ \ {d}, !.arriving = {<<d, i>> : i \in Heard(d)}]
  /\ UNCHANGED <<phase, assignment, gateways, columns, devices, sfs, rows, schedule>>

Receive(d, i) ==
  /\ phase = "probe" /\ <<d, i>> \in probe.arriving
  /\ OnGWReceivedPackets(d, i)
  /\ UNCHANGED <<phase, assignment, gateways, columns, devices, sfs, schedule>>

\* Simulator::Stop, after 999 hours.
AddSFandGWs(random) ==
  /\ phase = "probe" /\ probe.armed = {} /\ probe.arriving = {}
  /\ schedule' = [d \in DOMAIN devices |-> ScheduleOf(d, random)]
  /\ phase' = "done"
  /\ UNCHANGED <<assignment, gateways, columns, devices, sfs, probe, rows>>

Next ==
  \/ \E qty \in GatewayQuantities, iteration \in Iterations : CreateGateways(qty, iteration)
  \/ \E random \in RandomNumbers : CreateDevices(random)
  \/ StartProbe
  \/ \E d \in DOMAIN devices : SendPacket(d)
  \/ \E d \in DOMAIN devices, i \in DOMAIN gateways : Receive(d, i)
  \/ \E random \in RandomNumbers : AddSFandGWs(random)

\* node runs the functions one after the other, and the simulator its events.
Spec == Init /\ [][Next]_vars /\ WF_vars(Next)

-------------------------------------------------------------------------------
(* Properties.                                                                 *)

Place == [x: Nat, y: Nat]

\* Types; and each device that was heard has a deadline within its window, after
\* the first slot.
TypeOK ==
  /\ phase \in {"create", "created", "probe", "done"} /\ assignment \in Assignments
  /\ gateways \in Seq(Place) /\ columns \in Nat /\ devices \in Seq(Place)
  /\ sfs \in Seq(7 .. 12)
  /\ probe.nodeId \in 0 .. Len(devices) /\ probe.armed \subseteq DOMAIN devices
  /\ \A k \in DOMAIN rows : rows[k].nodeId \in DOMAIN devices /\ rows[k].gatewayId \in DOMAIN gateways
  /\ \A d \in DOMAIN schedule : schedule[d] = NoSchedule \/ schedule[d].deadline \in 2 .. schedule[d].windowlength

\* A row is printed for the device that sent the packet, with its own spreading
\* factor, and for a gateway that hears it, once: although the handler knows the
\* packet only by whether it is another than the last.
RowsTellTheTruth ==
  \A k \in DOMAIN rows :
    /\ rows[k].gatewayId \in Heard(rows[k].nodeId) /\ rows[k].sf = sfs[rows[k].nodeId]
    /\ \A j \in DOMAIN rows : rows[j] = rows[k] => j = k

\* At every gateway the devices of one spreading factor have a slot each in their
\* window, and a device that sends once in it keeps to the duty cycle.
WindowsSuffice ==
  phase = "done" =>
    \A d \in DOMAIN devices : schedule[d] # NoSchedule =>
      /\ \A i \in Heard(d) :
           Cardinality({e \in DOMAIN devices : sfs[e] = sfs[d] /\ i \in schedule[e].gateways}) <= schedule[d].windowlength
      /\ schedule[d].windowlength * SlotLengthBySF(sfs[d]) >= DutyDiv * packetAirtimeBySF[sfs[d]]

\* Every device ends with the schedule of the gateways that hear it.  The probe
\* stops at a device that nobody hears; the grid leaves no such place.
EveryDeviceScheduled ==
  <>[](/\ phase = "done"
       /\ \A d \in DOMAIN devices : schedule[d] # NoSchedule /\ schedule[d].gateways = Heard(d))

===============================================================================
