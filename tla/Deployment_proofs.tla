--------------------------- MODULE Deployment_proofs ---------------------------
(***************************************************************************)
(* Proofs about Deployment, for any configuration: any numbers of gateways *)
(* and devices, wherever they stand, and any order of receptions.          *)
(***************************************************************************)
EXTENDS Deployment, FiniteSetTheorems, WellFoundedInduction, TLAPS

\* What the handler may print.
Row == {[nodeId |-> n, gatewayId |-> i, sf |-> sfs[n]] : n \in Nat, i \in DOMAIN gateways}

\* The parts of the inductive invariant.
Typed ==
  /\ probe \in [nodeId: Nat, lastPacketId: Nat, armed: SUBSET Nat, arriving: SUBSET (Nat \X DOMAIN gateways)]
  /\ rows \in Seq(Row)

NothingYet == phase \in {"create", "created"} => rows = <<>> /\ probe = IdleProbe

\* The handler knows the last device that was heard by its packet.
LastIsCounted == probe.lastPacketId = IF probe.nodeId = 0 THEN 99 ELSE probe.nodeId

\* Only the next device is ever started, and what is on the air comes from it or
\* from the last one that was counted.
OneAtATime ==
  /\ probe.armed \subseteq {probe.nodeId + 1}
  /\ \A x \in probe.arriving :
       /\ x[1] = probe.nodeId \/ (x[1] = probe.nodeId + 1 /\ probe.armed = {})
       /\ x[1] # 0 /\ x[2] \in Heard(x[1])
       /\ \A y \in probe.arriving : y[1] = x[1]

\* The rows are those of the devices counted, without those still to come.
RowsCounted ==
  /\ \A k \in DOMAIN rows : rows[k].nodeId \in 1 .. probe.nodeId
  /\ \A k \in DOMAIN rows : <<rows[k].nodeId, rows[k].gatewayId>> \notin probe.arriving

IInv == Typed /\ NothingYet /\ LastIsCounted /\ OneAtATime /\ RowsCounted /\ RowsTellTheTruth

-----------------------------------------------------------------------------

LEMMA InitInv == Init => IInv
BY DEF Init, IInv, Typed, NothingYet, LastIsCounted, OneAtATime, RowsCounted, RowsTellTheTruth, IdleProbe

\* Before the probe there is nothing to disturb.
LEMMA BeforeProbe ==
  ASSUME rows' = <<>>, probe' = IdleProbe
  PROVE  IInv'
BY DEF IInv, Typed, NothingYet, LastIsCounted, OneAtATime, RowsCounted, RowsTellTheTruth, IdleProbe

\* A step that leaves the scenario, the probe and its rows alone.
LEMMA Undisturbed ==
  ASSUME IInv, UNCHANGED <<gateways, devices, sfs, probe, rows>>, phase' = phase \/ phase' = "done"
  PROVE  IInv'
<1>1. Row' = Row  BY DEF Row
<1>2. \A n : Heard(n)' = Heard(n)  BY DEF Heard, Within
<1>3. Typed'  BY <1>1 DEF IInv, Typed
<1>4. NothingYet'  BY DEF IInv, NothingYet
<1>5. LastIsCounted' /\ RowsCounted'  BY DEF IInv, LastIsCounted, RowsCounted
<1>6. OneAtATime'  BY <1>2 DEF IInv, OneAtATime
<1>7. RowsTellTheTruth'  BY <1>2 DEF IInv, RowsTellTheTruth
<1> QED  BY <1>3, <1>4, <1>5, <1>6, <1>7 DEF IInv

LEMMA StartProbeInv == ASSUME IInv, StartProbe PROVE IInv'
<1>1. rows = <<>> /\ probe = IdleProbe  BY DEF StartProbe, IInv, NothingYet
<1>2. /\ rows' = <<>> /\ phase' = "probe"
      /\ probe' = [nodeId |-> 0, lastPacketId |-> 99, armed |-> {1}, arriving |-> {}]
  BY <1>1 DEF StartProbe, IdleProbe
<1> QED
  BY <1>2 DEF IInv, Typed, NothingYet, LastIsCounted, OneAtATime, RowsCounted, RowsTellTheTruth

LEMMA SendPacketInv == ASSUME IInv, NEW d, SendPacket(d) PROVE IInv'
<1>1. /\ phase = "probe" /\ phase' = "probe" /\ d \in probe.armed
      /\ UNCHANGED <<gateways, devices, sfs, rows>>
      /\ probe' = [probe EXCEPT !.armed = @ \ {d}, !.arriving = {<<d, i>> : i \in Heard(d)}]
  BY DEF SendPacket
<1>2. d = probe.nodeId + 1 /\ probe.nodeId \in Nat /\ probe.armed = {d}
  BY <1>1 DEF IInv, OneAtATime, Typed
<1>3. Heard(d) \subseteq DOMAIN gateways  BY DEF Heard
<1>4. probe' = [nodeId |-> probe.nodeId, lastPacketId |-> probe.lastPacketId, armed |-> {},
                arriving |-> {<<d, i>> : i \in Heard(d)}]
  BY <1>1, <1>2 DEF IInv, Typed
<1>5. (\A n : Heard(n)' = Heard(n)) /\ Row' = Row
  <2>1. UNCHANGED <<gateways, devices, sfs>>  BY <1>1
  <2>2. \A n : Heard(n)' = Heard(n)  BY <2>1 DEF Heard, Within
  <2>3. Row' = Row  BY <2>1 DEF Row
  <2> QED  BY <2>2, <2>3
<1>6. Typed'
  <2>1. {<<d, i>> : i \in Heard(d)} \in SUBSET (Nat \X DOMAIN gateways)  BY <1>2, <1>3
  <2> QED  BY <1>1, <1>4, <1>5, <2>1 DEF IInv, Typed
<1>7. NothingYet'  BY <1>1 DEF NothingYet
<1>8. LastIsCounted'  BY <1>4 DEF IInv, LastIsCounted
<1>9. OneAtATime'  BY <1>2, <1>4, <1>5 DEF OneAtATime
<1>10. RowsCounted'
  <2>1. \A k \in DOMAIN rows : rows[k].nodeId \in 1 .. probe.nodeId  BY DEF IInv, RowsCounted
  <2>2. \A k \in DOMAIN rows : rows[k].nodeId # d  BY <1>2, <2>1
  <2>3. \A k \in DOMAIN rows : <<rows[k].nodeId, rows[k].gatewayId>> \notin probe'.arriving
    BY <1>4, <2>2
  <2> QED  BY <1>1, <1>4, <2>1, <2>3 DEF RowsCounted
<1>11. RowsTellTheTruth'
  BY <1>1, <1>5 DEF IInv, RowsTellTheTruth
<1> QED  BY <1>6, <1>7, <1>8, <1>9, <1>10, <1>11 DEF IInv

\* The handler counts up to the device whose packet it is given.
LEMMA CountsTheSender ==
  ASSUME IInv, NEW d, NEW i, <<d, i>> \in probe.arriving, OnGWReceivedPackets(d, i)
  PROVE  /\ probe'.nodeId = d /\ probe'.lastPacketId = d /\ d \in Nat \ {0}
         /\ probe'.arriving = probe.arriving \ {<<d, i>>}
         /\ probe'.armed \subseteq {d + 1}
         /\ d \in {probe.nodeId, probe.nodeId + 1}
         /\ probe' \in [nodeId: Nat, lastPacketId: Nat, armed: SUBSET Nat,
                        arriving: SUBSET (Nat \X DOMAIN gateways)]
<1> DEFINE x == <<d, i>>
<1>1. /\ x[1] = d /\ x[2] = i /\ x \in Nat \X DOMAIN gateways
      /\ d = probe.nodeId \/ (d = probe.nodeId + 1 /\ probe.armed = {})
      /\ d # 0
  BY DEF IInv, OneAtATime, Typed
<1>2. d \in Nat \ {0} /\ probe.nodeId \in Nat  BY <1>1 DEF IInv, Typed
<1>3. probe.armed \subseteq {probe.nodeId + 1}  BY DEF IInv, OneAtATime
<1>4. probe.arriving \ {<<d, i>>} \in SUBSET (Nat \X DOMAIN gateways)  BY DEF IInv, Typed
<1>5. CASE probe.lastPacketId = d
  <2>1. probe.nodeId = d  BY <1>1, <1>2, <1>5 DEF IInv, LastIsCounted
  <2>2. probe' = [probe EXCEPT !.arriving = @ \ {<<d, i>>}]  BY <1>5 DEF OnGWReceivedPackets
  <2> QED  BY <1>2, <1>3, <1>4, <1>5, <2>1, <2>2 DEF IInv, Typed
<1>6. CASE probe.lastPacketId # d
  <2>1. d = probe.nodeId + 1 /\ probe.armed = {}  BY <1>1, <1>2, <1>6 DEF IInv, LastIsCounted
  <2> DEFINE a == IF probe.nodeId + 1 < Len(devices) THEN probe.armed \union {probe.nodeId + 2} ELSE probe.armed
  <2>2. probe' = [nodeId |-> d, lastPacketId |-> d, arriving |-> probe.arriving \ {<<d, i>>}, armed |-> a]
    BY <1>6, <2>1 DEF OnGWReceivedPackets
  <2>3. a \subseteq {d + 1} /\ a \in SUBSET Nat
    <3>1. a = {} \/ a = {probe.nodeId + 2}  BY <2>1
    <3>2. probe.nodeId + 2 = d + 1 /\ d + 1 \in Nat  BY <1>2, <2>1
    <3> QED  BY <3>1, <3>2
  <2> HIDE DEF a
  <2> QED  BY <1>2, <1>4, <2>1, <2>2, <2>3
<1> QED  BY <1>5, <1>6

LEMMA ReceiveInv == ASSUME IInv, NEW d, NEW i, Receive(d, i) PROVE IInv'
<1>1. /\ phase = "probe" /\ phase' = "probe" /\ <<d, i>> \in probe.arriving /\ OnGWReceivedPackets(d, i)
      /\ UNCHANGED <<gateways, devices, sfs>>
  BY DEF Receive
<1>2. /\ probe'.nodeId = d /\ probe'.lastPacketId = d /\ d \in Nat \ {0}
      /\ probe'.arriving = probe.arriving \ {<<d, i>>}
      /\ probe'.armed \subseteq {d + 1}
      /\ d \in {probe.nodeId, probe.nodeId + 1}
      /\ probe' \in [nodeId: Nat, lastPacketId: Nat, armed: SUBSET Nat,
                     arriving: SUBSET (Nat \X DOMAIN gateways)]
  BY <1>1, CountsTheSender
<1> DEFINE r == [nodeId |-> d, gatewayId |-> i, sf |-> sfs[d]]
<1>3. rows' = Append(rows, r)  BY <1>1, <1>2 DEF OnGWReceivedPackets
<1>4. \A n : Heard(n)' = Heard(n)  BY <1>1 DEF Heard, Within
<1>5. \A x \in probe.arriving : x[1] = d /\ x[2] \in Heard(x[1])
  BY <1>1 DEF IInv, OneAtATime
<1>6. i \in Heard(d) /\ i \in DOMAIN gateways  BY <1>1, <1>5 DEF Heard
<1>7. Row' = Row /\ r \in Row  BY <1>1, <1>2, <1>6 DEF Row
<1>8. rows \in Seq(Row)  BY DEF IInv, Typed
<1>9. /\ Len(rows) \in Nat /\ DOMAIN rows = 1 .. Len(rows)
      /\ DOMAIN rows' = 1 .. Len(rows) + 1
      /\ \A k \in 1 .. Len(rows) : rows'[k] = rows[k]
      /\ rows'[Len(rows) + 1] = r
  BY <1>3, <1>7, <1>8
<1>10. Typed'
  <2>1. rows' \in Seq(Row)  BY <1>3, <1>7, <1>8
  <2> QED  BY <1>1, <1>2, <1>7, <2>1 DEF Typed
<1>11. NothingYet'  BY <1>1 DEF NothingYet
<1>12. LastIsCounted'  BY <1>2 DEF LastIsCounted
<1>13. OneAtATime'  BY <1>2, <1>4, <1>5 DEF OneAtATime
<1>14. \A k \in DOMAIN rows : /\ rows[k].nodeId \in 1 .. probe.nodeId
                              /\ <<rows[k].nodeId, rows[k].gatewayId>> \notin probe.arriving
  BY DEF IInv, RowsCounted
<1>15. RowsCounted'
  <2> SUFFICES ASSUME NEW k \in DOMAIN rows'
               PROVE  /\ rows'[k].nodeId \in 1 .. probe'.nodeId
                      /\ <<rows'[k].nodeId, rows'[k].gatewayId>> \notin probe'.arriving
    BY DEF RowsCounted
  <2>1. CASE k \in DOMAIN rows
    <3>1. rows'[k] = rows[k]  BY <1>9, <2>1
    <3>2. probe.nodeId \in Nat  BY DEF IInv, Typed
    <3> QED  BY <1>2, <1>14, <2>1, <3>1, <3>2
  <2>2. CASE k = Len(rows) + 1
    <3>1. rows'[k] = r  BY <1>9, <2>2
    <3> QED  BY <1>2, <3>1
  <2> QED  BY <1>9, <2>1, <2>2
<1>16. RowsTellTheTruth'
  <2>1. \A k \in DOMAIN rows : rows[k].gatewayId \in Heard(rows[k].nodeId) /\ rows[k].sf = sfs[rows[k].nodeId]
    BY DEF IInv, RowsTellTheTruth
  <2>2. \A j, k \in DOMAIN rows : rows[j] = rows[k] => j = k
    BY DEF IInv, RowsTellTheTruth
  <2>3. \A k \in DOMAIN rows : rows[k] # r  BY <1>1, <1>14
  <2>4. \A k \in DOMAIN rows' : rows'[k].gatewayId \in Heard(rows'[k].nodeId) /\ rows'[k].sf = sfs[rows'[k].nodeId]
    BY <1>6, <1>9, <2>1
  <2>5. \A j, k \in DOMAIN rows' : rows'[j] = rows'[k] => j = k
    BY <1>9, <2>2, <2>3
  <2> QED  BY <1>1, <1>4, <2>4, <2>5 DEF RowsTellTheTruth
<1> QED  BY <1>10, <1>11, <1>12, <1>13, <1>15, <1>16 DEF IInv

LEMMA NextInv == IInv /\ [Next]_vars => IInv'
<1> SUFFICES ASSUME IInv, [Next]_vars PROVE IInv'  OBVIOUS
<1>1. ASSUME NEW qty \in GatewayQuantities, NEW iteration \in Iterations, CreateGateways(qty, iteration)
      PROVE  IInv'
  BY <1>1, BeforeProbe DEF CreateGateways, IInv, NothingYet
<1>2. ASSUME NEW random \in RandomNumbers, CreateDevices(random) PROVE IInv'
  BY <1>2, BeforeProbe DEF CreateDevices, IInv, NothingYet
<1>3. CASE StartProbe  BY <1>3, StartProbeInv
<1>4. ASSUME NEW d \in DOMAIN devices, SendPacket(d) PROVE IInv'  BY <1>4, SendPacketInv
<1>5. ASSUME NEW d \in DOMAIN devices, NEW i \in DOMAIN gateways, Receive(d, i) PROVE IInv'
  BY <1>5, ReceiveInv
<1>6. ASSUME NEW random \in RandomNumbers, AddSFandGWs(random) PROVE IInv'
  BY <1>6, Undisturbed DEF AddSFandGWs
<1>7. CASE UNCHANGED vars
  BY <1>7, Undisturbed DEF vars
<1> QED  BY <1>1, <1>2, <1>3, <1>4, <1>5, <1>6, <1>7 DEF Next

\* Whatever the scenario, a row names the device that sent the packet and its
\* spreading factor, and a gateway that hears it, and comes once: counting the
\* changes of the packet's identity is enough, because a device is started only
\* when the one before it was heard.
THEOREM ProbeTellsTheTruth == Spec => []RowsTellTheTruth
<1>1. IInv => RowsTellTheTruth  BY DEF IInv
<1> QED  BY <1>1, InitInv, NextInv, PTL DEF Spec

-----------------------------------------------------------------------------
(* Numbers and their order *)

\* A set of numbers has a least one, and a greatest one when it is bounded: what
\* Min and Max choose.
LEMMA LeastNumber ==
  ASSUME NEW T \in SUBSET Nat, T # {}
  PROVE  \E n \in T : \A m \in T : n <= m
<1>1. PICK n \in T : \A m \in T : ~(<<m, n>> \in OpToRel(<, Nat))
  BY WFMin, NatLessThanWellFounded
<1>2. \A m \in T : m \in Nat /\ n \in Nat /\ ~(m < n)
  BY <1>1 DEF OpToRel
<1> QED
  BY <1>2

LEMMA GreatestNumber ==
  ASSUME NEW T \in SUBSET Nat, T # {}, NEW b \in Nat, \A m \in T : m <= b
  PROVE  \E n \in T : \A m \in T : n >= m
<1> DEFINE Bounds == {n \in Nat : \A m \in T : m <= n}
<1>1. Bounds \in SUBSET Nat /\ b \in Bounds
  OBVIOUS
<1>2. PICK n \in Bounds : \A m \in Bounds : n <= m
  <2> HIDE DEF Bounds
  <2> QED
    BY <1>1, LeastNumber
<1>3. n \in Nat /\ \A m \in T : m <= n
  OBVIOUS
<1>4. n \in T
  <2> SUFFICES ASSUME n \notin T PROVE FALSE
    OBVIOUS
  <2>1. \A m \in T : m \in Nat /\ m <= n /\ m # n
    BY <1>3
  <2>2. PICK m \in T : TRUE
    OBVIOUS
  <2>3. n - 1 \in Nat
    BY <1>3, <2>1, <2>2
  <2>4. \A k \in T : k <= n - 1
    BY <1>3, <2>1
  <2>5. n - 1 \in Bounds
    BY <2>3, <2>4
  <2> QED
    BY <1>2, <1>3, <2>5
<1> QED
  BY <1>3, <1>4

LEMMA MinIsLeast ==
  ASSUME NEW T \in SUBSET Nat, T # {}
  PROVE  Min(T) \in T
  BY LeastNumber DEF Min

LEMMA MaxIsGreatest ==
  ASSUME NEW T \in SUBSET Nat, T # {}, NEW b \in Nat, \A m \in T : m <= b
  PROVE  Max(T) \in T /\ \A m \in T : Max(T) >= m
<1>1. \E n \in T : \A m \in T : n >= m
  BY GreatestNumber
<1> QED
  BY <1>1 DEF Max

LEMMA MaxOfTwo ==
  ASSUME NEW a \in Nat, NEW b \in Nat
  PROVE  Max({a, b}) \in Nat /\ Max({a, b}) >= a /\ Max({a, b}) >= b
<1>1. \E n \in {a, b} : \A m \in {a, b} : n >= m
  <2>1. CASE a >= b
    BY <2>1
  <2>2. CASE ~(a >= b)
    BY <2>2
  <2> QED
    BY <2>1, <2>2
<1> QED
  BY <1>1 DEF Max

-----------------------------------------------------------------------------
(* The windows *)

\* The rows printed for a gateway and a spreading factor.
LEMMA RowsAreFinite ==
  ASSUME IInv, NEW S \in SUBSET DOMAIN rows
  PROVE  /\ IsFiniteSet(S) /\ Cardinality(S) \in Nat /\ Cardinality(S) <= Len(rows)
         /\ Len(rows) \in Nat /\ DOMAIN rows = 1 .. Len(rows)
<1>1. Len(rows) \in Nat /\ DOMAIN rows = 1 .. Len(rows)
  BY DEF IInv, Typed
<1>2. IsFiniteSet(1 .. Len(rows)) /\ Cardinality(1 .. Len(rows)) = Len(rows)
  BY <1>1, FS_Interval
<1> QED
  BY <1>1, <1>2, FS_Subset, FS_CardinalityType

\* The most rows that a gateway has.
LEMMA MostRows ==
  ASSUME IInv, NEW sf, NEW i \in DOMAIN gateways
  PROVE  maxDevices(sf) \in Nat /\ RowsOf(i, sf) \in Nat /\ RowsOf(i, sf) <= maxDevices(sf)
<1> DEFINE T == {RowsOf(j, sf) : j \in DOMAIN gateways}
<1>1. ASSUME NEW j PROVE RowsOf(j, sf) \in Nat /\ RowsOf(j, sf) <= Len(rows) /\ Len(rows) \in Nat
  BY RowsAreFinite DEF RowsOf
<1>2. T \in SUBSET Nat /\ T # {} /\ RowsOf(i, sf) \in T /\ \A m \in T : m <= Len(rows)
  BY <1>1
<1>3. maxDevices(sf) = Max(T)
  BY DEF maxDevices
<1> HIDE DEF T
<1>4. Max(T) \in T /\ \A m \in T : Max(T) >= m
  BY <1>1, <1>2, MaxIsGreatest
<1>5. Max(T) \in Nat /\ Max(T) >= RowsOf(i, sf) /\ RowsOf(i, sf) \in Nat
  BY <1>2, <1>4
<1> QED
  BY <1>3, <1>5

LEMMA AirtimesAndSlots ==
  ASSUME NEW sf \in 7 .. 12
  PROVE  packetAirtimeBySF[sf] \in Nat \ {0} /\ SlotLengthBySF(sf) \in Nat \ {0}
<1>1. packetAirtimeBySF[sf] \in Nat \ {0}
  <2>1. packetAirtimeBySF[sf] = <<3689, 6559, 6769, 6948, 15606, 27935>>[sf - 6]
    BY DEF packetAirtimeBySF
  <2>2. sf - 6 \in 1 .. 6
    OBVIOUS
  <2> QED
    BY <2>1, <2>2
<1> HIDE DEF packetAirtimeBySF
<1> QED
  BY <1>1 DEF SlotLengthBySF

\* Rounding up.
LEMMA RoundedUp ==
  ASSUME NEW a \in Nat, NEW b \in Nat \ {0}
  PROVE  (a + b - 1) \div b \in Nat /\ ((a + b - 1) \div b) * b >= a
<1> DEFINE n == a + b - 1
           q == n \div b
           r == n % b
<1>1. n \in Nat
  OBVIOUS
<1>2. q \in Nat /\ n = b * q + r /\ r \in 0 .. b - 1
  <2> HIDE DEF n
  <2> QED
    BY <1>1
<1> HIDE DEF q, r
<1>3. q * b = b * q /\ b * q \in Nat
  BY <1>2
<1> QED
  BY <1>2, <1>3 DEF q

\* A window has a slot for each row of a gateway and is as long as the duty cycle wants.
LEMMA WindowIsLong ==
  ASSUME IInv, NEW sf \in 7 .. 12, NEW i \in DOMAIN gateways
  PROVE  /\ WindowLength(sf) \in Nat /\ WindowLength(sf) >= RowsOf(i, sf) /\ RowsOf(i, sf) \in Nat
         /\ WindowLength(sf) * SlotLengthBySF(sf) >= DutyDiv * packetAirtimeBySF[sf]
<1> DEFINE air == packetAirtimeBySF[sf]
           slot == SlotLengthBySF(sf)
           duty == (DutyDiv * air + slot - 1) \div slot
           most == maxDevices(sf)
           w == Max({duty, most})
<1>1. WindowLength(sf) = w
  BY DEF WindowLength
<1>2. air \in Nat \ {0} /\ slot \in Nat \ {0} /\ DutyDiv \in Nat
  BY AirtimesAndSlots, DeploymentAssumption
<1>3. most \in Nat /\ RowsOf(i, sf) \in Nat /\ RowsOf(i, sf) <= most
  BY MostRows
<1> HIDE DEF air, slot, most
<1>4. DutyDiv * air \in Nat
  BY <1>2
<1>5. duty \in Nat /\ duty * slot >= DutyDiv * air
  BY <1>2, <1>4, RoundedUp
<1> HIDE DEF duty
<1>6. w \in Nat /\ w >= duty /\ w >= most
  BY <1>3, <1>5, MaxOfTwo
<1> HIDE DEF w
<1>7. w * slot >= duty * slot /\ w * slot \in Nat /\ duty * slot \in Nat
  BY <1>2, <1>5, <1>6
<1>8. w * slot >= DutyDiv * air
  BY <1>4, <1>5, <1>7
<1> QED
  BY <1>1, <1>3, <1>6, <1>8 DEF air, slot

\* Spreading factors are chosen when the probe starts, and windows and deadlines
\* are those of all rows.
Chosen ==
  /\ phase \in {"probe", "done"} => sfs \in [DOMAIN devices -> 7 .. 12]
  /\ phase \in {"create", "created"} => sfs = <<>>
  /\ phase # "done" => schedule = <<>>
  /\ phase = "done" =>
       \E random \in RandomNumbers : schedule = [d \in DOMAIN devices |-> ScheduleOf(d, random)]

LEMMA SlowestIsAFactor ==
  ASSUME NEW d
  PROVE  SpreadingFactorUp(d) \in 7 .. 12
<1> DEFINE T == {12} \union {sf \in 7 .. 12 : \E i \in DOMAIN gateways : Within(DeviceReach[sf], d, gateways[i])}
<1>1. T \in SUBSET Nat /\ T # {} /\ T \subseteq 7 .. 12
  OBVIOUS
<1>2. SpreadingFactorUp(d) = Min(T)
  BY DEF SpreadingFactorUp
<1> HIDE DEF T
<1> QED
  BY <1>1, <1>2, MinIsLeast

LEMMA ChosenInit == Init => Chosen
  BY DEF Init, Chosen

\* A step within a phase.
LEMMA ChosenStays ==
  ASSUME Chosen, phase' = phase, phase # "done", UNCHANGED <<sfs, schedule>>,
         phase = "probe" => devices' = devices
  PROVE  Chosen'
  BY DEF Chosen

LEMMA ChosenStep == Chosen /\ [Next]_vars => Chosen'
<1> SUFFICES ASSUME Chosen, [Next]_vars PROVE Chosen'
  OBVIOUS
<1>1. ASSUME NEW qty \in GatewayQuantities, NEW iteration \in Iterations, CreateGateways(qty, iteration)
      PROVE  Chosen'
  BY <1>1, ChosenStays DEF CreateGateways
<1>2. ASSUME NEW random \in RandomNumbers, CreateDevices(random) PROVE Chosen'
  BY <1>2 DEF CreateDevices, Chosen
<1>3. CASE StartProbe
  <2>1. /\ phase = "created" /\ phase' = "probe" /\ UNCHANGED <<devices, schedule>>
        /\ sfs' = [d \in DOMAIN devices |-> IF assignment = "up" THEN SpreadingFactorUp(devices[d]) ELSE 12]
    BY <1>3 DEF StartProbe
  <2>2. sfs' \in [DOMAIN devices -> 7 .. 12]
    BY <2>1, SlowestIsAFactor
  <2> QED
    BY <2>1, <2>2 DEF Chosen
<1>4. ASSUME NEW d \in DOMAIN devices, SendPacket(d) PROVE Chosen'
  BY <1>4, ChosenStays DEF SendPacket
<1>5. ASSUME NEW d \in DOMAIN devices, NEW i \in DOMAIN gateways, Receive(d, i) PROVE Chosen'
  BY <1>5, ChosenStays DEF Receive
<1>6. ASSUME NEW random \in RandomNumbers, AddSFandGWs(random) PROVE Chosen'
  <2>1. /\ phase = "probe" /\ phase' = "done" /\ UNCHANGED <<devices, sfs, rows, gateways>>
        /\ schedule' = [d \in DOMAIN devices |-> ScheduleOf(d, random)]
    BY <1>6 DEF AddSFandGWs
  <2>2. \A d : ScheduleOf(d, random)' = ScheduleOf(d, random)
    BY <2>1 DEF ScheduleOf, WindowLength, maxDevices, RowsOf
  <2> QED
    BY <2>1, <2>2 DEF Chosen
<1>7. CASE UNCHANGED vars
  <2>1. \A d, random : ScheduleOf(d, random)' = ScheduleOf(d, random)
    BY <1>7 DEF ScheduleOf, WindowLength, maxDevices, RowsOf, vars
  <2> QED
    BY <1>7, <2>1 DEF Chosen, vars
<1> QED
  BY <1>1, <1>2, <1>3, <1>4, <1>5, <1>6, <1>7 DEF Next

\* The devices of one spreading factor that have a gateway in their schedule have
\* a row of it each.
LEMMA OneRowEach ==
  ASSUME IInv, NEW sf, NEW i, NEW E,
         \A e \in E : \E k \in DOMAIN rows : rows[k].nodeId = e /\ rows[k].gatewayId = i /\ rows[k].sf = sf
  PROVE  IsFiniteSet(E) /\ Cardinality(E) \in Nat /\ Cardinality(E) <= RowsOf(i, sf)
<1> DEFINE K == {k \in DOMAIN rows : rows[k].gatewayId = i /\ rows[k].sf = sf}
           f == [e \in E |-> CHOOSE k \in K : rows[k].nodeId = e]
<1>1. ASSUME NEW e \in E PROVE f[e] \in K /\ rows[f[e]].nodeId = e
  OBVIOUS
<1>2. IsFiniteSet(K) /\ Cardinality(K) = RowsOf(i, sf)
  BY RowsAreFinite DEF RowsOf
<1> HIDE DEF K
<1>3. f \in [E -> K]
  BY <1>1
<1> HIDE DEF f
<1>4. f \in Injection(E, K)
  BY <1>1, <1>3 DEF Injection, IsInjective
<1> QED
  BY <1>2, <1>4, FS_Injection, FS_CardinalityType

\* What the schedule of a device is made of.
LEMMA ScheduleMade ==
  ASSUME IInv, Chosen, phase = "done"
  PROVE  \A d \in DOMAIN devices :
           \/ schedule[d] = NoSchedule
           \/ /\ schedule[d].windowlength = WindowLength(sfs[d])
              /\ sfs[d] \in 7 .. 12
              /\ \E k \in DOMAIN rows : rows[k].nodeId = d
              /\ \A i \in schedule[d].gateways :
                   \E k \in DOMAIN rows : rows[k].nodeId = d /\ rows[k].gatewayId = i /\ rows[k].sf = sfs[d]
              /\ \E random \in RandomNumbers :
                   schedule[d].deadline = Deadline(random, schedule[d].windowlength)
<1> SUFFICES ASSUME NEW d \in DOMAIN devices, schedule[d] # NoSchedule
             PROVE  /\ schedule[d].windowlength = WindowLength(sfs[d])
                    /\ sfs[d] \in 7 .. 12
                    /\ \E k \in DOMAIN rows : rows[k].nodeId = d
                    /\ \A i \in schedule[d].gateways :
                         \E k \in DOMAIN rows : rows[k].nodeId = d /\ rows[k].gatewayId = i /\ rows[k].sf = sfs[d]
                    /\ \E random \in RandomNumbers :
                         schedule[d].deadline = Deadline(random, schedule[d].windowlength)
  OBVIOUS
<1>1. PICK random \in RandomNumbers : schedule = [e \in DOMAIN devices |-> ScheduleOf(e, random)]
  BY DEF Chosen
<1> DEFINE own == {k \in DOMAIN rows : rows[k].nodeId = d}
           w == WindowLength(rows[Min(own)].sf)
<1>2. /\ own # {}
      /\ schedule[d] = [windowlength |-> w, deadline |-> Deadline(random, w),
                        gateways |-> {rows[k].gatewayId : k \in own}]
  <2> HIDE DEF NoSchedule
  <2> QED
    BY <1>1 DEF ScheduleOf
<1>3. Min(own) \in own
  <2>1. own \in SUBSET Nat
    BY RowsAreFinite
  <2> HIDE DEF own
  <2> QED
    BY <1>2, <2>1, MinIsLeast
<1>4. \A k \in own : rows[k].sf = sfs[d]
  BY DEF IInv, RowsTellTheTruth
<1>5. w = WindowLength(sfs[d])
  BY <1>3, <1>4
<1>6. sfs[d] \in 7 .. 12
  BY DEF Chosen
<1> HIDE DEF w
<1>7. /\ schedule[d].windowlength = w /\ schedule[d].deadline = Deadline(random, w)
      /\ schedule[d].gateways = {rows[k].gatewayId : k \in own}
  BY <1>2
<1> QED
  BY <1>2, <1>4, <1>5, <1>6, <1>7

\* For any scenario the probe prints rows from which the windows come out long
\* enough for the devices of each gateway and for the duty cycle.
THEOREM WindowsAlwaysSuffice == Spec => []WindowsSuffice
<1>1. IInv /\ Chosen => WindowsSuffice
  <2> SUFFICES ASSUME IInv, Chosen, phase = "done", NEW d \in DOMAIN devices, schedule[d] # NoSchedule
               PROVE  /\ \A i \in Heard(d) :
                           Cardinality({e \in DOMAIN devices : sfs[e] = sfs[d] /\ i \in schedule[e].gateways})
                           <= schedule[d].windowlength
                      /\ schedule[d].windowlength * SlotLengthBySF(sfs[d]) >= DutyDiv * packetAirtimeBySF[sfs[d]]
    BY DEF WindowsSuffice
  <2>1. /\ schedule[d].windowlength = WindowLength(sfs[d]) /\ sfs[d] \in 7 .. 12
        /\ \E k \in DOMAIN rows : rows[k].nodeId = d
    BY ScheduleMade
  <2>2. PICK g \in DOMAIN gateways : TRUE
    BY <2>1 DEF IInv, RowsTellTheTruth, Heard
  <2>3. schedule[d].windowlength * SlotLengthBySF(sfs[d]) >= DutyDiv * packetAirtimeBySF[sfs[d]]
    BY <2>1, <2>2, WindowIsLong
  <2>4. ASSUME NEW i \in Heard(d)
        PROVE  Cardinality({e \in DOMAIN devices : sfs[e] = sfs[d] /\ i \in schedule[e].gateways})
               <= schedule[d].windowlength
    <3> DEFINE E == {e \in DOMAIN devices : sfs[e] = sfs[d] /\ i \in schedule[e].gateways}
    <3>1. \A e \in E : \E k \in DOMAIN rows : rows[k].nodeId = e /\ rows[k].gatewayId = i /\ rows[k].sf = sfs[d]
      <4> SUFFICES ASSUME NEW e \in E
                   PROVE  \E k \in DOMAIN rows : rows[k].nodeId = e /\ rows[k].gatewayId = i /\ rows[k].sf = sfs[d]
        OBVIOUS
      <4>1. schedule[e] # NoSchedule
        BY DEF NoSchedule
      <4> QED
        BY <4>1, ScheduleMade
    <3> HIDE DEF E
    <3>2. Cardinality(E) \in Nat /\ Cardinality(E) <= RowsOf(i, sfs[d])
      BY <3>1, OneRowEach
    <3>3. i \in DOMAIN gateways
      BY DEF Heard
    <3>4. /\ WindowLength(sfs[d]) \in Nat /\ RowsOf(i, sfs[d]) \in Nat
          /\ WindowLength(sfs[d]) >= RowsOf(i, sfs[d])
      BY <2>1, <3>3, WindowIsLong
    <3> QED
      BY <2>1, <3>2, <3>4 DEF E
  <2> QED
    BY <2>3, <2>4
<1> QED
  BY <1>1, InitInv, NextInv, ChosenInit, ChosenStep, PTL DEF Spec

-----------------------------------------------------------------------------
(* The scenario *)

LEMMA EveryNumber ==
  ASSUME NEW T \in SUBSET Nat, 0 \in T, \A n \in T : n + 1 \in T
  PROVE  T = Nat
<1> SUFFICES ASSUME Nat \ T # {} PROVE FALSE
  OBVIOUS
<1>1. PICK n \in Nat \ T : \A m \in Nat \ T : n <= m
  BY LeastNumber
<1>2. n \in Nat /\ n # 0 /\ n - 1 \in Nat /\ (n - 1) + 1 = n
  OBVIOUS
<1>3. n - 1 \in T
  BY <1>1, <1>2
<1> QED
  BY <1>2, <1>3

\* The distance between two gateways, by recursion on the number of the gateway,
\* and the recursion as far as n.
Distances(f) ==
  f = [i \in Nat |-> IF i = 0 THEN DistanceBtwGateways ELSE (95 * f[i - 1]) \div 100]

DistancesUpTo(f, n) ==
  /\ f[0] = DistanceBtwGateways
  /\ \A i \in 1 .. n : f[i] = (95 * f[i - 1]) \div 100

LEMMA DistancesAgree ==
  ASSUME NEW f, NEW g, NEW n \in Nat, DistancesUpTo(f, n), DistancesUpTo(g, n)
  PROVE  \A i \in 0 .. n : f[i] = g[i]
<1> DEFINE T == {i \in 0 .. n : f[i] # g[i]}
<1> SUFFICES ASSUME T # {} PROVE FALSE
  OBVIOUS
<1>1. T \in SUBSET Nat
  OBVIOUS
<1>2. PICK i \in T : \A j \in T : i <= j
  <2> HIDE DEF T
  <2> QED
    BY <1>1, LeastNumber
<1>3. i # 0 /\ i \in 1 .. n /\ i - 1 \in 0 .. n /\ i - 1 < i
  BY <1>2 DEF DistancesUpTo
<1>4. f[i - 1] = g[i - 1]
  BY <1>2, <1>3
<1> QED
  BY <1>2, <1>3, <1>4 DEF DistancesUpTo

LEMMA DistancesExist == \E f : Distances(f)
<1> DEFINE T == {n \in Nat : \E f : DistancesUpTo(f, n)}
<1>1. 0 \in T
  <2>1. DistancesUpTo([i \in Nat |-> DistanceBtwGateways], 0)
    BY DEF DistancesUpTo
  <2> QED
    BY <2>1
<1>2. ASSUME NEW n \in T PROVE n + 1 \in T
  <2>1. PICK f : DistancesUpTo(f, n)
    OBVIOUS
  <2> DEFINE g == [i \in Nat |-> IF i = n + 1 THEN (95 * f[n]) \div 100 ELSE f[i]]
  <2>2. g[0] = DistanceBtwGateways
    BY <2>1 DEF DistancesUpTo
  <2>3. ASSUME NEW i \in 1 .. n + 1 PROVE g[i] = (95 * g[i - 1]) \div 100
    <3>1. i \in Nat /\ i - 1 \in Nat /\ i - 1 # n + 1
      OBVIOUS
    <3>2. g[i - 1] = f[i - 1]
      BY <3>1
    <3>3. CASE i = n + 1
      <4>1. i - 1 = n
        BY <3>3
      <4> QED
        BY <3>1, <3>2, <3>3, <4>1
    <3>4. CASE i # n + 1
      <4>1. i \in 1 .. n /\ g[i] = f[i]
        BY <3>1, <3>4
      <4> HIDE DEF g
      <4> QED
        BY <2>1, <3>2, <4>1 DEF DistancesUpTo
    <3> QED
      BY <3>3, <3>4
  <2> HIDE DEF g
  <2>4. DistancesUpTo(g, n + 1)
    BY <2>2, <2>3 DEF DistancesUpTo
  <2> QED
    BY <2>4
<1>3. T = Nat
  <2>1. T \in SUBSET Nat
    OBVIOUS
  <2> HIDE DEF T
  <2> QED
    BY <1>1, <1>2, <2>1, EveryNumber
<1> DEFINE upTo(n) == CHOOSE f : DistancesUpTo(f, n)
           h == [n \in Nat |-> upTo(n)[n]]
<1>4. \A n \in Nat : DistancesUpTo(upTo(n), n)
  BY <1>3
<1> HIDE DEF upTo, T
<1>5. h[0] = DistanceBtwGateways
  BY <1>4 DEF DistancesUpTo
<1>6. ASSUME NEW i \in Nat \ {0} PROVE h[i] = (95 * h[i - 1]) \div 100
  <2>1. i - 1 \in Nat /\ i \in 1 .. i /\ i - 1 \in 0 .. i - 1 /\ \A j \in 1 .. i - 1 : j \in 1 .. i
    OBVIOUS
  <2>2. DistancesUpTo(upTo(i), i) /\ DistancesUpTo(upTo(i - 1), i - 1)
    BY <1>4, <2>1
  <2>3. DistancesUpTo(upTo(i), i - 1)
    BY <2>1, <2>2 DEF DistancesUpTo
  <2>4. upTo(i)[i - 1] = upTo(i - 1)[i - 1]
    BY <2>1, <2>2, <2>3, DistancesAgree
  <2>5. upTo(i)[i] = (95 * upTo(i)[i - 1]) \div 100
    BY <2>1, <2>2 DEF DistancesUpTo
  <2> QED
    BY <2>1, <2>4, <2>5
<1>7. h = [i \in Nat |-> h[i]]
  OBVIOUS
<1> HIDE DEF h
<1>8. Distances(h)
  BY <1>5, <1>6, <1>7 DEF Distances
<1> QED
  BY <1>8

LEMMA DistancesAreNumbers == \A i \in Nat : distanceBtwCenters[i] \in Nat
<1>1. Distances(distanceBtwCenters)
  BY DistancesExist DEF Distances, distanceBtwCenters
<1> DEFINE T == {i \in Nat : distanceBtwCenters[i] \in Nat}
<1>2. distanceBtwCenters[0] = DistanceBtwGateways
  BY <1>1 DEF Distances
<1>3. \A i \in Nat : distanceBtwCenters[i + 1] = (95 * distanceBtwCenters[i]) \div 100
  <2> SUFFICES ASSUME NEW i \in Nat
               PROVE  distanceBtwCenters[i + 1] = (95 * distanceBtwCenters[i]) \div 100
    OBVIOUS
  <2>1. i + 1 \in Nat /\ i + 1 # 0 /\ (i + 1) - 1 = i
    OBVIOUS
  <2> QED
    BY <1>1, <2>1 DEF Distances
<1>4. 0 \in T
  BY <1>2 DEF DistanceBtwGateways
<1>5. \A i \in T : i + 1 \in T
  <2> SUFFICES ASSUME NEW i \in T PROVE i + 1 \in T
    OBVIOUS
  <2>1. i + 1 \in Nat /\ distanceBtwCenters[i] \in Nat
    OBVIOUS
  <2>2. (95 * distanceBtwCenters[i]) \div 100 \in Nat
    BY <2>1
  <2> QED
    BY <1>3, <2>1, <2>2
<1>6. T = Nat
  <2>1. T \in SUBSET Nat
    OBVIOUS
  <2> HIDE DEF T
  <2> QED
    BY <1>4, <1>5, <2>1, EveryNumber
<1> QED
  BY <1>6
\* Place n of the elements of a set, counting from the least.
LEMMA NthExists ==
  ASSUME NEW b \in Nat, NEW T \in SUBSET (1 .. b), NEW n \in Nat, n < Cardinality(T)
  PROVE  \E v \in T : Cardinality({w \in T : w < v}) = n
<1> DEFINE below(v) == {w \in T : w < v}
           S == {v \in T : Cardinality(below(v)) >= n}
<1>0. IsFiniteSet(T) /\ T \in SUBSET Nat /\ \A m \in T : m <= b
  <2>1. IsFiniteSet(1 .. b)
    BY FS_Interval
  <2>2. IsFiniteSet(T)
    BY <2>1, FS_Subset
  <2> QED
    BY <2>2
<1>1. ASSUME NEW v \in T PROVE IsFiniteSet(below(v)) /\ Cardinality(below(v)) \in Nat
  <2>1. below(v) \in SUBSET T
    OBVIOUS
  <2> HIDE DEF below
  <2> QED
    BY <1>0, <2>1, FS_Subset, FS_CardinalityType
\* The greatest element of a part that is closed downwards has all others below it.
<1>2. ASSUME NEW U \in SUBSET T, U # {}, IsFiniteSet(U), \A v \in U : below(v) \subseteq U
      PROVE  \E u \in U : Cardinality(below(u)) = Cardinality(U) - 1
  <2>1. U \in SUBSET Nat /\ \A m \in U : m <= b
    BY <1>0, <1>2
  <2>2. PICK u \in U : \A m \in U : u >= m
    BY <1>2, <2>1, GreatestNumber
  <2>3. below(u) = U \ {u}
    <3>1. below(u) \subseteq U /\ \A w \in below(u) : w \in Nat /\ w < u
      BY <1>2, <2>1, <2>2
    <3>2. \A w \in U \ {u} : w \in T /\ w \in Nat /\ u \in Nat /\ u >= w /\ u # w
      BY <1>2, <2>1, <2>2
    <3>3. \A w \in U \ {u} : w \in below(u)
      BY <3>2
    <3>4. u \in Nat
      BY <2>1
    <3> HIDE DEF below
    <3>5. \A w \in below(u) : w \in U \ {u}
      BY <3>1, <3>4
    <3> QED
      BY <3>3, <3>5
  <2> HIDE DEF below
  <2> QED
    BY <1>2, <2>2, <2>3, FS_RemoveElement
<1>3. S # {}
  <2>1. T # {} /\ Cardinality(T) \in Nat /\ IsFiniteSet(T)
    BY <1>0, FS_EmptySet, FS_CardinalityType
  <2>2. PICK u \in T : Cardinality(below(u)) = Cardinality(T) - 1
    BY <1>2, <2>1
  <2> QED
    BY <2>1, <2>2
<1>4. S \in SUBSET Nat
  BY <1>0
<1>5. PICK v \in S : \A m \in S : v <= m
  <2> HIDE DEF S
  <2> QED
    BY <1>3, <1>4, LeastNumber
<1>6. v \in T /\ Cardinality(below(v)) \in Nat /\ Cardinality(below(v)) >= n
  BY <1>1
<1>7. CASE Cardinality(below(v)) > n
  <2>1. below(v) \in SUBSET T /\ \A u \in below(v) : u \in T /\ u < v
    BY <1>6
  <2>5. \A u \in below(v) : below(u) \subseteq below(v)
    <3> SUFFICES ASSUME NEW u \in below(v), NEW w \in T, w < u PROVE w < v
      OBVIOUS
    <3> QED
      BY <1>0, <1>6, <2>1
  <2>2. below(v) # {}
    BY <1>6, <1>7, FS_EmptySet
  <2>3. PICK u \in below(v) : Cardinality(below(u)) = Cardinality(below(v)) - 1
    <3> HIDE DEF below
    <3> QED
      BY <1>1, <1>2, <1>6, <2>1, <2>2, <2>5
  <2>4. u \in S
    BY <1>1, <1>6, <1>7, <2>1, <2>3
  <2> QED
    BY <1>0, <1>5, <1>6, <2>1, <2>4
<1> QED
  BY <1>6, <1>7

\* The grid has at least one row, and no more rows than gateways.
LEMMA ColumnsOfGrid ==
  ASSUME NEW qty \in Nat \ {0}, NEW iteration \in Nat
  PROVE  Columns(qty, iteration) \in 1 .. qty
<1> DEFINE dividends == {v \in 1 .. qty : v * v <= qty /\ (qty % v) = 0}
           nth == iteration % Cardinality(dividends)
<1>1. dividends \in SUBSET (1 .. qty) /\ dividends \in SUBSET Nat
  OBVIOUS
<1>2. 1 \in dividends
  <2>1. 1 \in 1 .. qty /\ 1 * 1 <= qty /\ (qty % 1) = 0
    OBVIOUS
  <2> QED
    BY <2>1
<1>3. Columns(qty, iteration) = CHOOSE v \in dividends : Cardinality({w \in dividends : w < v}) = nth
  BY DEF Columns
<1> HIDE DEF dividends
<1>4. IsFiniteSet(dividends) /\ Cardinality(dividends) \in Nat \ {0}
  <2>1. IsFiniteSet(1 .. qty)
    BY FS_Interval
  <2>2. IsFiniteSet(dividends)
    BY <1>1, <2>1, FS_Subset
  <2> QED
    BY <1>2, <2>2, FS_CardinalityType, FS_EmptySet
<1>5. nth \in Nat /\ nth < Cardinality(dividends)
  BY <1>4
<1> HIDE DEF nth
<1>6. \E v \in dividends : Cardinality({w \in dividends : w < v}) = nth
  BY <1>1, <1>5, NthExists
<1> QED
  BY <1>1, <1>3, <1>6

\* A whole number of rows of at least one gateway, at numbers of metres.
LEMMA GatewaysArePlaced ==
  ASSUME NEW qty \in Nat \ {0}, NEW cols \in 1 .. qty
  PROVE  GatewaysPlacement(qty, cols) \in Seq(Place)
<1> DEFINE perRow == qty \div cols
<1>1. perRow \in Nat
  OBVIOUS
<1>2. perRow # 0
  <2>1. qty = cols * perRow + (qty % cols) /\ qty % cols < cols
    OBVIOUS
  <2> QED
    BY <2>1
<1>3. cols * perRow \in Nat
  BY <1>1
<1>4. GatewaysPlacement(qty, cols) =
        [i \in 1 .. cols * perRow |->
           [x |-> Placed((i - 1) % perRow, distanceBtwCenters[i]),
            y |-> Placed((i - 1) \div perRow, distanceBtwCenters[i])]]
  BY DEF GatewaysPlacement
<1> HIDE DEF perRow
<1>5. ASSUME NEW a \in Nat, NEW d \in Nat PROVE Placed(a, d) \in Nat
  <2>1. a * d \in Nat /\ d \div 2 \in Nat
    OBVIOUS
  <2> QED
    BY <2>1 DEF Placed
<1>6. ASSUME NEW i \in 1 .. cols * perRow
      PROVE  /\ Placed((i - 1) % perRow, distanceBtwCenters[i]) \in Nat
             /\ Placed((i - 1) \div perRow, distanceBtwCenters[i]) \in Nat
  <2>1. i \in Nat /\ i - 1 \in Nat
    BY <1>3
  <2>2. (i - 1) % perRow \in Nat /\ (i - 1) \div perRow \in Nat
    BY <1>1, <1>2, <2>1
  <2>3. distanceBtwCenters[i] \in Nat
    BY <2>1, DistancesAreNumbers
  <2> QED
    BY <1>5, <2>2, <2>3
<1> DEFINE place(i) == [x |-> Placed((i - 1) % perRow, distanceBtwCenters[i]),
                       y |-> Placed((i - 1) \div perRow, distanceBtwCenters[i])]
<1>7. \A i \in 1 .. cols * perRow : place(i) \in Place
  BY <1>6 DEF Place
<1>8. GatewaysPlacement(qty, cols) = [i \in 1 .. cols * perRow |-> place(i)]
  BY <1>4
<1> DEFINE n == cols * perRow
<1> HIDE DEF place
<1>9. [i \in 1 .. n |-> place(i)] \in Seq(Place)
  <2>1. n \in Nat /\ \A i \in 1 .. n : place(i) \in Place
    BY <1>3, <1>7
  <2> HIDE DEF n
  <2> QED
    BY <2>1
<1> QED
  BY <1>8, <1>9

\* A sample of Math.random, scaled.
LEMMA BetweenIsBetween ==
  ASSUME NEW r \in 0 .. 999, NEW min \in Nat, NEW max \in Nat, min <= max
  PROVE  /\ between(r, min, max) \in min .. max
         /\ min < max => between(r, min, max) < max
<1> DEFINE d == max - min
           q == (r * d) \div 1000
<1>1. d \in Nat /\ r * d \in Nat
  OBVIOUS
<1>2. between(r, min, max) = min + q
  BY DEF between
<1>3. r * d <= 999 * d
  BY <1>1
<1> HIDE DEF d
<1>4. q \in Nat /\ 1000 * q <= r * d
  BY <1>1
<1> HIDE DEF q
<1>5. q <= d /\ (d > 0 => q < d)
  BY <1>1, <1>3, <1>4
<1> QED
  BY <1>2, <1>4, <1>5 DEF d

-----------------------------------------------------------------------------
(* Types and deadlines *)

\* There are devices once they are created, and the probe never counts or starts
\* one that does not exist.
Built ==
  /\ phase \in {"create", "created", "probe", "done"} /\ assignment \in Assignments
  /\ gateways \in Seq(Place) /\ columns \in Nat /\ devices \in Seq(Place)
  /\ phase # "create" => devices # <<>>
  /\ probe.nodeId \in 0 .. Len(devices) /\ probe.armed \subseteq DOMAIN devices

LEMMA BuiltInit == Init => Built
BY DEF Init, Built, IdleProbe

LEMMA CreateGatewaysBuilt ==
  ASSUME IInv, Built, NEW qty \in GatewayQuantities, NEW iteration \in Iterations,
         CreateGateways(qty, iteration)
  PROVE  Built'
<1>1. /\ columns' = Columns(qty, iteration) /\ gateways' = GatewaysPlacement(qty, columns')
      /\ UNCHANGED <<phase, assignment, devices, probe>>
  BY DEF CreateGateways
<1>2. qty \in Nat \ {0} /\ iteration \in Nat
  BY DeploymentAssumption
<1>3. columns' \in 1 .. qty
  BY <1>1, <1>2, ColumnsOfGrid
<1>4. gateways' \in Seq(Place)
  BY <1>1, <1>2, <1>3, GatewaysArePlaced
<1> QED
  BY <1>1, <1>3, <1>4 DEF Built

LEMMA CreateDevicesBuilt ==
  ASSUME IInv, Built, NEW random \in RandomNumbers, CreateDevices(random)
  PROVE  Built'
<1> DEFINE size == ScenarioSize(gateways)
           qty == between(random, MinQty, MaxQty)
           places == {[x |-> between(r, 0, size.width), y |-> between(s, 0, size.height)] :
                        r \in RandomNumbers, s \in RandomNumbers}
<1>1. /\ gateways # <<>> /\ phase = "create" /\ phase' = "created" /\ devices' \in [1 .. qty -> places]
      /\ UNCHANGED <<assignment, gateways, columns, probe>>
  BY DEF CreateDevices
<1>2. RandomNumbers \subseteq 0 .. 999 /\ MinQty \in Nat \ {0} /\ MaxQty \in Nat /\ MinQty <= MaxQty
  BY DeploymentAssumption
<1>3. qty \in Nat \ {0}
  <2>1. qty \in MinQty .. MaxQty
    <3>1. random \in 0 .. 999 /\ MinQty \in Nat /\ MaxQty \in Nat /\ MinQty <= MaxQty
      BY <1>2
    <3> QED
      BY ONLY <3>1, BetweenIsBetween, Zenon
  <2> HIDE DEF qty
  <2> QED
    BY <1>2, <2>1
<1>4. size.width \in Nat /\ size.height \in Nat
  <2> DEFINE last == gateways[Len(gateways)]
  <2>1. last \in Place
    BY <1>1 DEF Built
  <2>2. last.x \in Nat /\ last.y \in Nat
    BY <2>1 DEF Place
  <2>3. DistanceBtwGateways \div 200 \in Nat
    BY DEF DistanceBtwGateways
  <2>4. size = [width |-> last.x + DistanceBtwGateways \div 200, height |-> last.y + DistanceBtwGateways \div 200]
    BY DEF ScenarioSize
  <2> HIDE DEF last, size
  <2> QED
    BY <2>2, <2>3, <2>4
<1> HIDE DEF size, qty
<1>5. places \subseteq Place
  <2>1. ASSUME NEW r \in RandomNumbers, NEW m \in Nat PROVE between(r, 0, m) \in Nat
    <3>1. r \in 0 .. 999 /\ 0 \in Nat /\ 0 <= m
      BY <1>2
    <3>2. between(r, 0, m) \in 0 .. m
      BY <3>1, BetweenIsBetween
    <3> QED
      BY <3>2
  <2> QED
    BY <1>4, <2>1 DEF Place
<1> HIDE DEF places
<1>6. devices' \in Seq(Place) /\ devices' # <<>> /\ Len(devices') = qty
  <2>1. devices' \in [1 .. qty -> Place]
    BY <1>1, <1>5
  <2>2. devices' \in Seq(Place) /\ Len(devices') = qty
    BY <1>3, <2>1
  <2> QED
    BY <1>3, <2>2
<1>7. probe = IdleProbe
  BY <1>1 DEF IInv, NothingYet
<1> QED
  BY <1>1, <1>3, <1>6, <1>7 DEF Built, IdleProbe

LEMMA ReceiveBuilt ==
  ASSUME IInv, Built, NEW d \in DOMAIN devices, NEW i, Receive(d, i)
  PROVE  Built'
<1>1. /\ <<d, i>> \in probe.arriving /\ OnGWReceivedPackets(d, i)
      /\ UNCHANGED <<phase, assignment, gateways, columns, devices>>
  BY DEF Receive
<1>2. probe'.nodeId = d
  BY <1>1, CountsTheSender
<1>3. Len(devices) \in Nat /\ DOMAIN devices = 1 .. Len(devices)
  BY DEF Built
<1>4. probe'.armed \subseteq DOMAIN devices
  <2>1. CASE probe.lastPacketId = d
    <3>1. probe' = [probe EXCEPT !.arriving = @ \ {<<d, i>>}]
      BY <1>1, <2>1 DEF OnGWReceivedPackets
    <3>2. probe'.armed = probe.armed
      BY <3>1 DEF IInv, Typed
    <3> QED
      BY <3>2 DEF Built
  <2>2. CASE probe.lastPacketId # d
    <3>1. probe'.armed = IF probe.nodeId + 1 < Len(devices) THEN probe.armed \union {probe.nodeId + 2} ELSE probe.armed
      BY <1>1, <2>2 DEF OnGWReceivedPackets
    <3>2. probe.nodeId \in Nat
      BY DEF IInv, Typed
    <3>3. probe.nodeId + 1 < Len(devices) => probe.nodeId + 2 \in DOMAIN devices
      BY <1>3, <3>2
    <3> QED
      BY <3>1, <3>3 DEF Built
  <2> QED
    BY <2>1, <2>2
<1> QED
  BY <1>1, <1>2, <1>3, <1>4 DEF Built

LEMMA BuiltStep == IInv /\ Built /\ [Next]_vars => Built'
<1> SUFFICES ASSUME IInv, Built, [Next]_vars PROVE Built'
  OBVIOUS
<1>1. ASSUME NEW qty \in GatewayQuantities, NEW iteration \in Iterations, CreateGateways(qty, iteration)
      PROVE  Built'
  BY <1>1, CreateGatewaysBuilt
<1>2. ASSUME NEW random \in RandomNumbers, CreateDevices(random) PROVE Built'
  BY <1>2, CreateDevicesBuilt
<1>3. CASE StartProbe
  <2>1. /\ phase = "created" /\ phase' = "probe" /\ probe' = [probe EXCEPT !.armed = {1}]
        /\ UNCHANGED <<assignment, gateways, columns, devices>>
    BY <1>3 DEF StartProbe
  <2>2. probe'.nodeId = probe.nodeId /\ probe'.armed = {1}
    BY <2>1 DEF IInv, Typed
  <2>3. 1 \in DOMAIN devices
    BY <2>1 DEF Built
  <2> QED
    BY <2>1, <2>2, <2>3 DEF Built
<1>4. ASSUME NEW d \in DOMAIN devices, SendPacket(d) PROVE Built'
  <2>1. /\ probe' = [probe EXCEPT !.armed = @ \ {d}, !.arriving = {<<d, i>> : i \in Heard(d)}]
        /\ UNCHANGED <<phase, assignment, gateways, columns, devices>>
    BY <1>4 DEF SendPacket
  <2>2. probe'.nodeId = probe.nodeId /\ probe'.armed = probe.armed \ {d}
    BY <2>1 DEF IInv, Typed
  <2> QED
    BY <2>1, <2>2 DEF Built
<1>5. ASSUME NEW d \in DOMAIN devices, NEW i \in DOMAIN gateways, Receive(d, i) PROVE Built'
  BY <1>5, ReceiveBuilt
<1>6. ASSUME NEW random \in RandomNumbers, AddSFandGWs(random) PROVE Built'
  BY <1>6 DEF AddSFandGWs, Built
<1>7. CASE UNCHANGED vars
  BY <1>7 DEF Built, vars
<1> QED
  BY <1>1, <1>2, <1>3, <1>4, <1>5, <1>6, <1>7 DEF Next

\* At a duty cycle of an eighth or less every window has two slots: a slot is shorter
\* than eight packets.
LEMMA TwoSlots ==
  ASSUME DutyDiv >= 8, IInv, NEW sf \in 7 .. 12, NEW i \in DOMAIN gateways
  PROVE  WindowLength(sf) \in Nat /\ WindowLength(sf) >= 2
<1> DEFINE air == packetAirtimeBySF[sf]
           slot == SlotLengthBySF(sf)
           w == WindowLength(sf)
<1>1. w \in Nat /\ w * slot >= DutyDiv * air
  BY WindowIsLong
<1>2. air \in Nat /\ slot \in Nat \ {0} /\ DutyDiv \in Nat
  BY AirtimesAndSlots, DeploymentAssumption
<1>3. air > 3340
  <2>1. sf - 6 \in 1 .. 6 /\ air = <<3689, 6559, 6769, 6948, 15606, 27935>>[sf - 6]
    BY DEF packetAirtimeBySF
  <2> QED
    BY <2>1
<1>4. slot = 5 * air + 10020
  <2> HIDE DEF air
  <2> QED
    BY <1>2 DEF SlotLengthBySF, air
<1> HIDE DEF air, slot, w
<1>5. DutyDiv * air \in Nat /\ DutyDiv * air >= 8 * air
  BY <1>2
<1>6. w * slot > slot
  <2>1. w * slot \in Nat
    BY <1>1, <1>2
  <2> QED
    BY <1>1, <1>2, <1>3, <1>4, <1>5, <2>1
<1>7. w # 0 /\ w # 1
  BY <1>2, <1>6
<1> QED
  BY <1>1, <1>7 DEF w

\* For any scenario whose duty cycle is an eighth or less, places, counts and spreading
\* factors are what they should be, no row names a device or gateway that does not
\* exist, and a device that was heard has a deadline after the first slot of its
\* window and not after the last.
THEOREM TypeCorrect ==
  ASSUME DutyDiv >= 8
  PROVE  Spec => []TypeOK
<1>1. IInv /\ Chosen /\ Built => TypeOK
  <2> SUFFICES ASSUME IInv, Chosen, Built PROVE TypeOK
    OBVIOUS
  <2>1. Len(devices) \in Nat /\ DOMAIN devices = 1 .. Len(devices)
    BY DEF Built
  <2>2. sfs \in Seq(7 .. 12)
    <3>1. CASE phase \in {"create", "created"}
      <4>1. sfs = <<>>
        BY <3>1 DEF Chosen
      <4> QED
        BY ONLY <4>1
    <3>2. CASE phase \in {"probe", "done"}
      <4>1. sfs \in [1 .. Len(devices) -> 7 .. 12]
        BY <2>1, <3>2 DEF Chosen
      <4> QED
        BY <2>1, <4>1
    <3> QED
      BY <3>1, <3>2 DEF Built
  <2>3. ASSUME NEW k \in DOMAIN rows
        PROVE  rows[k].nodeId \in DOMAIN devices /\ rows[k].gatewayId \in DOMAIN gateways
    <3>1. rows[k].nodeId \in 1 .. probe.nodeId
      BY DEF IInv, RowsCounted
    <3>2. probe.nodeId \in Nat /\ probe.nodeId <= Len(devices)
      BY <2>1 DEF Built
    <3>3. rows[k].gatewayId \in DOMAIN gateways
      BY DEF IInv, RowsTellTheTruth, Heard
    <3> QED
      BY <2>1, <3>1, <3>2, <3>3
  <2>4. ASSUME NEW d \in DOMAIN schedule
        PROVE  schedule[d] = NoSchedule \/ schedule[d].deadline \in 2 .. schedule[d].windowlength
    <3> SUFFICES ASSUME schedule[d] # NoSchedule
                 PROVE  schedule[d].deadline \in 2 .. schedule[d].windowlength
      OBVIOUS
    <3>1. phase = "done" /\ d \in DOMAIN devices
      BY DEF Chosen
    <3>2. /\ schedule[d].windowlength = WindowLength(sfs[d]) /\ sfs[d] \in 7 .. 12
          /\ \E k \in DOMAIN rows : rows[k].nodeId = d
          /\ \E random \in RandomNumbers : schedule[d].deadline = Deadline(random, schedule[d].windowlength)
      BY <3>1, ScheduleMade
    <3>3. PICK i \in DOMAIN gateways : TRUE
      BY <2>3, <3>2
    <3>4. PICK random \in RandomNumbers : schedule[d].deadline = Deadline(random, schedule[d].windowlength)
      BY <3>2
    <3> DEFINE w == schedule[d].windowlength
    <3>5. w \in Nat /\ w >= 2
      BY <3>2, <3>3, TwoSlots
    <3> HIDE DEF w
    <3>6. random \in 0 .. 999 /\ 1 \in Nat /\ 1 <= w /\ 1 < w
      BY <3>5, DeploymentAssumption
    <3>7. between(random, 1, w) \in 1 .. w /\ between(random, 1, w) < w
      BY <3>5, <3>6, BetweenIsBetween
    <3>8. Deadline(random, w) \in 2 .. w
      BY <3>5, <3>7 DEF Deadline
    <3> QED
      BY <3>4, <3>8 DEF w
  <2> QED
    BY <2>2, <2>3, <2>4 DEF Built, TypeOK
<1> QED
  BY <1>1, InitInv, NextInv, ChosenInit, ChosenStep, BuiltInit, BuiltStep, PTL DEF Spec

=============================================================================
