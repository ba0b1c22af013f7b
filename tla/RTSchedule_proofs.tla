------------------------- MODULE RTSchedule_proofs -------------------------
(* Proofs about the schedule that index.js and rt-lorawan-2 lay out. *)
EXTENDS RTSchedule, FiniteSetTheorems, SequenceTheorems, WellFoundedInduction, TLAPS

\* Quotient and remainder are what they are in a sum q * b + r.
LEMMA DivUnique ==
  ASSUME NEW b \in Nat \ {0}, NEW q \in Int, NEW r \in 0..(b - 1)
  PROVE  (q * b + r) \div b = q /\ (q * b + r) % b = r
  OBVIOUS

LEMMA DivMod ==
  ASSUME NEW a \in Int, NEW b \in Nat \ {0}
  PROVE  /\ a \div b \in Int /\ a % b \in 0..(b - 1)
         /\ a = ((a \div b) * b) + (a % b)
  OBVIOUS

\* CeilDiv rounds up: it is the least number of bs that make up a.
LEMMA CeilDivCovers ==
  ASSUME NEW a \in Nat, NEW b \in Nat \ {0}
  PROVE  /\ CeilDiv(a, b) \in Nat
         /\ a <= b * CeilDiv(a, b)
         /\ b * CeilDiv(a, b) < a + b
<1> DEFINE q == (a + b - 1) \div b
           r == (a + b - 1) % b
<1>0. a + b - 1 \in Int
  OBVIOUS
<1>1. q \in Int /\ r \in 0..(b - 1) /\ a + b - 1 = (q * b) + r
  BY ONLY <1>0, b \in Nat \ {0}, DivMod
<1>5. CeilDiv(a, b) = q
  BY DEF CeilDiv
<1> HIDE DEF q, r
<1>2. q * b = b * q
  BY <1>1
<1>3. a <= b * q /\ b * q < a + b
  BY <1>1, <1>2
<1>4. q \in Nat
  <2>1. CASE q < 0
    <3>1. q <= -1
      BY <2>1, <1>1
    <3>2. b * q <= b * (-1)
      BY <3>1, <1>1
    <3> QED
      BY <3>2, <1>1, <1>3
  <2> QED
    BY <2>1, <1>1
<1> QED
  BY ONLY <1>3, <1>4, <1>5, Zenon

LEMMA SlotLengthType == SlotLength \in Nat \ {0}
  BY ScheduleAssumption DEF SlotLength

\* The maximum that MaxDevices chooses exists.
LEMMA MaxDevicesIsMax ==
  ASSUME NEW covers \in Coverages
  PROVE  /\ MaxDevices(covers) \in Nat
         /\ \A g \in Gateways : Cardinality(DevicesOf(covers, g)) <= MaxDevices(covers)
<1> DEFINE card(g) == Cardinality(DevicesOf(covers, g))
           N == Cardinality(Devices)
           Bounds == {n \in Nat : \A g \in Gateways : card(g) <= n}
<1>1. N \in Nat /\ \A g \in Gateways : card(g) \in Nat /\ card(g) <= N
  <2>1. N \in Nat
    BY FS_CardinalityType, ScheduleAssumption
  <2>2. ASSUME NEW g \in Gateways PROVE card(g) \in Nat /\ card(g) <= N
    <3>1. DevicesOf(covers, g) \in SUBSET Devices
      BY DEF DevicesOf
    <3>2. IsFiniteSet(DevicesOf(covers, g)) /\ card(g) <= N
      BY <3>1, FS_Subset, ScheduleAssumption
    <3> QED
      BY <3>2, FS_CardinalityType
  <2> QED
    BY <2>1, <2>2
<1>2. PICK g0 \in Gateways : TRUE
  <2>1. PICK d \in Devices : TRUE
    BY ScheduleAssumption
  <2> QED
    BY <2>1 DEF Coverages
<1> HIDE DEF card, N
<1>3. PICK n \in Bounds : \A m \in Bounds : ~(m < n)
  <2>1. Bounds \subseteq Nat /\ Bounds # {}
    BY <1>1
  <2>2. PICK n \in Bounds : \A m \in Bounds : ~(<<m, n>> \in OpToRel(<, Nat))
    BY <2>1, WFMin, NatLessThanWellFounded
  <2> QED
    BY <2>1, <2>2 DEF OpToRel
<1>4. \E g \in Gateways : n = card(g)
  <2> SUFFICES ASSUME \A g \in Gateways : n # card(g) PROVE FALSE
    OBVIOUS
  <2>1. \A g \in Gateways : card(g) < n
    BY <1>1, <1>3
  <2>2. n - 1 \in Bounds
    BY <1>1, <1>2, <1>3, <2>1
  <2> QED
    BY <1>3, <2>2
<1>5. n \in 0..N
  BY <1>1, <1>3, <1>4
<1>6. \E k \in 0..N : (\E g \in Gateways : k = card(g)) /\ \A g \in Gateways : card(g) <= k
  BY <1>3, <1>4, <1>5
<1> QED
  BY <1>1, <1>6 DEF MaxDevices, card, N

LEMMA WindowLengthType ==
  ASSUME NEW covers \in Coverages
  PROVE  /\ WindowLength(covers) \in Nat
         /\ DutyCycleLength <= WindowLength(covers)
         /\ MaxDevices(covers) <= WindowLength(covers)
<1>1. DutyCycleLength \in Nat
  BY CeilDivCovers, SlotLengthType, ScheduleAssumption DEF DutyCycleLength
<1> QED
  BY <1>1, MaxDevicesIsMax DEF WindowLength, Larger

\* A window is long enough for the duty cycle: a device that sends once in
\* each window is never asked to wait, as long as packets are no longer on air
\* than the table of index.js says.
THEOREM PeriodCoversDuty ==
  ASSUME NEW covers \in Coverages, AirTime <= TableAirTime
  PROVE  AirTime * DutyDiv <= SlotLength * WindowLength(covers)
<1> DEFINE a == TableAirTime * DutyDiv
<1>1. a \in Nat /\ AirTime * DutyDiv <= a
  BY ScheduleAssumption
<1>2. DutyCycleLength \in Nat /\ a <= SlotLength * DutyCycleLength
  BY <1>1, CeilDivCovers, SlotLengthType DEF DutyCycleLength
<1>3. SlotLength * DutyCycleLength <= SlotLength * WindowLength(covers)
  BY <1>2, WindowLengthType, SlotLengthType
<1>4. SlotLength * WindowLength(covers) \in Nat /\ AirTime * DutyDiv \in Nat
  BY SlotLengthType, WindowLengthType, ScheduleAssumption
<1> QED
  BY <1>1, <1>2, <1>3, <1>4, SlotLengthType

\* An instant that is the start of slot k + n * W, n windows after slot k.
LEMMA StartOfSlot ==
  ASSUME NEW L \in Nat \ {0}, NEW q \in Int
  PROVE  (L * q) % L = 0 /\ (L * q) \div L = q
<1>1. 0 \in 0..(L - 1) /\ L * q = (q * L) + 0
  OBVIOUS
<1> QED
  BY <1>1, DivUnique

\* The multiple of L that is t, moved on by a whole window, is the start of a
\* slot with the same place in its window.
LEMMA NextWindow ==
  ASSUME NEW L \in Nat \ {0}, NEW W \in Nat \ {0}, NEW t \in Nat, t % L = 0
  PROVE  /\ t + (L * W) \in Nat
         /\ (t + (L * W)) % L = 0
         /\ ((t + (L * W)) \div L) % W = (t \div L) % W
<1> DEFINE q == t \div L
           n == q \div W
           s == q % W
<1>1. q \in Int /\ t = q * L
  <2>1. t \div L \in Int /\ t = ((t \div L) * L) + (t % L)
    BY ONLY t \in Int, L \in Nat \ {0}, DivMod
  <2> QED
    BY <2>1
<1>2. n \in Int /\ s \in 0..(W - 1) /\ q = (n * W) + s
  <2>1. q \div W \in Int /\ q % W \in 0..(W - 1) /\ q = ((q \div W) * W) + (q % W)
    BY ONLY <1>1, W \in Nat \ {0}, DivMod
  <2> QED
    BY <2>1
<1> HIDE DEF q, n, s
<1>3. t + (L * W) = L * (q + W) /\ q + W \in Int
  BY <1>1
<1>4. (t + (L * W)) % L = 0 /\ (t + (L * W)) \div L = q + W
  BY <1>3, StartOfSlot
<1>5. q + W = ((n + 1) * W) + s /\ n + 1 \in Int
  BY <1>2
<1>6. (q + W) % W = s
  BY <1>2, <1>5, DivUnique
<1>7. L * W \in Nat
  OBVIOUS
<1> QED
  BY <1>4, <1>6, <1>7 DEF q, s

-----------------------------------------------------------------------------
\* The plan stays what Init made it, and every sender is due at the start of a
\* slot of its own.
IInv ==
  /\ plan.length \in Nat \ {0} /\ plan.window \in Nat \ {0}
  /\ plan.slot \in [Devices -> 1..plan.window]
  /\ app \in [Devices -> Nat] /\ now \in Nat
  /\ \A d \in Devices : app[d] % plan.length = 0
  /\ \A d \in Devices : (app[d] \div plan.length) % plan.window = plan.slot[d] - 1

LEMMA InvInit == Init => IInv
<1> SUFFICES ASSUME Init PROVE IInv
  OBVIOUS
<1>0. PICK covers \in Coverages : \E slot \in Assignments(covers) :
        plan = [covers |-> covers, slot |-> slot,
                window |-> WindowLength(covers), length |-> SlotLength]
  BY DEF Init
<1>1. PICK slot \in Assignments(covers) :
        plan = [covers |-> covers, slot |-> slot,
                window |-> WindowLength(covers), length |-> SlotLength]
  BY <1>0
<1> DEFINE W == WindowLength(covers)
           L == SlotLength
<1>2. L \in Nat \ {0} /\ W \in Nat
  BY SlotLengthType, WindowLengthType
<1>3. slot \in [Devices -> 1..W]
  BY DEF Assignments
<1>4. W \in Nat \ {0}
  BY <1>2, <1>3, ScheduleAssumption
<1> HIDE DEF W, L
<1>5. /\ plan.length = L /\ plan.window = W /\ plan.slot = slot
      /\ app = [d \in Devices |-> L * (slot[d] - 1)]
  BY <1>1 DEF Init, InitialDelay, W, L
<1>6. ASSUME NEW d \in Devices
      PROVE  /\ L * (slot[d] - 1) \in Nat
             /\ (L * (slot[d] - 1)) % L = 0
             /\ ((L * (slot[d] - 1)) \div L) % W = slot[d] - 1
  <2> DEFINE k == slot[d] - 1
  <2>1. k \in 0..(W - 1)
    BY <1>3, <1>4
  <2> HIDE DEF k
  <2>2. L * k \in Nat
    BY <1>2, <2>1
  <2>3. (L * k) % L = 0 /\ (L * k) \div L = k
    BY <1>2, <2>1, StartOfSlot
  <2>4. k = (0 * W) + k
    BY <1>4, <2>1
  <2>5. k % W = k
    BY <1>4, <2>1, <2>4, DivUnique
  <2> QED
    BY <2>2, <2>3, <2>5 DEF k
<1> QED
  BY <1>2, <1>3, <1>4, <1>5, <1>6 DEF Init, IInv

LEMMA InvStep == IInv /\ [Next]_vars => IInv'
<1> SUFFICES ASSUME IInv, [Next]_vars PROVE IInv'
  OBVIOUS
<1>1. CASE Tick
  BY <1>1 DEF Tick, IInv
<1>2. ASSUME NEW d \in Devices, RunEvent(d) PROVE IInv'
  <2>1. UNCHANGED <<plan, now, app>>
    BY <1>2 DEF RunEvent
  <2> QED
    BY <2>1 DEF IInv
<1>3. ASSUME NEW d \in Devices, SendPacket(d) PROVE IInv'
  <2> DEFINE L == plan.length
             W == plan.window
             t == app[d]
             k == plan.slot[d] - 1
  <2>1. UNCHANGED <<plan, now>> /\ app' = [app EXCEPT ![d] = t + (L * W)]
    BY <1>3 DEF SendPacket, Interval, IInv
  <2>2. /\ L \in Nat \ {0} /\ W \in Nat \ {0} /\ t \in Nat /\ k \in 0..(W - 1)
        /\ t % L = 0 /\ (t \div L) % W = k
    BY DEF IInv
  <2> HIDE DEF L, W, t, k
  <2>3. /\ t + (L * W) \in Nat
        /\ (t + (L * W)) % L = 0
        /\ ((t + (L * W)) \div L) % W = (t \div L) % W
    BY ONLY <2>2, NextWindow
  <2>4. \A e \in Devices : app'[e] = IF e = d THEN t + (L * W) ELSE app[e]
    BY <2>1 DEF IInv
  <2>5. app' \in [Devices -> Nat]
    BY <2>1, <2>3 DEF IInv
  <2>6. plan' = plan /\ now' = now
    BY <2>1
  <2> QED
    BY <2>2, <2>3, <2>4, <2>5, <2>6 DEF IInv, L, W, t, k
<1>4. CASE UNCHANGED vars
  BY <1>4 DEF vars, IInv
<1> QED
  BY <1>1, <1>2, <1>3, <1>4 DEF Next

\* Whatever the scenario, every PeriodicSender sends at the first instant of
\* slots its device owns, for ever.
THEOREM SendersInSlots == Spec => []SendersKeepSlots
<1>1. IInv => SendersKeepSlots
  BY DEF IInv, SendersKeepSlots, Slotted!Owns, Slotted!SlotOf
<1> QED
  BY InvInit, InvStep, <1>1, PTL DEF Spec

-----------------------------------------------------------------------------
(* The abstract schedule *)

\* Whoever is busy is so in a slot of its own.
OwnSlots ==
  /\ Slotted!ValidPlan
  /\ now \in Nat
  /\ Busy \subseteq Devices
  /\ \A d \in Busy : Slotted!Owns(d, now)

\* A step of the abstract schedule, with whatever set of devices is busy.
LEMMA SlottedStep == OwnSlots /\ [Slotted!Next]_(Slotted!vars) => OwnSlots'
<1> SUFFICES ASSUME OwnSlots, [Slotted!Next]_(Slotted!vars) PROVE OwnSlots'
  OBVIOUS
<1> DEFINE busy == Busy
<1>1. /\ plan' = plan /\ Busy' \subseteq Devices /\ now' \in Nat
      /\ \A d \in Busy' : Slotted!Owns(d, now')
  <2>1. CASE Slotted!Tick
    BY <2>1 DEF Slotted!Tick, OwnSlots, Slotted!Owns, Slotted!SlotOf
  <2>2. ASSUME NEW d \in Devices, Slotted!Begin(d) \/ Slotted!End(d)
        PROVE  /\ plan' = plan /\ Busy' \subseteq Devices /\ now' \in Nat
               /\ \A e \in Busy' : Slotted!Owns(e, now')
    BY <2>2 DEF Slotted!Begin, Slotted!End, OwnSlots
  <2>3. CASE UNCHANGED Slotted!vars
    BY <2>3 DEF Slotted!vars, OwnSlots
  <2> QED
    BY <2>1, <2>2, <2>3 DEF Slotted!Next
<1> QED
  BY <1>1 DEF OwnSlots, Slotted!ValidPlan, Slotted!Meet, Slotted!Owns, Slotted!SlotOf

\* Devices that share a gateway are never busy together, however many devices,
\* gateways and slots there are and however long the slots.
THEOREM OneBusyPerGateway == Slotted!Spec => []Slotted!Exclusive
<1>1. Slotted!Init => OwnSlots
  BY DEF Slotted!Init, OwnSlots
<1>2. OwnSlots => Slotted!Exclusive
  <2> SUFFICES ASSUME OwnSlots, NEW d \in Busy, NEW e \in Busy, d # e, Slotted!Meet(d, e) PROVE FALSE
    BY DEF Slotted!Exclusive
  <2>1. plan.slot[d] # plan.slot[e] /\ plan.slot[d] \in Int /\ plan.slot[e] \in Int
    BY DEF OwnSlots, Slotted!ValidPlan
  <2>2. plan.slot[d] - 1 = plan.slot[e] - 1
    BY DEF OwnSlots, Slotted!Owns
  <2> QED
    BY <2>1, <2>2
<1> QED
  BY <1>1, <1>2, SlottedStep, PTL DEF Slotted!Spec

-----------------------------------------------------------------------------
(* The event lists of the devices. *)

SendHandlers == {"SwitchToStandby", "TxFinished"}
WindowHandlers == {"OpenFirstReceiveWindow", "CloseFirstReceiveWindow",
                   "OpenSecondReceiveWindow", "CloseSecondReceiveWindow"}
Closing == {"CloseFirstReceiveWindow", "CloseSecondReceiveWindow"}

PlannedHandlers == SendHandlers \cup WindowHandlers
PlannedEvent ==
  [fn : PlannedHandlers, due : Nat, held : BOOLEAN, arg : {None}]

Planned(fn, due) == [fn |-> fn, due |-> due, held |-> TRUE, arg |-> None]

\* A device has an event list of its own; what is done to it is the same.
LEMMA OwnLists ==
  ASSUME NEW d \in Devices
  PROVE  /\ \A q, fn, due, arg : Device(d)!Schedule(q, fn, due, arg) = Schedule(q, fn, due, arg)
         /\ \A q, i : Device(d)!Without(q, i) = Without(q, i)
         /\ \A q, fn : Device(d)!Cancel(q, fn) = Cancel(q, fn)
         /\ \A q, fn : Device(d)!Pending(q, fn) <=> Pending(q, fn)
         /\ \A q : Device(d)!Elapse(q) = Elapse(q)
         /\ \A q : Device(d)!Quiet(q) <=> Quiet(q)
<1>1. \A q, fn : Device(d)!Release(q, fn) = Release(q, fn)
  BY DEF Device!Release, Release
<1>2. \A q, fn, due, arg : Device(d)!Schedule(q, fn, due, arg) = Schedule(q, fn, due, arg)
  BY <1>1 DEF Device!Schedule, Schedule
<1>3. \A q, i : Device(d)!Without(q, i) = Without(q, i)
  BY DEF Device!Without, Without
<1>4. \A q, fn : Device(d)!Pending(q, fn) <=> Pending(q, fn)
  BY DEF Device!Pending, Pending
<1>5. \A q, fn : Device(d)!Cancel(q, fn) = Cancel(q, fn)
  BY <1>3, <1>4 DEF Device!Cancel, Cancel
<1>6. \A q : Device(d)!Elapse(q) = Elapse(q)
  BY DEF Device!Elapse, Elapse
<1>7. \A q : Device(d)!Quiet(q) <=> Quiet(q)
  BY DEF Device!Quiet, Quiet
<1> QED
  BY <1>2, <1>3, <1>4, <1>5, <1>6, <1>7

LEMMA ScheduleAppends ==
  ASSUME NEW q \in Seq(PlannedEvent), NEW fn \in PlannedHandlers,
         NEW due \in Nat
  PROVE  /\ Schedule(q, fn, due, None) \in Seq(PlannedEvent)
         /\ Len(Schedule(q, fn, due, None)) = Len(q) + 1
         /\ \A i \in 1..Len(q) :
              /\ Schedule(q, fn, due, None)[i].fn = q[i].fn
              /\ Schedule(q, fn, due, None)[i].due = q[i].due
         /\ Schedule(q, fn, due, None)[Len(q) + 1] = Planned(fn, due)
<1> DEFINE r == Release(q, fn)
           new == Planned(fn, due)
<1>1. /\ DOMAIN q = 1..Len(q) /\ Len(q) \in Nat
      /\ \A i \in 1..Len(q) : q[i] \in PlannedEvent
  BY LenProperties, ElementOfSeq
<1>2. \A i \in 1..Len(q) :
        /\ r[i] \in PlannedEvent
        /\ r[i].fn = q[i].fn
        /\ r[i].due = q[i].due
  BY <1>1 DEF Release, PlannedEvent
<1>3. r = [i \in 1..Len(q) |-> r[i]]
  BY <1>1 DEF Release
<1> HIDE DEF r
<1>4. r \in Seq(PlannedEvent) /\ Len(r) = Len(q)
  BY <1>1, <1>2, <1>3, IsASeq
<1>5. new \in PlannedEvent
  BY DEF PlannedEvent, Planned
<1>6. Schedule(q, fn, due, None) = Append(r, new)
  BY DEF Schedule, Planned, r
<1> HIDE DEF new
<1>7. /\ Append(r, new) \in Seq(PlannedEvent)
      /\ Len(Append(r, new)) = Len(q) + 1
      /\ \A i \in 1..Len(q) : Append(r, new)[i] = r[i]
      /\ Append(r, new)[Len(q) + 1] = new
  BY <1>4, <1>5, AppendProperties
<1> QED
  BY <1>2, <1>6, <1>7 DEF new

\* Taking an event out leaves the others.
LEMMA WithoutLeaves ==
  ASSUME NEW q \in Seq(PlannedEvent), NEW k \in 1..Len(q)
  PROVE  /\ Without(q, k) \in Seq(PlannedEvent)
         /\ Len(Without(q, k)) = Len(q) - 1
         /\ \A i \in 1..(Len(q) - 1) :
              Without(q, k)[i] = q[IF i < k THEN i ELSE i + 1]
<1> DEFINE front == SubSeq(q, 1, k - 1)
           back == SubSeq(q, k + 1, Len(q))
<1>1. Len(q) \in Nat /\ k \in Nat /\ 1 <= k /\ k <= Len(q)
  BY LenProperties
<1>2. /\ front \in Seq(PlannedEvent)
      /\ Len(front) = k - 1
      /\ \A i \in 1..(k - 1) : front[i] = q[i]
  BY <1>1, SubSeqProperties
<1>3. /\ back \in Seq(PlannedEvent)
      /\ Len(back) = Len(q) - k
      /\ \A i \in 1..(Len(q) - k) : back[i] = q[k + i]
  BY <1>1, SubSeqProperties
<1>4. Without(q, k) = front \o back
  BY DEF Without
<1> HIDE DEF front, back
<1>5. /\ front \o back \in Seq(PlannedEvent)
      /\ Len(front \o back) = Len(front) + Len(back)
      /\ \A i \in 1..(Len(front) + Len(back)) :
           (front \o back)[i] = IF i <= Len(front) THEN front[i] ELSE back[i - Len(front)]
  BY <1>2, <1>3, ConcatProperties
<1>6. ASSUME NEW i \in 1..(Len(q) - 1)
      PROVE  (front \o back)[i] = q[IF i < k THEN i ELSE i + 1]
  <2>1. (front \o back)[i] = IF i <= Len(front) THEN front[i] ELSE back[i - Len(front)]
    BY <1>1, <1>2, <1>3, <1>5
  <2>2. CASE i < k
    BY <1>1, <1>2, <2>1, <2>2
  <2>3. CASE ~ (i < k)
    <3>1. i - (k - 1) \in 1..(Len(q) - k) /\ k + (i - (k - 1)) = i + 1
      BY <1>1, <2>3
    <3> QED
      BY <1>1, <1>2, <1>3, <2>1, <2>3, <3>1
  <2> QED
    BY <2>2, <2>3
<1>7. Len(front \o back) = Len(q) - 1
  BY <1>1, <1>2, <1>3, <1>5
<1> QED
  BY <1>4, <1>5, <1>6, <1>7

LEMMA ElapseBringsCloser ==
  ASSUME NEW q \in Seq(PlannedEvent), Quiet(q)
  PROVE  /\ Elapse(q) \in Seq(PlannedEvent)
         /\ Len(Elapse(q)) = Len(q)
         /\ \A i \in 1..Len(q) :
              Elapse(q)[i].fn = q[i].fn /\ Elapse(q)[i].due = q[i].due - 1
<1>1. /\ DOMAIN q = 1..Len(q) /\ Len(q) \in Nat
      /\ \A i \in 1..Len(q) : q[i] \in PlannedEvent
  BY LenProperties, ElementOfSeq
<1>2. \A i \in 1..Len(q) :
        /\ Elapse(q)[i] \in PlannedEvent
        /\ Elapse(q)[i].fn = q[i].fn
        /\ Elapse(q)[i].due = q[i].due - 1
  BY <1>1 DEF Elapse, PlannedEvent, Quiet
<1>3. Elapse(q) = [i \in 1..Len(q) |-> Elapse(q)[i]]
  BY <1>1 DEF Elapse
<1> QED
  BY <1>1, <1>2, <1>3, IsASeq

-----------------------------------------------------------------------------
(* A device in its slot, t ticks after the beginning of it. *)

ReportsMade == [txs : {0}, ok : BOOLEAN, packet : {None}, made : BOOLEAN]

\* A device that sends unconfirmed packets: nothing is ever acknowledged,
\* repeated, overheard or aborted.
SlottedDevice ==
  [state : {"SLEEP", "STANDBY", "TX"}, events : Seq(PlannedEvent), waitingAck : {FALSE},
   retxLeft : {8}, packet : {None}, secondTs : Int, wait : [{Band} -> Nat],
   report : ReportsMade, onAir : Nat, aborted : {"no"}]

\* When the handlers of the windows run.
Instant(fn) ==
  CASE fn = "OpenFirstReceiveWindow"   -> AirTime + ReceiveDelay1
    [] fn = "CloseFirstReceiveWindow"  -> AirTime + ReceiveDelay1 + Window1
    [] fn = "OpenSecondReceiveWindow"  -> AirTime + ReceiveDelay2
    [] fn = "CloseSecondReceiveWindow" -> AirTime + ReceiveDelay2 + Window2

\* The packet is on air.
Sending(s, t) ==
  /\ s.state = "TX" /\ 0 <= t
  /\ Len(s.events) = 2
  /\ s.events[1].fn = "SwitchToStandby" /\ t + s.events[1].due = AirTime
  /\ s.events[2].fn = "TxFinished" /\ t + s.events[2].due = AirTime

\* Between the two events that end a transmission.
Sent(s, t) ==
  /\ s.state = "STANDBY" /\ t = AirTime
  /\ Len(s.events) = 1
  /\ s.events[1].fn = "TxFinished" /\ s.events[1].due = 0

\* What is left of the windows.
Remains(q, t) ==
  \A i \in 1..Len(q) : q[i].fn \in WindowHandlers /\ t + q[i].due = Instant(q[i].fn)

\* The packet has left, and what is left of the windows is to come; the radio
\* is on only while one of them is open.
Windows(s, t) ==
  /\ s.state # "TX" /\ AirTime <= t
  /\ Remains(s.events, t)
  /\ s.state = "STANDBY" => \E i \in 1..Len(s.events) : s.events[i].fn \in Closing

InSlot(s, t) ==
  /\ s \in SlottedDevice
  /\ Sending(s, t) \/ Sent(s, t) \/ Windows(s, t)

LEMMA PoppedDevice ==
  ASSUME NEW d \in Devices, eds[d] \in SlottedDevice, NEW i \in 1..Len(eds[d].events)
  PROVE  /\ Device(d)!Popped(i) \in SlottedDevice
         /\ Device(d)!Popped(i).events = Without(eds[d].events, i)
         /\ Device(d)!Popped(i).state = eds[d].state
         /\ Device(d)!Popped(i).wait = eds[d].wait
<1>1. Without(eds[d].events, i) \in Seq(PlannedEvent)
  BY WithoutLeaves DEF SlottedDevice
<1>2. Device(d)!NoReport \in ReportsMade
  BY DEF Device!NoReport, ReportsMade
<1>3. Device(d)!Popped(i) =
        [eds[d] EXCEPT !.events = Without(eds[d].events, i), !.report = Device(d)!NoReport]
  BY OwnLists DEF Device!Popped
<1> QED
  BY <1>1, <1>2, <1>3 DEF SlottedDevice

\* The names of the handlers.
LEMMA HandlersAre ==
  /\ "SwitchToStandby" \in PlannedHandlers
  /\ "TxFinished" \in PlannedHandlers
  /\ "OpenFirstReceiveWindow" \in PlannedHandlers
  /\ "CloseFirstReceiveWindow" \in PlannedHandlers
  /\ "OpenSecondReceiveWindow" \in PlannedHandlers
  /\ "CloseSecondReceiveWindow" \in PlannedHandlers
  /\ WindowHandlers \subseteq PlannedHandlers
  BY DEF PlannedHandlers, SendHandlers, WindowHandlers

\* Two events on an empty list.
TwoEvents(f, t, g, u) == Schedule(Schedule(<<>>, f, t, None), g, u, None)

LEMMA TwoScheduled ==
  ASSUME NEW f \in PlannedHandlers, NEW t \in Nat,
         NEW g \in PlannedHandlers, NEW u \in Nat
  PROVE  /\ TwoEvents(f, t, g, u) \in Seq(PlannedEvent)
         /\ Len(TwoEvents(f, t, g, u)) = 2
         /\ TwoEvents(f, t, g, u)[1].fn = f /\ TwoEvents(f, t, g, u)[1].due = t
         /\ TwoEvents(f, t, g, u)[2].fn = g /\ TwoEvents(f, t, g, u)[2].due = u
<1> DEFINE none == <<>>
           q1 == Schedule(none, f, t, None)
           q2 == Schedule(q1, g, u, None)
<1>1. none \in Seq(PlannedEvent) /\ Len(none) = 0
  BY EmptySeq
<1>2. TwoEvents(f, t, g, u) = q2
  BY DEF TwoEvents
<1> HIDE DEF none
<1>3. q1 \in Seq(PlannedEvent)
  BY <1>1, ScheduleAppends
<1>4. Len(q1) = Len(none) + 1 /\ q1[Len(none) + 1] = Planned(f, t)
  BY <1>1, ScheduleAppends
<1>5. Len(q1) = 1 /\ q1[1] = Planned(f, t)
  BY <1>1, <1>4
<1> HIDE DEF q1
<1>6. q2 \in Seq(PlannedEvent)
  BY <1>3, ScheduleAppends
<1>7. Len(q2) = Len(q1) + 1 /\ q2[Len(q1) + 1] = Planned(g, u)
  BY <1>3, ScheduleAppends
<1>8. \A i \in 1..Len(q1) : q2[i].fn = q1[i].fn /\ q2[i].due = q1[i].due
  BY <1>3, ScheduleAppends
<1> HIDE DEF q2
<1>9. /\ Len(q2) = 2 /\ q2[2] = Planned(g, u)
      /\ q2[1].fn = q1[1].fn /\ q2[1].due = q1[1].due
  BY <1>5, <1>7, <1>8
<1> QED
  BY <1>2, <1>5, <1>6, <1>9 DEF Planned

\* What a handler assigns keeps a device among the slotted ones.
LEMMA WithEvents ==
  ASSUME NEW s \in SlottedDevice, NEW q \in Seq(PlannedEvent)
  PROVE  /\ [s EXCEPT !.events = q] \in SlottedDevice
         /\ [s EXCEPT !.events = q].events = q
         /\ [s EXCEPT !.events = q].state = s.state
         /\ [s EXCEPT !.events = q].wait = s.wait
  BY DEF SlottedDevice

LEMMA WithState ==
  ASSUME NEW s \in SlottedDevice, NEW state \in {"SLEEP", "STANDBY", "TX"}
  PROVE  /\ [s EXCEPT !.state = state] \in SlottedDevice
         /\ [s EXCEPT !.state = state].state = state
         /\ [s EXCEPT !.state = state].events = s.events
         /\ [s EXCEPT !.state = state].wait = s.wait
  BY DEF SlottedDevice

LEMMA WithSecondTs ==
  ASSUME NEW s \in SlottedDevice, NEW n \in Int
  PROVE  /\ [s EXCEPT !.secondTs = n] \in SlottedDevice
         /\ [s EXCEPT !.secondTs = n].events = s.events
         /\ [s EXCEPT !.secondTs = n].state = s.state
         /\ [s EXCEPT !.secondTs = n].wait = s.wait
  BY DEF SlottedDevice

LEMMA TxFinishedOpens ==
  ASSUME NEW d \in Devices, NEW s \in SlottedDevice, s.state = "STANDBY", s.events = <<>>
  PROVE  /\ Windows(Device(d)!TxFinished(s), AirTime)
         /\ Device(d)!TxFinished(s) \in SlottedDevice
         /\ Device(d)!TxFinished(s).wait = s.wait
<1> DEFINE q == TwoEvents("OpenFirstReceiveWindow", ReceiveDelay1,
                          "OpenSecondReceiveWindow", ReceiveDelay2)
           v == [s EXCEPT !.events = q]
           u == [v EXCEPT !.secondTs = ReceiveDelay2]
           r == Device(d)!TxFinished(s)
<1>0. ReceiveDelay1 \in Nat /\ ReceiveDelay2 \in Nat /\ AirTime \in Nat
  BY ScheduleAssumption
<1>1. q \in Seq(PlannedEvent) /\ Len(q) = 2
  BY <1>0, TwoScheduled, HandlersAre
<1>2. /\ q[1].fn = "OpenFirstReceiveWindow" /\ q[1].due = ReceiveDelay1
      /\ q[2].fn = "OpenSecondReceiveWindow" /\ q[2].due = ReceiveDelay2
  BY <1>0, TwoScheduled, HandlersAre
<1>3. q = Device(d)!Schedule(
            Device(d)!Schedule(s.events, "OpenFirstReceiveWindow", ReceiveDelay1, None),
            "OpenSecondReceiveWindow", ReceiveDelay2, None)
  BY OwnLists DEF TwoEvents
<1>4. r = Device(d)!SwitchToSleep([s EXCEPT !.events = q, !.secondTs = ReceiveDelay2])
  BY <1>3 DEF Device!TxFinished
<1> HIDE DEF q, r
<1>5. [s EXCEPT !.events = q, !.secondTs = ReceiveDelay2] = u
  OBVIOUS
<1>6. v \in SlottedDevice /\ v.state = s.state /\ v.wait = s.wait /\ v.events = q
  BY <1>1, WithEvents
<1> HIDE DEF v
<1>7. u \in SlottedDevice /\ u.state = s.state /\ u.wait = s.wait /\ u.events = q
  BY <1>0, <1>6, WithSecondTs
<1> HIDE DEF u
<1>8. r = [u EXCEPT !.state = "SLEEP"]
  BY <1>4, <1>5, <1>7 DEF Device!SwitchToSleep
<1>9. r \in SlottedDevice /\ r.wait = s.wait /\ r.state = "SLEEP" /\ r.events = q
  BY <1>7, <1>8, WithState
<1>10. \A i \in 1..2 :
        q[i].fn \in WindowHandlers /\ AirTime + q[i].due = Instant(q[i].fn)
  <2>1. AirTime + ReceiveDelay1 = Instant("OpenFirstReceiveWindow")
    BY DEF Instant
  <2>2. AirTime + ReceiveDelay2 = Instant("OpenSecondReceiveWindow")
    BY DEF Instant
  <2>3. q[1].fn \in WindowHandlers /\ q[2].fn \in WindowHandlers
    BY <1>2 DEF WindowHandlers
  <2> QED
    BY <1>2, <2>1, <2>2, <2>3
<1>11. Windows(r, AirTime)
  <2>1. Len(r.events) = 2 /\ AirTime <= AirTime
    BY <1>0, <1>1, <1>9
  <2> QED
    BY <1>9, <1>10, <2>1 DEF Windows, Remains
<1> QED
  BY <1>9, <1>11 DEF r

\* A window opens: its end is scheduled.
LEMMA OpeningKeeps ==
  ASSUME NEW s \in SlottedDevice, NEW t \in Nat, AirTime <= t, Remains(s.events, t),
         NEW f \in Closing, NEW w \in Nat, t + w = Instant(f),
         NEW r, r = [[s EXCEPT !.state = "STANDBY"] EXCEPT !.events = Schedule(s.events, f, w, None)]
  PROVE  r \in SlottedDevice /\ r.wait = s.wait /\ r.state = "STANDBY" /\ Windows(r, t)
<1> DEFINE q == Schedule(s.events, f, w, None)
           v == [s EXCEPT !.state = "STANDBY"]
<1>1. f \in PlannedHandlers /\ f \in WindowHandlers
  BY DEF Closing, PlannedHandlers, WindowHandlers
<1>2. s.events \in Seq(PlannedEvent)
  BY DEF SlottedDevice
<1>3. Len(s.events) \in Nat
  BY <1>2, LenProperties
<1>4. q \in Seq(PlannedEvent)
  BY <1>1, <1>2, ScheduleAppends
<1>5. Len(q) = Len(s.events) + 1 /\ q[Len(s.events) + 1] = Planned(f, w)
  BY <1>1, <1>2, ScheduleAppends
<1>6. \A i \in 1..Len(s.events) : q[i].fn = s.events[i].fn /\ q[i].due = s.events[i].due
  BY <1>1, <1>2, ScheduleAppends
<1>7. r = [v EXCEPT !.events = q]
  OBVIOUS
<1> HIDE DEF q
<1>8. v \in SlottedDevice /\ v.state = "STANDBY" /\ v.wait = s.wait
  BY WithState
<1> HIDE DEF v
<1>9. r \in SlottedDevice /\ r.state = "STANDBY" /\ r.wait = s.wait /\ r.events = q
  <2> DEFINE u == [v EXCEPT !.events = q]
  <2>1. u \in SlottedDevice /\ u.events = q /\ u.state = v.state /\ u.wait = v.wait
    BY <1>4, <1>8, WithEvents
  <2> QED
    BY <1>7, <1>8, <2>1
<1>10. Remains(q, t)
  <2>1. \A i \in 1..Len(q) : i \in 1..Len(s.events) \/ i = Len(s.events) + 1
    BY <1>3, <1>5
  <2>2. ASSUME NEW i \in 1..Len(s.events)
        PROVE  q[i].fn \in WindowHandlers /\ t + q[i].due = Instant(q[i].fn)
    BY <1>6 DEF Remains
  <2>3. /\ q[Len(s.events) + 1].fn \in WindowHandlers
        /\ t + q[Len(s.events) + 1].due = Instant(q[Len(s.events) + 1].fn)
    BY <1>1, <1>5 DEF Planned
  <2> QED
    BY <2>1, <2>2, <2>3 DEF Remains
<1>11. \E i \in 1..Len(q) : q[i].fn \in Closing
  <2>1. q[Len(s.events) + 1].fn \in Closing
    BY <1>5 DEF Planned
  <2>2. Len(s.events) + 1 \in 1..Len(q)
    BY <1>3, <1>5
  <2> QED
    BY <2>1, <2>2
<1> QED
  BY <1>9, <1>10, <1>11 DEF Windows

LEMMA WindowOpens ==
  ASSUME NEW d \in Devices, NEW s \in SlottedDevice, NEW t \in Nat, AirTime <= t,
         Remains(s.events, t)
  PROVE  /\ t = Instant("OpenFirstReceiveWindow") =>
              LET r == Device(d)!OpenFirstReceiveWindow(s)
              IN  r \in SlottedDevice /\ r.wait = s.wait /\ r.state = "STANDBY" /\ Windows(r, t)
         /\ t = Instant("OpenSecondReceiveWindow") =>
              LET r == Device(d)!OpenSecondReceiveWindow(s)
              IN  r \in SlottedDevice /\ r.wait = s.wait /\ r.state = "STANDBY" /\ Windows(r, t)
<1>0. /\ ReceiveDelay1 \in Nat /\ ReceiveDelay2 \in Nat /\ AirTime \in Nat
      /\ Window1 \in Nat /\ Window2 \in Nat
  BY ScheduleAssumption
<1>1. /\ "CloseFirstReceiveWindow" \in Closing /\ "CloseSecondReceiveWindow" \in Closing
      /\ Instant("CloseFirstReceiveWindow") = Instant("OpenFirstReceiveWindow") + Window1
      /\ Instant("CloseSecondReceiveWindow") = Instant("OpenSecondReceiveWindow") + Window2
  BY <1>0 DEF Closing, Instant
<1> DEFINE v == [s EXCEPT !.state = "STANDBY"]
<1>2. Device(d)!SwitchToStandby(s) = v /\ v.events = s.events /\ s.state # "RX"
  BY DEF Device!SwitchToStandby, SlottedDevice
<1> HIDE DEF v
<1>3. Device(d)!OpenFirstReceiveWindow(s) =
        [v EXCEPT !.events = Schedule(s.events, "CloseFirstReceiveWindow", Window1, None)]
  BY <1>2, OwnLists DEF Device!OpenFirstReceiveWindow
<1>4. Device(d)!OpenSecondReceiveWindow(s) =
        [v EXCEPT !.events = Schedule(s.events, "CloseSecondReceiveWindow", Window2, None)]
  BY <1>2, OwnLists DEF Device!OpenSecondReceiveWindow
<1>5. ASSUME t = Instant("OpenFirstReceiveWindow")
      PROVE  LET r == Device(d)!OpenFirstReceiveWindow(s)
             IN  r \in SlottedDevice /\ r.wait = s.wait /\ r.state = "STANDBY" /\ Windows(r, t)
  <2>1. t + Window1 = Instant("CloseFirstReceiveWindow")
    BY <1>1, <1>5
  <2> QED
    BY <1>0, <1>1, <1>3, <2>1, OpeningKeeps DEF v
<1>6. ASSUME t = Instant("OpenSecondReceiveWindow")
      PROVE  LET r == Device(d)!OpenSecondReceiveWindow(s)
             IN  r \in SlottedDevice /\ r.wait = s.wait /\ r.state = "STANDBY" /\ Windows(r, t)
  <2>1. t + Window2 = Instant("CloseSecondReceiveWindow")
    BY <1>1, <1>6
  <2> QED
    BY <1>0, <1>1, <1>4, <2>1, OpeningKeeps DEF v
<1> QED
  BY <1>5, <1>6

\* A window closes, with nothing heard.
LEMMA FirstCloses ==
  ASSUME NEW d \in Devices, NEW s \in SlottedDevice, NEW t \in Nat, AirTime <= t,
         Remains(s.events, t), s.state # "TX"
  PROVE  LET r == Device(d)!CloseFirstReceiveWindow(s)
         IN  r \in SlottedDevice /\ r.wait = s.wait /\ r.state = "SLEEP" /\ Windows(r, t)
<1> DEFINE r == Device(d)!CloseFirstReceiveWindow(s)
<1>1. s.state \in {"SLEEP", "STANDBY"}
  BY DEF SlottedDevice
<1>2. r \in SlottedDevice /\ r.state = "SLEEP" /\ r.events = s.events /\ r.wait = s.wait
  <2>1. CASE s.state = "STANDBY"
    <3>1. r = [s EXCEPT !.state = "SLEEP"]
      BY <2>1 DEF Device!CloseFirstReceiveWindow, Device!SwitchToSleep
    <3>2. "SLEEP" \in {"SLEEP", "STANDBY", "TX"}
      OBVIOUS
    <3> HIDE DEF r
    <3> QED
      BY ONLY s \in SlottedDevice, <3>1, <3>2, WithState, Zenon
  <2>2. CASE s.state = "SLEEP"
    <3>1. r = s
      BY <2>2 DEF Device!CloseFirstReceiveWindow
    <3> QED
      BY <2>2, <3>1
  <2> QED
    BY <1>1, <2>1, <2>2
<1> HIDE DEF r
<1>3. Windows(r, t)
  BY <1>2 DEF Windows
<1> QED
  BY <1>2, <1>3 DEF r

LEMMA SecondCloses ==
  ASSUME NEW d \in Devices, NEW s \in SlottedDevice, NEW t \in Nat, AirTime <= t,
         Remains(s.events, t), s.state # "TX",
         NEW r \in Device(d)!CloseSecondReceiveWindow(s)
  PROVE  r \in SlottedDevice /\ r.wait = s.wait /\ r.state = "SLEEP" /\ Windows(r, t)
<1> DEFINE closed == IF s.state = "STANDBY" THEN Device(d)!SwitchToSleep(s) ELSE s
           told == Device(d)!Report(closed, TRUE)
<1>1. s.state \in {"SLEEP", "STANDBY"} /\ s.waitingAck = FALSE
  BY DEF SlottedDevice
<1>2. /\ closed \in SlottedDevice /\ closed.state = "SLEEP"
      /\ closed.events = s.events /\ closed.wait = s.wait
  <2>1. CASE s.state = "STANDBY"
    <3>1. closed = [s EXCEPT !.state = "SLEEP"]
      BY <2>1 DEF Device!SwitchToSleep
    <3> QED
      BY <3>1, WithState
  <2>2. CASE s.state = "SLEEP"
    BY <2>2
  <2> QED
    BY <1>1, <2>1, <2>2
<1>3. r = Device(d)!resetRetransmissionParameters(told)
  BY <1>1 DEF Device!CloseSecondReceiveWindow
<1> HIDE DEF closed
<1>4. /\ told \in SlottedDevice /\ told.state = "SLEEP"
      /\ told.events = s.events /\ told.wait = s.wait
  <2> DEFINE made == [txs |-> (8 - closed.retxLeft) % 256, ok |-> TRUE,
                      packet |-> closed.packet, made |-> TRUE]
  <2>1. closed.retxLeft = 8 /\ closed.packet = None
    BY <1>2 DEF SlottedDevice
  <2>2. made \in ReportsMade
    BY <2>1 DEF ReportsMade
  <2>3. told = [closed EXCEPT !.report = made]
    BY DEF Device!Report
  <2> HIDE DEF made, told
  <2> QED
    BY <1>2, <2>2, <2>3 DEF SlottedDevice
<1> HIDE DEF told
<1>5. ~Pending(s.events, "DoSend")
  <2>1. \A i \in DOMAIN s.events : i \in 1..Len(s.events)
    BY DEF SlottedDevice
  <2>2. "DoSend" \notin WindowHandlers
    BY DEF WindowHandlers
  <2> QED
    BY <2>1, <2>2 DEF Pending, Remains
<1>6. Device(d)!Cancel(told.events, "DoSend") = told.events
  BY <1>4, <1>5, OwnLists DEF Cancel
<1>7. r = [told EXCEPT !.waitingAck = FALSE, !.retxLeft = 8, !.packet = None,
                       !.events = told.events]
  BY <1>3, <1>6 DEF Device!resetRetransmissionParameters
<1>8. r = told
  BY <1>4, <1>7 DEF SlottedDevice
<1>9. Windows(r, t)
  BY <1>4, <1>8 DEF Windows
<1> QED
  BY <1>4, <1>8, <1>9

LEMMA NothingAssigned ==
  ASSUME NEW s \in SlottedDevice
  PROVE  [s EXCEPT !.waitingAck = FALSE, !.retxLeft = 8, !.packet = None,
                   !.events = s.events] = s
<1>1. s.waitingAck = FALSE /\ s.retxLeft = 8 /\ s.packet = None
  BY DEF SlottedDevice
<1> QED
  BY <1>1 DEF SlottedDevice

\* The first instant of a slot: an idle device with an open sub-band sends.
LEMMA SendStarts ==
  ASSUME NEW d \in Devices, NEW s \in SlottedDevice, s.state = "SLEEP", s.events = <<>>,
         s.wait[Band] = 0, NEW p \in Nat, NEW r \in Device(d)!Send(s, p)
  PROVE  /\ r \in SlottedDevice /\ Sending(r, 0)
         /\ r.wait[Band] = (AirTime * DutyDiv) - AirTime
<1> DEFINE q == TwoEvents("SwitchToStandby", AirTime, "TxFinished", AirTime)
           off == (AirTime * DutyDiv) - AirTime
           reset == Device(d)!resetRetransmissionParameters(s)
           new == [reset EXCEPT !.onAir = 0]
           sent == Device(d)!PhySend(new, AirTime)
<1>0. AirTime \in Nat /\ DutyDiv \in Nat \ {0} /\ None \notin Nat /\ off \in Nat
  BY ScheduleAssumption
<1>1. s.waitingAck = FALSE /\ s.retxLeft = 8 /\ s.packet = None /\ s.wait \in [{Band} -> Nat]
  BY DEF SlottedDevice
<1>2. Device(d)!DutyCycleDelay(s) = 0
  <2>1. {s.wait[b] : b \in {Band}} = {0}
    OBVIOUS
  <2>2. \A w \in {0} : (\A b \in {Band} : w <= s.wait[b]) <=> w = 0
    OBVIOUS
  <2>3. (CHOOSE w \in {0} : \A b \in {Band} : w <= s.wait[b]) = 0
    BY <2>2
  <2> QED
    BY <2>1, <2>3 DEF Device!DutyCycleDelay
<1>3. \A fn : ~Device(d)!Pending(s.events, fn)
  BY OwnLists DEF Pending
<1>4. Device(d)!GetNextTransmissionDelay(s) = {0}
  BY <1>1, <1>2, <1>3 DEF Device!GetNextTransmissionDelay, Device!WindowsPending
<1>5. Device(d)!Send(s, p) = Device(d)!SendWithDelay(s, p, 0)
  BY <1>4 DEF Device!Send, Device!TooLarge
<1>6. Device(d)!SendWithDelay(s, p, 0) = Device(d)!DoSend(s, p)
  BY <1>1 DEF Device!SendWithDelay
<1>7. Device(d)!DoSend(s, p) = Device(d)!SendToPhy(new)
  BY <1>0, <1>1 DEF Device!DoSend
<1>8. reset = s
  <2>1. Device(d)!Cancel(s.events, "DoSend") = s.events
    BY <1>3, OwnLists DEF Cancel
  <2>2. reset = [s EXCEPT !.waitingAck = FALSE, !.retxLeft = 8, !.packet = None,
                          !.events = s.events]
    BY <2>1 DEF Device!resetRetransmissionParameters
  <2> QED
    BY <2>2, <1>1, NothingAssigned
<1> HIDE DEF reset
<1>9. /\ new \in SlottedDevice /\ new.state = "SLEEP" /\ new.events = <<>>
      /\ new.wait = s.wait /\ new.onAir = 0
  BY <1>8 DEF SlottedDevice
<1> HIDE DEF new
<1>10. Device(d)!FreeSubBands(new) = {Band}
  BY <1>9 DEF Device!FreeSubBands
<1>11. Device(d)!OffTime(Band, AirTime) = off
  BY DEF Device!OffTime
<1> HIDE DEF off
<1>12. r = [sent EXCEPT !.wait[Band] = off]
  BY <1>5, <1>6, <1>7, <1>10, <1>11 DEF Device!SendToPhy
<1>13. /\ q \in Seq(PlannedEvent) /\ Len(q) = 2
       /\ q[1].fn = "SwitchToStandby" /\ q[1].due = AirTime
       /\ q[2].fn = "TxFinished" /\ q[2].due = AirTime
  <2>1. AirTime \in Nat
    BY <1>0
  <2>2. "SwitchToStandby" \in PlannedHandlers /\ "TxFinished" \in PlannedHandlers
    BY HandlersAre
  <2> QED
    BY ONLY <2>1, <2>2, TwoScheduled
<1>15. q = Device(d)!Schedule(
             Device(d)!Schedule(new.events, "SwitchToStandby", AirTime, None),
             "TxFinished", AirTime, None)
  BY <1>9, OwnLists DEF TwoEvents
<1> HIDE DEF q
<1>16. sent = [new EXCEPT !.state = "TX", !.onAir = new.onAir + 1, !.events = q]
  BY <1>9, <1>15 DEF Device!PhySend
<1> HIDE DEF sent
<1> DEFINE u == [new EXCEPT !.state = "TX"]
           v == [u EXCEPT !.onAir = 1]
<1>17. u \in SlottedDevice /\ u.state = "TX" /\ u.wait = s.wait
  BY <1>9, WithState
<1>18. sent = [v EXCEPT !.events = q]
  BY <1>9, <1>16
<1> HIDE DEF u
<1>19. v \in SlottedDevice /\ v.state = "TX" /\ v.wait = s.wait
  BY <1>17 DEF SlottedDevice
<1> HIDE DEF v
<1>20. sent \in SlottedDevice /\ sent.state = "TX" /\ sent.wait = s.wait /\ sent.events = q
  BY <1>13, <1>18, <1>19, WithEvents
<1>21. /\ r \in SlottedDevice /\ r.state = "TX" /\ r.events = q
       /\ r.wait = [s.wait EXCEPT ![Band] = off]
  <2> DEFINE w == [s.wait EXCEPT ![Band] = off]
  <2>1. w \in [{Band} -> Nat]
    BY <1>0, <1>1
  <2>2. r = [sent EXCEPT !.wait = w]
    BY <1>12, <1>20
  <2> HIDE DEF w
  <2>3. r \in SlottedDevice /\ r.state = "TX" /\ r.events = q /\ r.wait = w
    BY <1>20, <2>1, <2>2 DEF SlottedDevice
  <2> QED
    BY <2>3 DEF w
<1>22. r.wait[Band] = off
  BY <1>1, <1>21
<1>23. Sending(r, 0)
  BY <1>0, <1>13, <1>21 DEF Sending
<1> QED
  BY <1>21, <1>22, <1>23 DEF off

\* An event of the device keeps it in its slot, and puts nothing on air.
LEMMA EventKeepsSlot ==
  ASSUME NEW d \in Devices, NEW t \in Int, InSlot(eds[d], t),
         NEW i \in DOMAIN eds[d].events, IsNext(eds[d].events, i), NEW s \in After(d, i)
  PROVE  /\ InSlot(s, t) /\ s.wait = eds[d].wait /\ s.state # "TX"
         /\ eds[d].events[i].fn = "TxFinished" => t = AirTime
<1> DEFINE q == eds[d].events
           fn == q[i].fn
           u == Device(d)!Popped(i)
<1>0. AirTime \in Nat
  BY ScheduleAssumption
<1>1. eds[d] \in SlottedDevice
  BY DEF InSlot
<1>2. /\ q \in Seq(PlannedEvent) /\ DOMAIN q = 1..Len(q) /\ Len(q) \in Nat
      /\ i \in 1..Len(q)
  <2>1. q \in Seq(PlannedEvent)
    BY <1>1 DEF SlottedDevice
  <2> HIDE DEF q
  <2> QED
    BY <2>1, LenProperties DEF q
<1>3. \A j \in 1..Len(q) : q[j].due \in Nat
  <2> HIDE DEF q
  <2>1. \A j \in 1..Len(q) : q[j] \in PlannedEvent
    BY <1>2, ElementOfSeq
  <2> QED
    BY <2>1 DEF PlannedEvent
<1>4. q[i].due = 0 /\ \A j \in 1..Len(q) : j < i => q[j].due # 0
  BY <1>2 DEF IsNext
<1>5. /\ u \in SlottedDevice /\ u.events = Without(q, i)
      /\ u.state = eds[d].state /\ u.wait = eds[d].wait
  BY <1>1, <1>2, PoppedDevice
<1>6. Without(q, i) \in Seq(PlannedEvent) /\ Len(Without(q, i)) = Len(q) - 1
  BY <1>2, WithoutLeaves
<1>7. \A j \in 1..(Len(q) - 1) : Without(q, i)[j] = q[IF j < i THEN j ELSE j + 1]
  BY <1>2, WithoutLeaves
<1>8. eds[d].state = u.state /\ eds[d].events = q
  BY <1>5
<1> HIDE DEF q, u
<1>9. CASE Sending(eds[d], t)
  <2>1. /\ Len(q) = 2 /\ q[1].fn = "SwitchToStandby" /\ q[2].fn = "TxFinished"
        /\ t + q[1].due = AirTime /\ t + q[2].due = AirTime
    BY <1>9 DEF Sending, q
  <2>2. i = 1 /\ t = AirTime /\ q[2].due = 0
    <3>1. i = 1 \/ i = 2
      BY <1>2, <2>1
    <3>2. q[1].due = 0
      BY <1>2, <1>3, <1>4, <2>1, <3>1
    <3> QED
      BY <1>0, <1>2, <1>3, <1>4, <2>1, <3>1, <3>2
  <2>3. s = Device(d)!SwitchToStandby(u)
    BY <2>1, <2>2 DEF After, q, u
  <2>4. s = [u EXCEPT !.state = "STANDBY"]
    BY <2>3 DEF Device!SwitchToStandby
  <2>5. /\ s \in SlottedDevice /\ s.state = "STANDBY"
        /\ s.events = u.events /\ s.wait = u.wait
    BY <1>5, <2>4, WithState
  <2>6. Len(u.events) = 1 /\ u.events[1] = q[2]
    BY <1>5, <1>6, <1>7, <2>1, <2>2
  <2>7. Sent(s, t)
    BY <2>1, <2>2, <2>5, <2>6 DEF Sent
  <2>8. fn # "TxFinished"
    BY <2>1, <2>2
  <2> QED
    BY <1>5, <2>5, <2>7, <2>8 DEF InSlot, q
<1>10. CASE Sent(eds[d], t)
  <2>1. Len(q) = 1 /\ q[1].fn = "TxFinished" /\ t = AirTime /\ u.state = "STANDBY"
    BY <1>8, <1>10 DEF Sent
  <2>2. i = 1
    BY <1>2, <2>1
  <2>3. s = Device(d)!TxFinished(u)
    BY <2>1, <2>2 DEF After, q, u
  <2>4. u.events = <<>>
    BY <1>5, <1>6, <2>1, EmptySeq
  <2>5. s \in SlottedDevice /\ s.wait = u.wait /\ Windows(s, t)
    BY <1>5, <2>1, <2>3, <2>4, TxFinishedOpens
  <2> QED
    BY <1>5, <2>1, <2>5 DEF InSlot, Windows
<1>11. CASE Windows(eds[d], t)
  <2>1. u.state # "TX" /\ AirTime <= t /\ Remains(q, t)
    BY <1>8, <1>11 DEF Windows
  <2>2. t \in Nat
    BY <1>0, <2>1
  <2>3. Remains(u.events, t)
    <3>1. ASSUME NEW j \in 1..(Len(q) - 1) PROVE \E k \in 1..Len(q) : u.events[j] = q[k]
      BY <1>2, <1>5, <1>7
    <3> QED
      BY <1>5, <1>6, <2>1, <3>1 DEF Remains
  <2>4. fn \in WindowHandlers /\ t = Instant(fn)
    <3>1. fn \in WindowHandlers /\ t + q[i].due = Instant(fn)
      BY <1>2, <2>1 DEF Remains
    <3> QED
      BY <1>4, <2>2, <3>1
  <2>5. eds[d].events[i].fn = fn
    BY DEF q
  <2> HIDE DEF fn
  <2>6. CASE fn = "OpenFirstReceiveWindow"
    <3>1. s = Device(d)!OpenFirstReceiveWindow(u)
      BY <2>5, <2>6 DEF After, u
    <3>2. t = Instant("OpenFirstReceiveWindow")
      BY <2>4, <2>6
    <3>3. s \in SlottedDevice /\ s.wait = u.wait /\ s.state = "STANDBY" /\ Windows(s, t)
      BY <1>5, <2>1, <2>2, <2>3, <3>1, <3>2, WindowOpens
    <3> QED
      BY <1>5, <2>5, <2>6, <3>3 DEF InSlot
  <2>7. CASE fn = "OpenSecondReceiveWindow"
    <3>1. s = Device(d)!OpenSecondReceiveWindow(u)
      BY <2>5, <2>7 DEF After, u
    <3>2. t = Instant("OpenSecondReceiveWindow")
      BY <2>4, <2>7
    <3>3. s \in SlottedDevice /\ s.wait = u.wait /\ s.state = "STANDBY" /\ Windows(s, t)
      BY <1>5, <2>1, <2>2, <2>3, <3>1, <3>2, WindowOpens
    <3> QED
      BY <1>5, <2>5, <2>7, <3>3 DEF InSlot
  <2>8. CASE fn = "CloseFirstReceiveWindow"
    <3>1. s = Device(d)!CloseFirstReceiveWindow(u)
      BY <2>5, <2>8 DEF After, u
    <3>2. s \in SlottedDevice /\ s.wait = u.wait /\ s.state = "SLEEP" /\ Windows(s, t)
      BY <1>5, <2>1, <2>2, <2>3, <3>1, FirstCloses
    <3> QED
      BY <1>5, <2>5, <2>8, <3>2 DEF InSlot
  <2>9. CASE fn = "CloseSecondReceiveWindow"
    <3>1. s \in Device(d)!CloseSecondReceiveWindow(u)
      BY <2>5, <2>9 DEF After, u
    <3>2. s \in SlottedDevice /\ s.wait = u.wait /\ s.state = "SLEEP" /\ Windows(s, t)
      BY <1>5, <2>1, <2>2, <2>3, <3>1, SecondCloses
    <3> QED
      BY <1>5, <2>5, <2>9, <3>2 DEF InSlot
  <2> QED
    BY <2>4, <2>6, <2>7, <2>8, <2>9 DEF WindowHandlers
<1> QED
  BY <1>9, <1>10, <1>11 DEF InSlot

\* A device is busy in the radio or in its event list.
Engaged(s) == s.state # "SLEEP" \/ s.events # <<>>

\* What the scenario has to provide for: no packet is longer on air than the table
\* says, the duty cycle is less than the whole time, and the packet and both
\* windows are over before the slot is.
PacketFits ==
  /\ AirTime <= TableAirTime /\ DutyDiv > 1
  /\ AirTime + ReceiveDelay1 + Window1 < SlotLength
  /\ AirTime + ReceiveDelay2 + Window2 < SlotLength

\* A device is done before its slot is over, whatever is due, and is not done
\* in the last instant of the slot.
LEMMA EngagedInSlot ==
  ASSUME PacketFits, NEW s, NEW t \in Int, InSlot(s, t), Engaged(s)
  PROVE  0 <= t /\ t < SlotLength /\ (Quiet(s.events) => t + 1 < SlotLength)
<1>0. /\ AirTime \in Nat \ {0} /\ ReceiveDelay1 \in Nat /\ ReceiveDelay2 \in Nat
      /\ Window1 \in Nat /\ Window2 \in Nat /\ SlotLength \in Nat
  BY ScheduleAssumption, SlotLengthType
<1> DEFINE q == s.events
<1>1. s \in SlottedDevice /\ q \in Seq(PlannedEvent) /\ DOMAIN q = 1..Len(q) /\ Len(q) \in Nat
  <2>1. s \in SlottedDevice /\ q \in Seq(PlannedEvent)
    BY DEF InSlot, SlottedDevice
  <2> HIDE DEF q
  <2> QED
    BY <2>1, LenProperties
<1>2. \A j \in 1..Len(q) : q[j].due \in Nat /\ (Quiet(q) => q[j].due > 0)
  <2> HIDE DEF q
  <2>1. \A j \in 1..Len(q) : q[j] \in PlannedEvent
    BY <1>1, ElementOfSeq
  <2>2. \A j \in 1..Len(q) : q[j].due \in Nat
    BY <2>1 DEF PlannedEvent
  <2>3. Quiet(q) => \A j \in 1..Len(q) : q[j].due > 0
    BY <1>1 DEF Quiet
  <2> QED
    BY <2>2, <2>3
<1>3. \A fn \in WindowHandlers : Instant(fn) \in Nat /\ Instant(fn) < SlotLength
  BY <1>0 DEF WindowHandlers, Instant, PacketFits
<1>4. AirTime < SlotLength
  BY <1>0 DEF PacketFits
<1>5. CASE Sending(s, t)
  <2>1. 1 \in 1..Len(q) /\ 0 <= t /\ t + q[1].due = AirTime
    BY <1>5 DEF Sending
  <2> QED
    BY <1>0, <1>2, <1>4, <2>1
<1>6. CASE Sent(s, t)
  <2>1. 1 \in 1..Len(q) /\ t = AirTime /\ q[1].due = 0
    BY <1>6 DEF Sent
  <2> QED
    BY <1>0, <1>2, <1>4, <2>1
<1>7. CASE Windows(s, t)
  <2>1. AirTime <= t /\ Remains(q, t)
    BY <1>7 DEF Windows
  <2>2. Len(q) # 0
    <3>1. CASE s.state = "STANDBY"
      BY <1>1, <1>7, <3>1 DEF Windows
    <3>2. CASE s.state = "SLEEP"
      BY <1>1, <3>2, EmptySeq DEF Engaged
    <3> QED
      BY <1>1, <1>7, <3>1, <3>2 DEF Windows, SlottedDevice
  <2>3. 1 \in 1..Len(q)
    BY <1>1, <2>2
  <2>4. q[1].fn \in WindowHandlers /\ t + q[1].due = Instant(q[1].fn)
    BY <2>1, <2>3 DEF Remains
  <2> QED
    BY <1>0, <1>2, <1>3, <2>1, <2>3, <2>4
<1> QED
  BY <1>5, <1>6, <1>7 DEF InSlot

\* A tick of the clock.
LEMMA TickKeepsSlot ==
  ASSUME NEW d \in Devices, NEW s, NEW t \in Int, InSlot(s, t), Quiet(s.events),
         NEW r, r = Device(d)!OneTickLater(s)
  PROVE  /\ InSlot(r, t + 1) /\ (Engaged(r) <=> Engaged(s))
         /\ r.state = s.state
         /\ r.wait[Band] = IF s.wait[Band] = 0 THEN 0 ELSE s.wait[Band] - 1
<1> DEFINE q == Elapse(s.events)
           w == [b \in {Band} |-> Device(d)!Later(s.wait[b] - 1, 0)]
           m == Device(d)!Later(s.secondTs - 1, 0 - Window2)
           n == Device(d)!NoReport
<1>0. AirTime \in Nat /\ Window2 \in Nat
  BY ScheduleAssumption
<1>1. /\ s \in SlottedDevice /\ s.events \in Seq(PlannedEvent)
      /\ s.wait \in [{Band} -> Nat] /\ s.secondTs \in Int /\ Len(s.events) \in Nat
  BY LenProperties DEF InSlot, SlottedDevice
<1>2. q \in Seq(PlannedEvent) /\ Len(q) = Len(s.events)
  BY <1>1, ElapseBringsCloser
<1>3. \A i \in 1..Len(s.events) : q[i].fn = s.events[i].fn /\ q[i].due = s.events[i].due - 1
  BY <1>1, ElapseBringsCloser
<1>4. /\ w \in [{Band} -> Nat]
      /\ w[Band] = IF s.wait[Band] = 0 THEN 0 ELSE s.wait[Band] - 1
  BY <1>1 DEF Device!Later
<1>5. m \in Int
  BY <1>0, <1>1 DEF Device!Later
<1>6. n \in ReportsMade
  BY DEF Device!NoReport, ReportsMade
<1>7. r = [s EXCEPT !.report = n, !.events = q, !.wait = w, !.secondTs = m]
  BY OwnLists DEF Device!OneTickLater
<1> HIDE DEF q, w, m, n
<1>8. r \in SlottedDevice /\ r.events = q /\ r.state = s.state /\ r.wait = w
  <2> DEFINE a == [s EXCEPT !.report = n]
             b == [a EXCEPT !.events = q]
             c == [b EXCEPT !.wait = w]
  <2>1. a \in SlottedDevice /\ a.state = s.state
    BY <1>1, <1>6 DEF SlottedDevice
  <2>2. r = [c EXCEPT !.secondTs = m]
    BY <1>7
  <2> HIDE DEF a
  <2>3. b \in SlottedDevice /\ b.state = s.state /\ b.events = q
    BY <1>2, <2>1, WithEvents
  <2> HIDE DEF b
  <2>4. c \in SlottedDevice /\ c.state = s.state /\ c.events = q /\ c.wait = w
    BY <1>4, <2>3 DEF SlottedDevice
  <2> HIDE DEF c
  <2> QED
    BY <1>5, <2>2, <2>4, WithSecondTs
<1>9. \A i \in 1..Len(s.events) : s.events[i].due \in Nat /\ s.events[i].due > 0
  <2>1. \A i \in 1..Len(s.events) : s.events[i] \in PlannedEvent
    BY <1>1, ElementOfSeq
  <2>2. DOMAIN s.events = 1..Len(s.events)
    BY <1>1, LenProperties
  <2> QED
    BY <2>1, <2>2 DEF PlannedEvent, Quiet
<1>10. CASE Sending(s, t)
  <2>1. 1 \in 1..Len(s.events) /\ 2 \in 1..Len(s.events)
    BY <1>10 DEF Sending
  <2>2. Sending(r, t + 1)
    <3>1. /\ s.state = "TX" /\ 0 <= t /\ Len(s.events) = 2
          /\ s.events[1].fn = "SwitchToStandby" /\ t + s.events[1].due = AirTime
          /\ s.events[2].fn = "TxFinished" /\ t + s.events[2].due = AirTime
      BY <1>10 DEF Sending
    <3>2. /\ q[1].fn = s.events[1].fn /\ q[1].due = s.events[1].due - 1
          /\ q[2].fn = s.events[2].fn /\ q[2].due = s.events[2].due - 1
      BY <1>3, <2>1
    <3>3. s.events[1].due \in Nat /\ s.events[2].due \in Nat
      BY <1>9, <2>1
    <3>4. 0 <= t + 1 /\ (t + 1) + q[1].due = AirTime /\ (t + 1) + q[2].due = AirTime
      BY <1>0, <3>1, <3>2, <3>3
    <3> QED
      BY <1>2, <1>8, <3>1, <3>2, <3>4 DEF Sending
  <2> QED
    BY <1>4, <1>8, <1>10, <2>2 DEF InSlot, Engaged, Sending
<1>11. CASE Sent(s, t)
  <2>1. 1 \in 1..Len(s.events) /\ s.events[1].due = 0
    BY <1>11 DEF Sent
  <2> QED
    BY <1>9, <2>1
<1>12. CASE Windows(s, t)
  <2>1. Remains(q, t + 1)
    <3>1. ASSUME NEW i \in 1..Len(s.events)
          PROVE  q[i].fn \in WindowHandlers /\ (t + 1) + q[i].due = Instant(q[i].fn)
      <4>1. s.events[i].fn \in WindowHandlers /\ t + s.events[i].due = Instant(s.events[i].fn)
        BY <1>12 DEF Windows, Remains
      <4> QED
        BY <1>3, <1>9, <4>1
    <3> QED
      BY <1>2, <3>1 DEF Remains
  <2>2. s.state = "STANDBY" => \E i \in 1..Len(q) : q[i].fn \in Closing
    BY <1>2, <1>3, <1>12 DEF Windows
  <2>3. Windows(r, t + 1)
    BY <1>0, <1>8, <1>12, <2>1, <2>2 DEF Windows
  <2>4. q = <<>> <=> s.events = <<>>
    BY <1>1, <1>2, EmptySeq
  <2> QED
    BY <1>4, <1>8, <2>3, <2>4 DEF InSlot, Engaged
<1> QED
  BY <1>10, <1>11, <1>12 DEF InSlot

-----------------------------------------------------------------------------
(* All devices of the schedule. *)

\* The instant at which task number k of device d begins.
StartOf(p, d, k) == ((p.window * k) - (p.window - p.slot[d]) - 1) * p.length

Traces == [task : Nat, theoretical : Int, actual : Int]

\* The next packet of device d is the one of its next slot, which is still to
\* come; meanwhile the device is in its slot or idle, and its sub-band is open
\* again when that packet is due.
OnSchedule(d) ==
  /\ app[d] = StartOf(plan, d, tasks[d] + 1) /\ now <= app[d]
  /\ InSlot(eds[d], now - StartOf(plan, d, tasks[d]))
  /\ eds[d].wait[Band] = 0 \/ now + eds[d].wait[Band] <= app[d]

OnTime ==
  /\ IInv
  /\ Slotted!ValidPlan /\ plan.length = SlotLength
  /\ AirTime * DutyDiv <= plan.length * plan.window
  /\ tasks \in [Devices -> Nat]
  /\ starts \in [Devices -> Traces] /\ finishes \in [Devices -> Traces]
  /\ \A d \in Devices : OnSchedule(d)
  /\ TracedOnTime

LEMMA StartsOfSlots ==
  ASSUME IInv, NEW d \in Devices, NEW k \in Nat
  PROVE  /\ StartOf(plan, d, k) \in Int
         /\ TheoreticalStart(d, k) = StartOf(plan, d, k)
         /\ DeadlineFinish(d, k) = StartOf(plan, d, k) + plan.length
         /\ StartOf(plan, d, k + 1) = StartOf(plan, d, k) + Interval
         /\ \E m \in Int : StartOf(plan, d, k) = plan.length * m
         /\ plan.length <= Interval
<1> DEFINE W == plan.window
           L == plan.length
           n == plan.slot[d]
           m == (W * k) - (W - n) - 1
<1>1. W \in Nat \ {0} /\ L \in Nat \ {0} /\ n \in 1..W
  BY DEF IInv
<1>2. /\ StartOf(plan, d, k) = m * L
      /\ StartOf(plan, d, k + 1) = ((W * (k + 1)) - (W - n) - 1) * L
      /\ TheoreticalStart(d, k) = m * L /\ Interval = L * W
      /\ DeadlineFinish(d, k) = ((W * k) - (W - n)) * L
  BY DEF StartOf, TheoreticalStart, Interval, DeadlineFinish
<1> HIDE DEF W, L, n
<1>3. W * k \in Int /\ W * (k + 1) = (W * k) + W
  BY <1>1
<1>4. m \in Int /\ (W * (k + 1)) - (W - n) - 1 = m + W /\ (W * k) - (W - n) = m + 1
  BY <1>1, <1>3
<1> HIDE DEF m
<1>5. m * L \in Int /\ m * L = L * m /\ (m + W) * L = (m * L) + (L * W) /\ (m + 1) * L = (m * L) + L
  BY <1>1, <1>4
<1>6. L <= L * W
  BY <1>1
<1> QED
  BY <1>2, <1>4, <1>5, <1>6 DEF L

\* At the first instant of a slot nobody has a window open, and whoever is due
\* to send is idle with its sub-band open.
LEMMA FirstInstant ==
  ASSUME PacketFits, OnTime, now % plan.length = 0, NEW d \in Devices
  PROVE  /\ ~Pending(eds[d].events, "CloseFirstReceiveWindow")
         /\ app[d] = now => eds[d].state = "SLEEP" /\ eds[d].events = <<>>
                            /\ eds[d].wait[Band] = 0
<1> DEFINE L == plan.length
           s == eds[d]
           st == StartOf(plan, d, tasks[d])
           t == now - st
<1>1. IInv /\ OnSchedule(d) /\ tasks[d] \in Nat /\ plan.length = SlotLength
  BY DEF OnTime
<1>2. /\ st \in Int /\ app[d] = st + Interval /\ L <= Interval
      /\ \E m \in Int : st = L * m
  BY <1>1, StartsOfSlots DEF OnSchedule
<1>3. L \in Nat \ {0} /\ now \in Nat /\ app[d] \in Nat /\ Interval \in Int
  <2>1. L \in Nat \ {0} /\ now \in Nat /\ app[d] \in Nat /\ plan.window \in Nat \ {0}
    BY <1>1 DEF IInv
  <2> QED
    BY <2>1 DEF Interval
<1>4. InSlot(s, t) /\ t \in Int
  BY <1>1, <1>2, <1>3 DEF OnSchedule
<1>5. PICK m \in Int : st = L * m
  BY <1>2
<1>6. PICK n \in Int : now = L * n
  <2>0. now \in Int /\ L \in Nat \ {0}
    BY <1>3
  <2>1. now \div L \in Int /\ now = ((now \div L) * L) + (now % L)
    BY ONLY <2>0, DivMod
  <2> QED
    BY <1>3, <2>1
<1> HIDE DEF L, st, t, s
<1>7. CASE ~Engaged(s)
  <2>1. s.events = <<>> /\ s.state = "SLEEP"
    BY <1>7 DEF Engaged
  <2>2. app[d] = now => s.wait[Band] = 0
    <3>1. eds[d] \in SlottedDevice /\ (s.wait[Band] = 0 \/ now + s.wait[Band] <= app[d])
      BY <1>1 DEF OnSchedule, InSlot, s
    <3>2. s.wait[Band] \in Nat
      BY <3>1 DEF SlottedDevice, s
    <3> QED
      BY <1>3, <3>1, <3>2
  <2> QED
    BY <2>1, <2>2 DEF Pending, s
<1>8. CASE Engaged(s)
  <2>1. 0 <= t /\ t < L
    BY <1>1, <1>4, <1>8, EngagedInSlot DEF L
  <2>2. t = (L * n) - (L * m)
    BY <1>5, <1>6 DEF t
  <2>3. n = m
    <3>1. CASE n < m
      <4>1. L * n < L * m
        BY <1>3, <3>1
      <4> QED
        BY <1>3, <2>1, <2>2, <4>1
    <3>2. CASE m < n
      <4>1. L * (m + 1) <= L * n
        BY <1>3, <3>2
      <4>2. L * (m + 1) = (L * m) + L
        BY <1>3
      <4> QED
        BY <1>3, <2>1, <2>2, <4>1, <4>2
    <3> QED
      BY <3>1, <3>2
  <2>4. t = 0
    BY <1>3, <2>2, <2>3
  <2>5. app[d] # now
    BY <1>2, <1>3, <2>4 DEF t
  <2>6. Sending(s, t)
    BY <1>4, <2>4, ScheduleAssumption DEF InSlot, Sent, Windows
  <2>7. ~Pending(s.events, "CloseFirstReceiveWindow")
    <3>1. s.events \in Seq(PlannedEvent) /\ Len(s.events) = 2
      BY <1>4, <2>6 DEF InSlot, SlottedDevice, Sending
    <3>2. DOMAIN s.events = 1..2
      BY <3>1, LenProperties
    <3> QED
      BY <2>6, <3>2 DEF Pending, Sending
  <2> QED
    BY <2>5, <2>7 DEF s
<1> QED
  BY <1>7, <1>8

\* Nobody else hears what device d does.
OnlyDevice(d, s) == eds' = [e \in Devices |-> IF e = d THEN s ELSE eds[e]]

LEMMA NobodyHears ==
  ASSUME NEW d \in Devices, NEW s, Becomes(d, s),
         s.state # "TX" \/ Listening(d) = {}
  PROVE  OnlyDevice(d, s)
<1>1. PICK heard \in SUBSET (IF s.state = "TX" /\ eds[d].state # "TX" THEN Listening(d) ELSE {}) :
        eds' = [e \in Devices |-> IF e = d THEN s ELSE IF e \in heard THEN Locked(eds[e]) ELSE eds[e]]
  BY DEF Becomes
<1>2. heard = {}
  BY <1>1
<1> QED
  BY <1>1, <1>2 DEF OnlyDevice

\* A PeriodicSender hands its packet down: it is sent, at once.
LEMMA SenderStep ==
  ASSUME PacketFits, OnTime, NEW d \in Devices, SendPacket(d)
  PROVE  /\ now = app[d] /\ now % plan.length = 0
         /\ eds[d].state = "SLEEP" /\ eds[d].events = <<>>
         /\ UNCHANGED <<plan, now>> /\ app' = [app EXCEPT ![d] = now + Interval]
         /\ OnEDStartTxPackets(d)
         /\ \E s : /\ OnlyDevice(d, s) /\ s \in SlottedDevice /\ Sending(s, 0)
                   /\ s.wait[Band] = (AirTime * DutyDiv) - AirTime
<1>0. /\ now = app[d] /\ UNCHANGED <<plan, now>>
      /\ app' = [app EXCEPT ![d] = now + Interval]
  BY DEF SendPacket
<1>1. IInv /\ OnSchedule(d) /\ now \in Nat /\ now % plan.length = 0
  BY <1>0 DEF OnTime, IInv
<1>2. eds[d].state = "SLEEP" /\ eds[d].events = <<>> /\ eds[d].wait[Band] = 0
  BY <1>0, <1>1, FirstInstant
<1>3. Listening(d) = {}
  BY <1>1, FirstInstant DEF Listening
<1>4. eds[d] \in SlottedDevice
  BY <1>1 DEF OnSchedule, InSlot
<1>5. PICK s \in Device(d)!Send(eds[d], now) :
        /\ Becomes(d, s)
        /\ IF Sends(d, s) THEN OnEDStartTxPackets(d) ELSE UNCHANGED <<tasks, starts, finishes>>
  BY DEF SendPacket
<1>6. s \in SlottedDevice /\ Sending(s, 0) /\ s.wait[Band] = (AirTime * DutyDiv) - AirTime
  BY <1>1, <1>2, <1>4, SendStarts
<1>7. Sends(d, s)
  <2>1. AirTime \in Nat \ {0} /\ DutyDiv \in Nat /\ DutyDiv > 1
    BY ScheduleAssumption DEF PacketFits
  <2>2. AirTime * DutyDiv >= AirTime * 2
    BY <2>1
  <2>3. (AirTime * DutyDiv) - AirTime > 0
    BY <2>1, <2>2
  <2> QED
    BY <1>2, <1>6, <2>3 DEF Sends
<1>8. OnlyDevice(d, s)
  BY <1>3, <1>5, NobodyHears
<1> QED
  BY <1>0, <1>1, <1>2, <1>5, <1>6, <1>7, <1>8

\* An event of a device.
LEMMA EventStep ==
  ASSUME OnTime, NEW d \in Devices, RunEvent(d)
  PROVE  /\ UNCHANGED <<plan, now, app>> /\ Engaged(eds[d])
         /\ \/ UNCHANGED <<tasks, starts, finishes>>
            \/ OnEDFinishTxPackets(d) /\ now - StartOf(plan, d, tasks[d]) = AirTime
         /\ \E s : /\ OnlyDevice(d, s) /\ InSlot(s, now - StartOf(plan, d, tasks[d]))
                   /\ s.wait = eds[d].wait
<1> DEFINE t == now - StartOf(plan, d, tasks[d])
<1>1. IInv /\ OnSchedule(d) /\ tasks[d] \in Nat
  BY DEF OnTime
<1>2. t \in Int /\ InSlot(eds[d], t)
  <2>1. now \in Nat /\ StartOf(plan, d, tasks[d]) \in Int
    BY <1>1, StartsOfSlots DEF IInv
  <2> QED
    BY <1>1, <2>1 DEF OnSchedule
<1> HIDE DEF t
<1>3. PICK i \in DOMAIN eds[d].events :
        /\ IsNext(eds[d].events, i)
        /\ \E s \in After(d, i) :
             /\ Becomes(d, s)
             /\ IF Sends(d, s) THEN OnEDStartTxPackets(d)
                ELSE IF eds[d].events[i].fn = "TxFinished" THEN OnEDFinishTxPackets(d)
                ELSE UNCHANGED <<tasks, starts, finishes>>
  BY DEF RunEvent
<1>4. PICK s \in After(d, i) :
        /\ Becomes(d, s)
        /\ IF Sends(d, s) THEN OnEDStartTxPackets(d)
           ELSE IF eds[d].events[i].fn = "TxFinished" THEN OnEDFinishTxPackets(d)
           ELSE UNCHANGED <<tasks, starts, finishes>>
  BY <1>3
<1>5. /\ InSlot(s, t) /\ s.wait = eds[d].wait /\ s.state # "TX"
      /\ eds[d].events[i].fn = "TxFinished" => t = AirTime
  BY <1>2, <1>3, EventKeepsSlot
<1>6. ~Sends(d, s)
  <2>1. eds[d].wait[Band] \in Nat
    BY <1>2 DEF InSlot, SlottedDevice
  <2> QED
    BY <1>5, <2>1 DEF Sends
<1>7. OnlyDevice(d, s)
  BY <1>4, <1>5, NobodyHears
<1>8. Engaged(eds[d])
  BY <1>3 DEF Engaged
<1>9. UNCHANGED <<plan, now, app>>
  BY DEF RunEvent
<1> QED
  BY <1>4, <1>5, <1>6, <1>7, <1>8, <1>9 DEF t

LEMMA OnTimeInit == PacketFits /\ Init => OnTime
<1> SUFFICES ASSUME PacketFits, Init PROVE OnTime
  OBVIOUS
<1>a. PICK covers \in Coverages : \E slot \in Assignments(covers) :
        plan = [covers |-> covers, slot |-> slot,
                window |-> WindowLength(covers), length |-> SlotLength]
  BY DEF Init
<1>0. PICK slot \in Assignments(covers) :
        plan = [covers |-> covers, slot |-> slot,
                window |-> WindowLength(covers), length |-> SlotLength]
  BY <1>a
<1> DEFINE W == WindowLength(covers)
           L == SlotLength
<1>1. IInv
  BY InvInit
<1>2. plan.covers = covers /\ plan.slot = slot /\ plan.window = W /\ plan.length = L
  BY <1>0
<1>3. W \in Nat \ {0} /\ L \in Nat \ {0} /\ slot \in [Devices -> 1..W]
  BY <1>1, <1>2 DEF IInv
<1>4. Slotted!ValidPlan
  <2>1. covers \in [Devices -> SUBSET Gateways]
    BY DEF Coverages
  <2>2. \A d, e \in Devices : d # e /\ covers[d] \cap covers[e] # {} => slot[d] # slot[e]
    BY DEF Assignments
  <2> HIDE DEF W, L
  <2> QED
    BY <1>2, <1>3, <2>1, <2>2 DEF Slotted!ValidPlan, Slotted!Meet
<1>5. AirTime * DutyDiv <= plan.length * plan.window
  BY <1>2, PeriodCoversDuty DEF PacketFits
<1> HIDE DEF W, L
<1>6. /\ now = 0 /\ tasks = [d \in Devices |-> 0]
      /\ app = [d \in Devices |-> L * (slot[d] - 1)]
      /\ starts = [d \in Devices |-> NoEvent] /\ finishes = [d \in Devices |-> NoEvent]
      /\ eds = [d \in Devices |-> Device(d)!InitialDevice]
  BY <1>2 DEF Init, InitialDelay, L
<1>7. NoEvent \in Traces
  BY DEF NoEvent, Traces
<1>8. ASSUME NEW d \in Devices PROVE OnSchedule(d)
  <2> DEFINE n == slot[d]
             s == Device(d)!InitialDevice
  <2>1. n \in 1..W
    BY <1>3
  <2>2. /\ StartOf(plan, d, 1) = ((W * 1) - (W - n) - 1) * L
        /\ StartOf(plan, d, 0) = ((W * 0) - (W - n) - 1) * L
    BY <1>2 DEF StartOf
  <2>3. (W * 1) - (W - n) - 1 = n - 1 /\ (W * 0) - (W - n) - 1 = n - W - 1
    BY <1>3, <2>1
  <2>4. app[d] = StartOf(plan, d, tasks[d] + 1)
    <3>1. L * (n - 1) = (n - 1) * L
      BY <1>3, <2>1
    <3>2. tasks[d] + 1 = 1 /\ app[d] = L * (n - 1)
      BY <1>6
    <3> QED
      BY <2>2, <2>3, <3>1, <3>2
  <2>5. now <= app[d]
    BY <1>1, <1>6 DEF IInv
  <2>6. AirTime <= now - StartOf(plan, d, tasks[d])
    <3>1. StartOf(plan, d, tasks[d]) = (n - W - 1) * L
      BY <1>6, <2>2, <2>3
    <3>2. (n - W - 1) * L <= (-1) * L
      BY <1>3, <2>1
    <3>3. AirTime \in Nat /\ AirTime < L
      BY <1>3, ScheduleAssumption DEF PacketFits, L
    <3>4. (n - W - 1) * L \in Int
      BY <1>3, <2>1
    <3> QED
      BY <1>3, <1>6, <3>1, <3>2, <3>3, <3>4
  <2>7. s = [state |-> "SLEEP", events |-> <<>>, waitingAck |-> FALSE, retxLeft |-> 8,
             packet |-> None, secondTs |-> 0, wait |-> [b \in {Band} |-> 0],
             report |-> [txs |-> 0, ok |-> FALSE, packet |-> None, made |-> FALSE],
             onAir |-> 0, aborted |-> "no"]
    BY DEF Device!InitialDevice, Device!NoReport
  <2>8. s \in SlottedDevice
    <3> DEFINE rep == [txs |-> 0, ok |-> FALSE, packet |-> None, made |-> FALSE]
               none == <<>>
               w == [b \in {Band} |-> 0]
    <3>1. rep \in ReportsMade /\ none \in Seq(PlannedEvent) /\ w \in [{Band} -> Nat]
      BY EmptySeq DEF ReportsMade
    <3> HIDE DEF rep, none, w
    <3>2. s = [state |-> "SLEEP", events |-> none, waitingAck |-> FALSE, retxLeft |-> 8,
               packet |-> None, secondTs |-> 0, wait |-> w, report |-> rep,
               onAir |-> 0, aborted |-> "no"]
      BY <2>7 DEF none, w, rep
    <3> QED
      BY <3>1, <3>2 DEF SlottedDevice
  <2>9. eds[d] = s /\ s.state = "SLEEP" /\ s.events = <<>> /\ s.wait[Band] = 0
    BY <1>6, <2>7
  <2>10. Windows(s, now - StartOf(plan, d, tasks[d]))
    <3>1. Len(s.events) = 0
      BY <2>9, EmptySeq
    <3> QED
      BY <2>6, <2>9, <3>1 DEF Windows, Remains
  <2> HIDE DEF s
  <2> QED
    BY <2>4, <2>5, <2>8, <2>9, <2>10 DEF OnSchedule, InSlot
<1>9. TracedOnTime
  BY <1>6 DEF TracedOnTime, NoEvent
<1> QED
  BY <1>1, <1>2, <1>4, <1>5, <1>6, <1>7, <1>8, <1>9 DEF OnTime, L

LEMMA OnTimeStep == PacketFits /\ OnTime /\ [Next]_vars => OnTime'
<1> SUFFICES ASSUME PacketFits, OnTime, [Next]_vars PROVE OnTime'
  OBVIOUS
<1>1. IInv /\ IInv'
  BY InvStep DEF OnTime
<1>2. plan' = plan
  BY DEF Next, Tick, SendPacket, RunEvent, vars
<1>3. Slotted!ValidPlan' /\ (plan.length = SlotLength)' /\ (AirTime * DutyDiv <= plan.length * plan.window)'
  BY <1>2 DEF OnTime, Slotted!ValidPlan, Slotted!Meet
<1>4. /\ tasks \in [Devices -> Nat] /\ now \in Nat /\ app \in [Devices -> Nat]
      /\ starts \in [Devices -> Traces] /\ finishes \in [Devices -> Traces]
  BY DEF OnTime, IInv
<1>5. ASSUME NEW e \in Devices
      PROVE  /\ app[e] = StartOf(plan, e, tasks[e] + 1) /\ now <= app[e]
             /\ InSlot(eds[e], now - StartOf(plan, e, tasks[e]))
             /\ eds[e].wait[Band] = 0 \/ now + eds[e].wait[Band] <= app[e]
             /\ eds[e].wait[Band] \in Nat
             /\ StartOf(plan, e, tasks[e]) \in Int
             /\ StartOf(plan, e, tasks[e] + 1) = StartOf(plan, e, tasks[e]) + Interval
             /\ starts[e].actual = starts[e].theoretical
             /\ finishes[e].actual <= finishes[e].theoretical
  <2>1. OnSchedule(e)
    BY DEF OnTime
  <2>2. eds[e].wait[Band] \in Nat
    BY <2>1 DEF OnSchedule, InSlot, SlottedDevice
  <2>3. /\ StartOf(plan, e, tasks[e]) \in Int
        /\ StartOf(plan, e, tasks[e] + 1) = StartOf(plan, e, tasks[e]) + Interval
    BY <1>1, <1>4, StartsOfSlots
  <2>4. TracedOnTime
    BY DEF OnTime
  <2> QED
    BY <2>1, <2>2, <2>3, <2>4 DEF OnSchedule, TracedOnTime
<1> SUFFICES /\ tasks' \in [Devices -> Nat]
             /\ starts' \in [Devices -> Traces] /\ finishes' \in [Devices -> Traces]
             /\ \A e \in Devices :
                  /\ app'[e] = StartOf(plan, e, tasks'[e] + 1) /\ now' <= app'[e]
                  /\ InSlot(eds'[e], now' - StartOf(plan, e, tasks'[e]))
                  /\ eds'[e].wait[Band] = 0 \/ now' + eds'[e].wait[Band] <= app'[e]
                  /\ starts'[e].actual = starts'[e].theoretical
                  /\ finishes'[e].actual <= finishes'[e].theoretical
  BY <1>1, <1>2, <1>3 DEF OnTime, OnSchedule, TracedOnTime
<1>6. CASE Tick
  <2>1. /\ now' = now + 1 /\ UNCHANGED <<app, tasks, starts, finishes>>
        /\ eds' = [d \in Devices |-> Device(d)!OneTickLater(eds[d])]
        /\ \A e \in Devices : Quiet(eds[e].events) /\ app[e] # now
    BY <1>6 DEF Tick, InstantIsOver
  <2>2. ASSUME NEW e \in Devices
        PROVE  /\ app'[e] = StartOf(plan, e, tasks'[e] + 1) /\ now' <= app'[e]
               /\ InSlot(eds'[e], now' - StartOf(plan, e, tasks'[e]))
               /\ eds'[e].wait[Band] = 0 \/ now' + eds'[e].wait[Band] <= app'[e]
               /\ starts'[e].actual = starts'[e].theoretical
               /\ finishes'[e].actual <= finishes'[e].theoretical
    <3> DEFINE t == now - StartOf(plan, e, tasks[e])
    <3>1. t \in Int /\ now' - StartOf(plan, e, tasks'[e]) = t + 1
      BY <1>4, <1>5, <2>1
    <3>2. InSlot(eds[e], t)
      BY <1>5
    <3> HIDE DEF t
    <3>3. eds'[e] = Device(e)!OneTickLater(eds[e])
      BY <2>1
    <3>4. /\ InSlot(eds'[e], t + 1)
          /\ eds'[e].wait[Band] = IF eds[e].wait[Band] = 0 THEN 0 ELSE eds[e].wait[Band] - 1
      BY <2>1, <3>1, <3>2, <3>3, TickKeepsSlot
    <3>5. eds'[e].wait[Band] = 0 \/ now' + eds'[e].wait[Band] <= app'[e]
      BY <1>4, <1>5, <2>1, <3>4
    <3>6. now' <= app'[e]
      <4>1. now <= app[e] /\ app[e] # now /\ app[e] \in Nat
        BY <1>4, <1>5, <2>1
      <4> QED
        BY <1>4, <2>1, <4>1
    <3>7. app'[e] = StartOf(plan, e, tasks'[e] + 1)
      BY <1>5, <2>1
    <3> QED
      BY <1>5, <2>1, <3>1, <3>4, <3>5, <3>6, <3>7
  <2> QED
    BY <1>4, <2>1, <2>2
<1>7. ASSUME NEW d \in Devices, SendPacket(d)
      PROVE  /\ tasks' \in [Devices -> Nat]
             /\ starts' \in [Devices -> Traces] /\ finishes' \in [Devices -> Traces]
             /\ \A e \in Devices :
                  /\ app'[e] = StartOf(plan, e, tasks'[e] + 1) /\ now' <= app'[e]
                  /\ InSlot(eds'[e], now' - StartOf(plan, e, tasks'[e]))
                  /\ eds'[e].wait[Band] = 0 \/ now' + eds'[e].wait[Band] <= app'[e]
                  /\ starts'[e].actual = starts'[e].theoretical
                  /\ finishes'[e].actual <= finishes'[e].theoretical
  <2>1. /\ now = app[d] /\ now' = now
        /\ app' = [app EXCEPT ![d] = now + Interval] /\ OnEDStartTxPackets(d)
    BY <1>7, SenderStep
  <2>2. PICK s : /\ OnlyDevice(d, s) /\ s \in SlottedDevice /\ Sending(s, 0)
                 /\ s.wait[Band] = (AirTime * DutyDiv) - AirTime
    BY <1>7, SenderStep
  <2>3. tasks' = [tasks EXCEPT ![d] = tasks[d] + 1] /\ tasks'[d] = tasks[d] + 1
    BY <1>4, <2>1 DEF OnEDStartTxPackets
  <2>4. /\ TheoreticalStart(d, tasks[d] + 1) = now
        /\ StartOf(plan, d, tasks[d] + 1) = now
        /\ StartOf(plan, d, (tasks[d] + 1) + 1) = now + Interval
    <3>1. tasks[d] + 1 \in Nat
      BY <1>4
    <3>2. /\ TheoreticalStart(d, tasks[d] + 1) = StartOf(plan, d, tasks[d] + 1)
          /\ StartOf(plan, d, (tasks[d] + 1) + 1) = StartOf(plan, d, tasks[d] + 1) + Interval
      BY <1>1, <3>1, StartsOfSlots
    <3> QED
      BY <1>5, <2>1, <3>2
  <2> DEFINE new == [task |-> tasks[d] + 1, theoretical |-> now, actual |-> now]
  <2>5. starts' = [starts EXCEPT ![d] = new] /\ finishes' = finishes
    BY <2>1, <2>3, <2>4 DEF OnEDStartTxPackets
  <2>6. new \in Traces /\ new.actual = new.theoretical
    BY <1>4 DEF Traces
  <2> HIDE DEF new
  <2>7. /\ tasks' \in [Devices -> Nat]
        /\ starts' \in [Devices -> Traces] /\ finishes' \in [Devices -> Traces]
    BY <1>4, <2>3, <2>5, <2>6
  <2>8. Interval \in Nat /\ AirTime * DutyDiv <= Interval /\ AirTime * DutyDiv \in Nat
        /\ AirTime \in Nat
    <3>1. plan.length \in Nat /\ plan.window \in Nat /\ AirTime \in Nat /\ DutyDiv \in Nat
      BY <1>1, ScheduleAssumption DEF IInv
    <3>2. AirTime * DutyDiv <= plan.length * plan.window
      BY DEF OnTime
    <3> QED
      BY <3>1, <3>2 DEF Interval
  <2>9. ASSUME NEW e \in Devices
        PROVE  /\ app'[e] = StartOf(plan, e, tasks'[e] + 1) /\ now' <= app'[e]
               /\ InSlot(eds'[e], now' - StartOf(plan, e, tasks'[e]))
               /\ eds'[e].wait[Band] = 0 \/ now' + eds'[e].wait[Band] <= app'[e]
               /\ starts'[e].actual = starts'[e].theoretical
               /\ finishes'[e].actual <= finishes'[e].theoretical
    <3>1. CASE e = d
      <4>1. eds'[e] = s /\ app'[e] = now + Interval
        BY <1>4, <2>1, <2>2, <3>1 DEF OnlyDevice
      <4>2. now' - StartOf(plan, e, tasks'[e]) = 0
        BY <1>4, <2>1, <2>3, <2>4, <3>1
      <4>3. InSlot(s, 0)
        BY <2>2 DEF InSlot
      <4>4. app'[e] = StartOf(plan, e, tasks'[e] + 1)
        BY <2>3, <2>4, <3>1, <4>1
      <4>5. now' <= app'[e] /\ now' + eds'[e].wait[Band] <= app'[e]
        BY <1>4, <2>1, <2>2, <2>8, <4>1
      <4>6. starts'[e] = new /\ finishes'[e] = finishes[e]
        BY <1>4, <2>5, <3>1
      <4> QED
        BY <1>5, <2>6, <4>1, <4>2, <4>3, <4>4, <4>5, <4>6
    <3>2. CASE e # d
      <4>1. eds'[e] = eds[e] /\ app'[e] = app[e] /\ tasks'[e] = tasks[e]
        BY <1>4, <2>1, <2>2, <2>3, <3>2 DEF OnlyDevice
      <4>2. starts'[e] = starts[e] /\ finishes'[e] = finishes[e]
        BY <1>4, <2>5, <3>2
      <4> QED
        BY <1>5, <2>1, <4>1, <4>2
    <3> QED
      BY <3>1, <3>2
  <2> QED
    BY <2>7, <2>9
<1>8. ASSUME NEW d \in Devices, RunEvent(d)
      PROVE  /\ tasks' \in [Devices -> Nat]
             /\ starts' \in [Devices -> Traces] /\ finishes' \in [Devices -> Traces]
             /\ \A e \in Devices :
                  /\ app'[e] = StartOf(plan, e, tasks'[e] + 1) /\ now' <= app'[e]
                  /\ InSlot(eds'[e], now' - StartOf(plan, e, tasks'[e]))
                  /\ eds'[e].wait[Band] = 0 \/ now' + eds'[e].wait[Band] <= app'[e]
                  /\ starts'[e].actual = starts'[e].theoretical
                  /\ finishes'[e].actual <= finishes'[e].theoretical
  <2>1. /\ UNCHANGED <<now, app>>
        /\ \/ UNCHANGED <<tasks, starts, finishes>>
           \/ OnEDFinishTxPackets(d) /\ now - StartOf(plan, d, tasks[d]) = AirTime
    BY <1>8, EventStep
  <2>2. PICK s : /\ OnlyDevice(d, s) /\ InSlot(s, now - StartOf(plan, d, tasks[d]))
                 /\ s.wait = eds[d].wait
    BY <1>8, EventStep
  <2>3. tasks' = tasks /\ starts' = starts
    BY <2>1 DEF OnEDFinishTxPackets
  <2>4. /\ finishes' \in [Devices -> Traces]
        /\ \A e \in Devices : finishes'[e].actual <= finishes'[e].theoretical
    <3>1. CASE finishes' = finishes
      BY <1>4, <1>5, <3>1
    <3>2. CASE OnEDFinishTxPackets(d) /\ now - StartOf(plan, d, tasks[d]) = AirTime
      <4> DEFINE dl == DeadlineFinish(d, tasks[d])
                 new == [task |-> tasks[d], theoretical |-> dl, actual |-> now]
      <4>1. finishes' = [finishes EXCEPT ![d] = new]
        BY <3>2 DEF OnEDFinishTxPackets
      <4>2. dl = StartOf(plan, d, tasks[d]) + plan.length
        BY <1>1, <1>4, StartsOfSlots
      <4>3. AirTime \in Nat /\ AirTime < plan.length /\ plan.length \in Nat
        BY <1>1, ScheduleAssumption DEF PacketFits, OnTime, IInv
      <4>4. dl \in Int /\ now <= dl
        BY <1>4, <1>5, <3>2, <4>2, <4>3
      <4> HIDE DEF dl
      <4>5. new \in Traces /\ new.actual <= new.theoretical
        BY <1>4, <4>4 DEF Traces
      <4> HIDE DEF new
      <4> QED
        BY <1>4, <1>5, <4>1, <4>5
    <3> QED
      BY <2>1, <3>1, <3>2
  <2>5. ASSUME NEW e \in Devices
        PROVE  /\ InSlot(eds'[e], now' - StartOf(plan, e, tasks'[e]))
               /\ eds'[e].wait = eds[e].wait
    <3>1. CASE e = d
      BY <2>1, <2>2, <2>3, <3>1 DEF OnlyDevice
    <3>2. CASE e # d
      BY <1>5, <2>1, <2>2, <2>3, <3>2 DEF OnlyDevice
    <3> QED
      BY <3>1, <3>2
  <2> QED
    BY <1>4, <1>5, <2>1, <2>3, <2>4, <2>5
<1>9. CASE UNCHANGED vars
  BY <1>4, <1>5, <1>9 DEF vars
<1> QED
  BY <1>6, <1>7, <1>8, <1>9 DEF Next

LEMMA OnTimeAlways ==
  ASSUME PacketFits
  PROVE  Spec => []OnTime
<1>1. PacketFits
  OBVIOUS
<1>2. Init => OnTime
  BY <1>1, OnTimeInit
<1>3. OnTime /\ [Next]_vars => OnTime'
  BY <1>1, OnTimeStep
<1> QED
  BY <1>2, <1>3, PTL DEF Spec

\* Whatever the scenario, no device ever locks on the packet of another one.
THEOREM NothingOverheard ==
  ASSUME PacketFits
  PROVE  Spec => []NeverOverhears
<1>1. OnTime => NeverOverhears
  BY DEF OnTime, OnSchedule, InSlot, SlottedDevice, NeverOverhears
<1> QED
  BY <1>1, OnTimeAlways, PTL

\* Whatever the scenario, every packet starts with its slot and ends in it, and
\* the traces say so.
THEOREM TracesOnTime ==
  ASSUME PacketFits
  PROVE  Spec => []TracedOnTime
<1>1. OnTime => TracedOnTime
  BY DEF OnTime
<1> QED
  BY <1>1, OnTimeAlways, PTL

LEMMA StartsGrow ==
  ASSUME IInv, NEW d \in Devices, NEW j \in Nat, NEW k \in Nat
  PROVE  /\ j <= k => StartOf(plan, d, j) <= StartOf(plan, d, k)
         /\ 1 <= k => k - 1 <= StartOf(plan, d, k)
<1> DEFINE W == plan.window
           L == plan.length
           n == plan.slot[d]
           a == (W * j) - (W - n) - 1
           b == (W * k) - (W - n) - 1
<1>1. W \in Nat \ {0} /\ L \in Nat \ {0} /\ n \in 1..W
  BY DEF IInv
<1>2. StartOf(plan, d, j) = a * L /\ StartOf(plan, d, k) = b * L
  BY DEF StartOf
<1> HIDE DEF W, L, n
<1>3. a \in Int /\ b \in Int
  BY <1>1
<1>4. j <= k => a <= b
  BY <1>1
<1>5. 1 <= k => k - 1 <= b
  <2> SUFFICES ASSUME 1 <= k PROVE k - 1 <= b
    OBVIOUS
  <2>1. W * k = (W * (k - 1)) + W /\ k - 1 <= W * (k - 1) /\ W * (k - 1) \in Nat
    BY <1>1
  <2> QED
    BY <1>1, <2>1
<1> HIDE DEF a, b
<1>6. a <= b => a * L <= b * L
  BY <1>1, <1>3
<1>7. 1 <= k => b <= b * L
  <2> SUFFICES ASSUME 1 <= k PROVE b <= b * L
    OBVIOUS
  <2>1. b \in Nat
    BY <1>3, <1>5
  <2> QED
    BY <1>1, <2>1
<1>8. b * L \in Int
  BY <1>1, <1>3
<1> QED
  BY <1>2, <1>3, <1>4, <1>5, <1>6, <1>7, <1>8

\* Whatever the scenario, every slot that has begun carried one packet.
THEOREM EverySlotUsed ==
  ASSUME PacketFits
  PROVE  Spec => []SlotsAllUsed
<1>1. OnTime => SlotsAllUsed
  <2> SUFFICES ASSUME OnTime, InstantIsOver, NEW d \in Devices
               PROVE  tasks[d] = Cardinality(SlotsBegun(d))
    BY DEF SlotsAllUsed
  <2> DEFINE n == tasks[d]
             t == now - StartOf(plan, d, n)
  <2>1. IInv /\ OnSchedule(d) /\ n \in Nat /\ now \in Nat /\ app[d] # now /\ app[d] \in Nat
    BY DEF OnTime, IInv, InstantIsOver
  <2>2. \A k \in Nat : StartOf(plan, d, k) \in Int /\ TheoreticalStart(d, k) = StartOf(plan, d, k)
    BY <2>1, StartsOfSlots
  <2>3. StartOf(plan, d, n) <= now
    <3>1. AirTime \in Nat /\ t \in Int
      BY <2>1, <2>2, ScheduleAssumption
    <3>2. InSlot(eds[d], t)
      BY <2>1 DEF OnSchedule
    <3> HIDE DEF t
    <3>3. 0 <= t
      BY <3>1, <3>2 DEF InSlot, Sending, Sent, Windows
    <3> QED
      BY <2>1, <2>2, <3>3 DEF t
  <2>4. now < StartOf(plan, d, n + 1)
    BY <2>1 DEF OnSchedule
  <2> HIDE DEF n
  <2>5. ASSUME NEW k \in Nat, k # 0
        PROVE  (k \in 1..(now + 1) /\ TheoreticalStart(d, k) <= now) <=> k \in 1..n
    <3>1. CASE k <= n
      <4>1. StartOf(plan, d, k) <= StartOf(plan, d, n) /\ k - 1 <= StartOf(plan, d, k)
        BY <2>1, <2>5, <3>1, StartsGrow
      <4> QED
        BY <2>1, <2>2, <2>3, <2>5, <3>1, <4>1
    <3>2. CASE n + 1 <= k
      <4>1. StartOf(plan, d, n + 1) <= StartOf(plan, d, k)
        BY <2>1, <3>2, StartsGrow
      <4> QED
        BY <2>1, <2>2, <2>4, <3>2, <4>1
    <3> QED
      BY <2>1, <3>1, <3>2
  <2>6. SlotsBegun(d) = 1..n
    <3>1. \A k : k \in SlotsBegun(d) => k \in 1..n
      BY <2>1, <2>5 DEF SlotsBegun
    <3>2. \A k : k \in 1..n => k \in SlotsBegun(d)
      BY <2>1, <2>5 DEF SlotsBegun
    <3> QED
      BY <3>1, <3>2
  <2>7. Cardinality(1..n) = n
    <3>1. Cardinality(1..n) = IF 1 > n THEN 0 ELSE n - 1 + 1
      BY <2>1, FS_Interval
    <3> QED
      BY <2>1, <3>1
  <2> QED
    BY <2>6, <2>7 DEF n
<1> QED
  BY <1>1, OnTimeAlways, PTL

\* Whatever the scenario, the devices implement the abstract schedule: each is
\* busy in its own slots only, from their beginning, and done before their end.
THEOREM SlotsKept ==
  ASSUME PacketFits
  PROVE  Spec => SlotsRefined
<1>0. PacketFits
  OBVIOUS
<1>1. Init => Slotted!Init
  <2> SUFFICES ASSUME Init PROVE Slotted!Init
    OBVIOUS
  <2>1. Slotted!ValidPlan
    BY <1>0, OnTimeInit DEF OnTime
  <2>2. \A d \in Devices : eds[d].state = "SLEEP" /\ eds[d].events = <<>>
    BY DEF Init, Device!InitialDevice
  <2> QED
    BY <2>1, <2>2 DEF Init, Slotted!Init, Busy
<1>2. OnTime /\ [Next]_vars => [Slotted!Next]_(Slotted!vars)
  <2> SUFFICES ASSUME OnTime, [Next]_vars PROVE [Slotted!Next]_(Slotted!vars)
    OBVIOUS
  <2>1. CASE Tick
    <3>1. /\ now' = now + 1 /\ plan' = plan
          /\ eds' = [d \in Devices |-> Device(d)!OneTickLater(eds[d])]
          /\ \A d \in Devices : Quiet(eds[d].events)
      BY <2>1 DEF Tick, InstantIsOver
    <3>2. ASSUME NEW d \in Devices
          PROVE  /\ now - StartOf(plan, d, tasks[d]) \in Int
                 /\ InSlot(eds[d], now - StartOf(plan, d, tasks[d]))
                 /\ \E m \in Int : StartOf(plan, d, tasks[d]) = plan.length * m
                 /\ plan.length = SlotLength /\ plan.length \in Nat \ {0} /\ now \in Nat
      <4>1. IInv /\ OnSchedule(d) /\ tasks[d] \in Nat
        BY DEF OnTime
      <4>2. /\ StartOf(plan, d, tasks[d]) \in Int
            /\ \E m \in Int : StartOf(plan, d, tasks[d]) = plan.length * m
        BY <4>1, StartsOfSlots
      <4>3. now \in Nat /\ plan.length = SlotLength /\ plan.length \in Nat \ {0}
        BY <4>1 DEF IInv, OnTime
      <4> QED
        BY <4>1, <4>2, <4>3 DEF OnSchedule
    <3>3. Busy' = Busy
      <4>1. ASSUME NEW d \in Devices PROVE Engaged(eds'[d]) <=> Engaged(eds[d])
        <5>1. eds'[d] = Device(d)!OneTickLater(eds[d])
          BY <3>1
        <5> QED
          BY <3>1, <3>2, <5>1, TickKeepsSlot
      <4> QED
        BY <4>1 DEF Busy, Engaged
    <3>4. Busy # {} => Slotted!SlotOf(now + 1) = Slotted!SlotOf(now)
      <4> SUFFICES ASSUME NEW d \in Devices, Engaged(eds[d])
                   PROVE  (now + 1) \div plan.length = now \div plan.length
        BY DEF Busy, Engaged, Slotted!SlotOf
      <4> DEFINE L == plan.length
                 t == now - StartOf(plan, d, tasks[d])
      <4>1. t \in Int /\ InSlot(eds[d], t) /\ L = SlotLength /\ L \in Nat \ {0} /\ now \in Nat
        BY <3>2
      <4>2. PICK m \in Int : StartOf(plan, d, tasks[d]) = L * m
        BY <3>2
      <4>3. now = (L * m) + t
        BY <4>1, <4>2
      <4> HIDE DEF L, t
      <4>4. 0 <= t /\ t + 1 < L
        BY <1>0, <3>1, <4>1, EngagedInSlot
      <4>5. /\ now = (m * L) + t /\ now + 1 = (m * L) + (t + 1)
            /\ t \in 0..(L - 1) /\ t + 1 \in 0..(L - 1)
        BY <4>1, <4>3, <4>4
      <4>6. now \div L = m /\ (now + 1) \div L = m
        BY <4>1, <4>5, DivUnique
      <4> QED
        BY <4>6 DEF L
    <3> QED
      BY <3>1, <3>3, <3>4 DEF Slotted!Next, Slotted!Tick
  <2>2. ASSUME NEW d \in Devices, SendPacket(d) PROVE Slotted!Begin(d)
    <3>1. /\ now = app[d] /\ now % plan.length = 0 /\ UNCHANGED <<plan, now>>
      BY <1>0, <2>2, SenderStep
    <3>2. PICK s : OnlyDevice(d, s) /\ Sending(s, 0)
      BY <1>0, <2>2, SenderStep
    <3>3. Slotted!Owns(d, now)
      BY <3>1 DEF OnTime, IInv, Slotted!Owns, Slotted!SlotOf
    <3>4. Busy' = Busy \cup {d}
      <4>1. eds'[d].state = "TX" /\ \A e \in Devices : e # d => eds'[e] = eds[e]
        BY <3>2 DEF OnlyDevice, Sending
      <4> QED
        BY <4>1 DEF Busy
    <3> QED
      BY <3>1, <3>3, <3>4 DEF Slotted!Begin
  <2>3. ASSUME NEW d \in Devices, RunEvent(d) PROVE Slotted!End(d) \/ UNCHANGED Slotted!vars
    <3>1. UNCHANGED <<plan, now>> /\ Engaged(eds[d])
      BY <2>3, EventStep
    <3>2. PICK s : OnlyDevice(d, s)
      BY <2>3, EventStep
    <3>3. \A e \in Devices : e # d => eds'[e] = eds[e]
      BY <3>2 DEF OnlyDevice
    <3>4. Busy' = Busy \/ Busy' = Busy \ {d}
      <4>1. CASE Engaged(eds'[d])
        BY <3>1, <3>3, <4>1 DEF Busy, Engaged
      <4>2. CASE ~Engaged(eds'[d])
        BY <3>1, <3>3, <4>2 DEF Busy, Engaged
      <4> QED
        BY <4>1, <4>2
    <3> QED
      BY <3>1, <3>4 DEF Slotted!End, Slotted!vars
  <2>4. CASE UNCHANGED vars
    BY <2>4 DEF vars, Slotted!vars, Busy
  <2> QED
    BY <2>1, <2>2, <2>3, <2>4 DEF Next, Slotted!Next
<1> QED
  BY <1>1, <1>2, OnTimeAlways, PTL DEF Spec, SlotsRefined, Slotted!Spec

\* So devices that share a gateway never transmit or listen at the same time.
COROLLARY NeverTogether ==
  ASSUME PacketFits
  PROVE  Spec => []Slotted!Exclusive
BY SlotsKept, OneBusyPerGateway, PTL DEF SlotsRefined
=============================================================================
