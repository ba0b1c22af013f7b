--------------------------- MODULE EndDevice_proofs ---------------------------
(***************************************************************************)
(* Type correctness of the end device, and what holds of its               *)
(* retransmission procedure for every number of packets, every air time,   *)
(* delay and duty cycle, and every number of attempts.                     *)
(*                                                                         *)
(* The invariant: the state has its type, the list holds at most one       *)
(* DoSend, m_nextTx still names that one (so that cancelling it takes it   *)
(* out of the list), and no other event carries a packet.  Each handler    *)
(* has a lemma that says it keeps the invariant and what it does to the    *)
(* packet under retransmission.                                            *)
(*                                                                         *)
(* The last part is about a device whose duty cycle outlasts its windows:  *)
(* OnDuty, its invariant, relates the radio, the pending events and the    *)
(* sub-band.                                                               *)
(***************************************************************************)
EXTENDS EndDevice, SequenceTheorems, WellFoundedInduction, TLAPS

-----------------------------------------------------------------------------
(* What the operations of the event list do to it.  F is the set of        *)
(* handlers, A the set of arguments.                                       *)

Events(F, A) == [fn : F, due : Nat, held : BOOLEAN, arg : A]

\* Releasing an EventId changes nothing but which events are named by it.
LEMMA ReleaseProperties ==
  ASSUME NEW F, NEW A, NEW q \in Seq(Events(F, A)), NEW f
  PROVE  /\ Release(q, f) \in Seq(Events(F, A))
         /\ Len(Release(q, f)) = Len(q)
         /\ \A i \in 1..Len(q) :
              /\ Release(q, f)[i].fn = q[i].fn
              /\ Release(q, f)[i].due = q[i].due
              /\ Release(q, f)[i].arg = q[i].arg
              /\ Release(q, f)[i].held = (q[i].held /\ q[i].fn # f)
<1>1. /\ DOMAIN q = 1..Len(q) /\ Len(q) \in Nat
      /\ \A i \in 1..Len(q) : q[i] \in Events(F, A)
  BY LenProperties, ElementOfSeq
<1>2. \A i \in 1..Len(q) :
        /\ Release(q, f)[i] \in Events(F, A)
        /\ Release(q, f)[i].fn = q[i].fn
        /\ Release(q, f)[i].due = q[i].due
        /\ Release(q, f)[i].arg = q[i].arg
        /\ Release(q, f)[i].held = (q[i].held /\ q[i].fn # f)
  BY <1>1 DEF Release, Events
<1>3. Release(q, f) = [i \in 1..Len(q) |-> Release(q, f)[i]]
  BY <1>1 DEF Release
<1>4. /\ Release(q, f) \in Seq(Events(F, A))
      /\ Len(Release(q, f)) = Len(q)
  BY <1>1, <1>2, <1>3, IsASeq
<1>5. QED
  BY <1>2, <1>4

\* Scheduling appends one event, the only one its EventId now names.
LEMMA ScheduleProperties ==
  ASSUME NEW F, NEW A, NEW q \in Seq(Events(F, A)),
         NEW f \in F, NEW d \in Nat, NEW a \in A
  PROVE  /\ Schedule(q, f, d, a) \in Seq(Events(F, A))
         /\ Len(Schedule(q, f, d, a)) = Len(q) + 1
         /\ \A i \in 1..Len(q) :
              /\ Schedule(q, f, d, a)[i].fn = q[i].fn
              /\ Schedule(q, f, d, a)[i].due = q[i].due
              /\ Schedule(q, f, d, a)[i].arg = q[i].arg
              /\ Schedule(q, f, d, a)[i].held = (q[i].held /\ q[i].fn # f)
         /\ Schedule(q, f, d, a)[Len(q) + 1]
              = [fn |-> f, due |-> d, held |-> TRUE, arg |-> a]
<1> DEFINE new == [fn |-> f, due |-> d, held |-> TRUE, arg |-> a]
<1>1. new \in Events(F, A)
  BY DEF Events
<1>2. /\ Release(q, f) \in Seq(Events(F, A))
      /\ Len(Release(q, f)) = Len(q)
  BY ReleaseProperties
<1>3. /\ Append(Release(q, f), new) \in Seq(Events(F, A))
      /\ Len(Append(Release(q, f), new)) = Len(q) + 1
      /\ \A i \in 1..Len(q) : Append(Release(q, f), new)[i] = Release(q, f)[i]
      /\ Append(Release(q, f), new)[Len(q) + 1] = new
  <2> HIDE DEF new
  <2>1. QED BY <1>1, <1>2, AppendProperties
<1>4. Schedule(q, f, d, a) = Append(Release(q, f), new)
  BY DEF Schedule
<1>5. QED
  <2> HIDE DEF new
  <2>1. \A i \in 1..Len(q) :
          /\ Schedule(q, f, d, a)[i].fn = q[i].fn
          /\ Schedule(q, f, d, a)[i].due = q[i].due
          /\ Schedule(q, f, d, a)[i].arg = q[i].arg
          /\ Schedule(q, f, d, a)[i].held = (q[i].held /\ q[i].fn # f)
    BY <1>3, <1>4, ReleaseProperties
  <2>2. QED BY <1>3, <1>4, <2>1 DEF new

\* Taking an event out of the list keeps the others, in their order.
LEMMA WithoutProperties ==
  ASSUME NEW F, NEW A, NEW q \in Seq(Events(F, A)), NEW k \in 1..Len(q)
  PROVE  /\ Without(q, k) \in Seq(Events(F, A))
         /\ Len(Without(q, k)) = Len(q) - 1
         /\ \A i \in 1..(Len(q) - 1) :
              Without(q, k)[i] = q[IF i < k THEN i ELSE i + 1]
<1> DEFINE front == SubSeq(q, 1, k - 1)
           back == SubSeq(q, k + 1, Len(q))
<1>1. Len(q) \in Nat /\ k \in Nat /\ 1 <= k /\ k <= Len(q)
  BY LenProperties
<1>2. /\ front \in Seq(Events(F, A))
      /\ Len(front) = k - 1
      /\ \A i \in 1..(k - 1) : front[i] = q[i]
  BY <1>1, SubSeqProperties
<1>3. /\ back \in Seq(Events(F, A))
      /\ Len(back) = Len(q) - k
      /\ \A i \in 1..(Len(q) - k) : back[i] = q[k + i]
  BY <1>1, SubSeqProperties
<1>4. Without(q, k) = front \o back
  BY DEF Without
<1> HIDE DEF front, back
<1>5. /\ front \o back \in Seq(Events(F, A))
      /\ Len(front \o back) = Len(front) + Len(back)
      /\ \A i \in 1..(Len(front) + Len(back)) :
           (front \o back)[i] = IF i <= Len(front) THEN front[i] ELSE back[i - Len(front)]
  BY <1>2, <1>3, ConcatProperties
<1>6. Len(front \o back) = Len(q) - 1
  BY <1>1, <1>2, <1>3, <1>5
<1>7. ASSUME NEW i \in 1..(Len(q) - 1)
      PROVE  (front \o back)[i] = q[IF i < k THEN i ELSE i + 1]
  <2>1. (front \o back)[i] = IF i <= Len(front) THEN front[i] ELSE back[i - Len(front)]
    BY <1>1, <1>2, <1>3, <1>5
  <2>2. CASE i < k
    BY <1>1, <1>2, <2>1, <2>2
  <2>3. CASE ~ (i < k)
    <3>1. i - (k - 1) \in 1..(Len(q) - k) /\ k + (i - (k - 1)) = i + 1
      BY <1>1, <2>3
    <3>2. QED BY <1>1, <1>2, <1>3, <2>1, <2>3, <3>1
  <2>4. QED BY <2>2, <2>3
<1>8. QED
  BY <1>4, <1>5, <1>6, <1>7

\* Cancelling removes one event its EventId names, or nothing if there is none.
LEMMA CancelProperties ==
  ASSUME NEW F, NEW A, NEW q \in Seq(Events(F, A)), NEW f
  PROVE  \/ /\ ~ Pending(q, f)
            /\ Cancel(q, f) = q
         \/ \E k \in 1..Len(q) : /\ q[k].fn = f /\ q[k].held
                                 /\ Cancel(q, f) = Without(q, k)
<1>1. DOMAIN q = 1..Len(q)
  BY LenProperties
<1>2. CASE Pending(q, f)
  <2>1. PICK k \in DOMAIN q :
          /\ k = CHOOSE i \in DOMAIN q : q[i].fn = f /\ q[i].held
          /\ q[k].fn = f /\ q[k].held
    BY <1>2 DEF Pending
  <2>2. QED BY <1>1, <1>2, <2>1 DEF Cancel
<1>3. CASE ~ Pending(q, f)
  BY <1>3 DEF Cancel
<1>4. QED BY <1>2, <1>3

\* A tick brings every event one tick closer, once none is due any more.
LEMMA ElapseProperties ==
  ASSUME NEW F, NEW A, NEW q \in Seq(Events(F, A)), Quiet(q)
  PROVE  /\ Elapse(q) \in Seq(Events(F, A))
         /\ Len(Elapse(q)) = Len(q)
         /\ \A i \in 1..Len(q) :
              /\ Elapse(q)[i].fn = q[i].fn
              /\ Elapse(q)[i].due = q[i].due - 1
              /\ Elapse(q)[i].arg = q[i].arg
              /\ Elapse(q)[i].held = q[i].held
<1>1. /\ DOMAIN q = 1..Len(q) /\ Len(q) \in Nat
      /\ \A i \in 1..Len(q) : q[i] \in Events(F, A)
  BY LenProperties, ElementOfSeq
<1>2. \A i \in 1..Len(q) :
        /\ Elapse(q)[i] \in Events(F, A)
        /\ Elapse(q)[i].fn = q[i].fn
        /\ Elapse(q)[i].due = q[i].due - 1
        /\ Elapse(q)[i].arg = q[i].arg
        /\ Elapse(q)[i].held = q[i].held
  BY <1>1 DEF Elapse, Events, Quiet
<1>3. Elapse(q) = [i \in 1..Len(q) |-> Elapse(q)[i]]
  BY <1>1 DEF Elapse
<1>4. QED BY <1>1, <1>2, <1>3, IsASeq

-----------------------------------------------------------------------------
(* The handlers. *)

\* The event list, as the handlers find and leave it.
OneDoSend(q) ==
  /\ q \in Seq(Event)
  /\ \A i, j \in 1..Len(q) : q[i].fn = "DoSend" /\ q[j].fn = "DoSend" => i = j
  /\ \A i \in 1..Len(q) : q[i].fn = "DoSend" => q[i].held
  /\ \A i \in 1..Len(q) : q[i].fn # "DoSend" => q[i].arg = None

NoTransmission(q) == \A i \in 1..Len(q) : q[i].fn # "DoSend"

Good(s) == s \in DeviceType /\ OneDoSend(s.events)

IInv == Good(ed)

\* A handler that leaves the packet under retransmission alone.
Calm(s, t) ==
  /\ Good(t)
  /\ t.packet = s.packet /\ t.waitingAck = s.waitingAck /\ t.report = s.report
  /\ NoTransmission(s.events) => NoTransmission(t.events)

\* A handler that may end the procedure: then no transmission is left, and
\* the packet that was waited for is reported.
Ended(s, t) ==
  /\ NoTransmission(t.events)
  /\ s.waitingAck => t.report.made /\ t.report.packet = s.packet

Keeps(s, t) ==
  /\ Good(t)
  /\ \/ t.packet = s.packet /\ t.waitingAck = s.waitingAck
     \/ Ended(s, t)

LEMMA CalmAfterKeeps ==
  ASSUME NEW s, NEW t, NEW u, Keeps(s, t), Calm(t, u)
  PROVE  Keeps(s, u)
BY DEF Keeps, Calm, Ended

LEMMA KeepsAfterCalm ==
  ASSUME NEW s, NEW t, NEW u, Calm(s, t), Keeps(t, u)
  PROVE  Keeps(s, u)
BY DEF Keeps, Calm, Ended

LEMMA CalmIsTransitive ==
  ASSUME NEW s, NEW t, NEW u, Calm(s, t), Calm(t, u)
  PROVE  Calm(s, u)
BY DEF Calm

LEMMA CalmKeeps ==
  ASSUME NEW s, NEW t, Calm(s, t)
  PROVE  Keeps(s, t)
BY DEF Keeps, Calm

-----------------------------------------------------------------------------
(* The event list *)

LEMMA EventIsEvents == Event = Events(Functions, MaybePacket)
BY DEF Event, Events

LEMMA WithoutKeeps ==
  ASSUME NEW q, OneDoSend(q), NEW k \in 1..Len(q)
  PROVE  /\ OneDoSend(Without(q, k))
         /\ NoTransmission(q) => NoTransmission(Without(q, k))
         /\ q[k].fn = "DoSend" => NoTransmission(Without(q, k))
<1> DEFINE r == Without(q, k)
           at(i) == IF i < k THEN i ELSE i + 1
<1>1. q \in Seq(Event) /\ Len(q) \in Nat
  BY LenProperties DEF OneDoSend
<1>2. /\ r \in Seq(Event)
      /\ Len(r) = Len(q) - 1
      /\ \A i \in 1..(Len(q) - 1) : r[i] = q[at(i)]
  BY <1>1, EventIsEvents, WithoutProperties
<1>3. \A i \in 1..Len(r) : at(i) \in 1..Len(q) /\ at(i) # k /\ r[i] = q[at(i)]
  BY <1>1, <1>2
<1>4. \A i, j \in 1..Len(r) : at(i) = at(j) => i = j
  BY <1>1, <1>2
<1> HIDE DEF r, at
<1>5. OneDoSend(r)
  BY <1>2, <1>3, <1>4 DEF OneDoSend
<1>6. NoTransmission(q) => NoTransmission(r)
  BY <1>3 DEF NoTransmission
<1>7. q[k].fn = "DoSend" => NoTransmission(r)
  BY <1>3 DEF NoTransmission, OneDoSend
<1>8. QED BY <1>5, <1>6, <1>7 DEF r

LEMMA CancelKeeps ==
  ASSUME NEW q, OneDoSend(q), NEW f
  PROVE  /\ OneDoSend(Cancel(q, f))
         /\ NoTransmission(q) => NoTransmission(Cancel(q, f))
<1>1. q \in Seq(Event)
  BY DEF OneDoSend
<1>2. QED BY <1>1, EventIsEvents, CancelProperties, WithoutKeeps

LEMMA CancelDoSend ==
  ASSUME NEW q, OneDoSend(q)
  PROVE  NoTransmission(Cancel(q, "DoSend"))
<1>1. q \in Seq(Event) /\ DOMAIN q = 1..Len(q)
  BY LenProperties DEF OneDoSend
<1>2. CASE ~ Pending(q, "DoSend")
  <2>1. Cancel(q, "DoSend") = q
    BY <1>2 DEF Cancel
  <2>2. NoTransmission(q)
    BY <1>1, <1>2 DEF Pending, OneDoSend, NoTransmission
  <2>3. QED BY <2>1, <2>2
<1>3. CASE Pending(q, "DoSend")
  <2>1. PICK k \in 1..Len(q) : q[k].fn = "DoSend" /\ Cancel(q, "DoSend") = Without(q, k)
    BY <1>1, <1>3, EventIsEvents, CancelProperties
  <2>2. QED BY <2>1, WithoutKeeps
<1>4. QED BY <1>2, <1>3

LEMMA ScheduleKeeps ==
  ASSUME NEW q, OneDoSend(q), NEW f \in Functions \ {"DoSend"}, NEW d \in Nat
  PROVE  /\ OneDoSend(Schedule(q, f, d, None))
         /\ NoTransmission(q) => NoTransmission(Schedule(q, f, d, None))
<1> DEFINE r == Schedule(q, f, d, None)
<1>1. q \in Seq(Event) /\ Len(q) \in Nat
  BY LenProperties DEF OneDoSend
<1>2. /\ r \in Seq(Event)
      /\ Len(r) = Len(q) + 1
      /\ \A i \in 1..Len(q) :
           r[i].fn = q[i].fn /\ r[i].arg = q[i].arg /\ r[i].held = (q[i].held /\ q[i].fn # f)
      /\ r[Len(q) + 1].fn = f /\ r[Len(q) + 1].arg = None
  <2>1. f \in Functions /\ None \in MaybePacket
    BY DEF MaybePacket
  <2>2. /\ r \in Seq(Events(Functions, MaybePacket))
        /\ Len(r) = Len(q) + 1
        /\ \A i \in 1..Len(q) :
             r[i].fn = q[i].fn /\ r[i].arg = q[i].arg /\ r[i].held = (q[i].held /\ q[i].fn # f)
        /\ r[Len(q) + 1] = [fn |-> f, due |-> d, held |-> TRUE, arg |-> None]
    BY <1>1, <2>1, EventIsEvents, ScheduleProperties
  <2>3. QED BY <2>2, EventIsEvents
<1>3. \A i \in 1..Len(r) : i \in 1..Len(q) \/ i = Len(q) + 1
  BY <1>1, <1>2
<1> HIDE DEF r
<1>4. OneDoSend(r)
  BY <1>2, <1>3 DEF OneDoSend
<1>5. NoTransmission(q) => NoTransmission(r)
  BY <1>2, <1>3 DEF NoTransmission
<1>6. QED BY <1>4, <1>5 DEF r

LEMMA ScheduleDoSend ==
  ASSUME NEW q, OneDoSend(q), NoTransmission(q),
         NEW d \in Nat, NEW p \in MaybePacket
  PROVE  OneDoSend(Schedule(q, "DoSend", d, p))
<1> DEFINE r == Schedule(q, "DoSend", d, p)
<1>1. q \in Seq(Event) /\ Len(q) \in Nat
  BY LenProperties DEF OneDoSend
<1>2. /\ r \in Seq(Event)
      /\ Len(r) = Len(q) + 1
      /\ \A i \in 1..Len(q) : r[i].fn = q[i].fn /\ r[i].arg = q[i].arg
      /\ r[Len(q) + 1].fn = "DoSend" /\ r[Len(q) + 1].held
  <2>1. "DoSend" \in Functions
    BY DEF Functions
  <2>2. /\ r \in Seq(Events(Functions, MaybePacket))
        /\ Len(r) = Len(q) + 1
        /\ \A i \in 1..Len(q) : r[i].fn = q[i].fn /\ r[i].arg = q[i].arg
        /\ r[Len(q) + 1] = [fn |-> "DoSend", due |-> d, held |-> TRUE, arg |-> p]
    BY <1>1, <2>1, EventIsEvents, ScheduleProperties
  <2>3. QED BY <2>2, EventIsEvents
<1>3. \A i \in 1..Len(r) : i \in 1..Len(q) \/ i = Len(q) + 1
  BY <1>1, <1>2
<1> HIDE DEF r
<1>4. OneDoSend(r)
  BY <1>2, <1>3 DEF OneDoSend, NoTransmission
<1>5. QED BY <1>4 DEF r

LEMMA ElapseKeeps ==
  ASSUME NEW q, OneDoSend(q), Quiet(q)
  PROVE  OneDoSend(Elapse(q))
<1>1. q \in Seq(Event)
  BY DEF OneDoSend
<1>2. /\ Elapse(q) \in Seq(Event)
      /\ Len(Elapse(q)) = Len(q)
      /\ \A i \in 1..Len(q) :
           /\ Elapse(q)[i].fn = q[i].fn
           /\ Elapse(q)[i].arg = q[i].arg
           /\ Elapse(q)[i].held = q[i].held
  BY <1>1, EventIsEvents, ElapseProperties
<1>3. QED BY <1>2 DEF OneDoSend

-----------------------------------------------------------------------------
(* Arithmetic and the duty cycle *)

LEMMA OffTimeIsNat ==
  ASSUME NEW b \in SubBands, NEW d \in AirTimes
  PROVE  OffTime(b, d) \in Nat
<1>1. d \in Nat /\ DutyDiv[b] \in Nat /\ DutyDiv[b] >= 1
  BY TimesAssumption, RadioAssumption
<1> DEFINE n == DutyDiv[b]
<1>2. d * n \in Nat /\ d * n >= d
  <2> HIDE DEF n
  <2>1. n \in Nat /\ n >= 1
    BY <1>1 DEF n
  <2>2. PICK m \in Nat : n = m + 1
    BY <2>1
  <2>3. d * (m + 1) = d * m + d /\ d * m \in Nat
    BY <1>1, <2>2
  <2>4. QED BY <1>1, <2>2, <2>3
<1>3. QED BY <1>1, <1>2 DEF OffTime

\* The order of the naturals, as a set of pairs.
Below == {ss \in Nat \X Nat : ss[1] < ss[2]}

LEMMA BelowIsWellFounded == IsWellFoundedOn(Below, Nat)
BY NatLessThanWellFounded, Zenon DEF OpToRel, Below

LEMMA DutyCycleDelayIsNat ==
  ASSUME NEW s \in DeviceType
  PROVE  DutyCycleDelay(s) \in Nat
<1> DEFINE W == {s.wait[b] : b \in SubBands}
<1>1. W \subseteq Nat /\ W # {}
  BY RadioAssumption DEF DeviceType, WaitingTimes
<1>2. \E w \in W : \A v \in W : ~ (<<v, w>> \in Below)
  <2> HIDE DEF W
  <2>1. QED BY <1>1, WFMin, BelowIsWellFounded
<1>3. \E w \in W : \A v \in W : w <= v
  <2> HIDE DEF W
  <2>1. \A v, w \in Nat : v < w => <<v, w>> \in Below
    BY DEF Below
  <2>2. PICK w \in W : \A v \in W : ~ (<<v, w>> \in Below)
    BY <1>2
  <2>3. \A v \in W : ~ (v < w)
    BY <1>1, <2>1, <2>2, Zenon
  <2>4. \A v \in W : w <= v
    BY <1>1, <2>3
  <2>5. QED BY <2>4
<1>4. \E w \in W : \A b \in SubBands : w <= s.wait[b]
  <2>1. \A b \in SubBands : s.wait[b] \in W
    OBVIOUS
  <2> HIDE DEF W
  <2>2. QED BY <1>3, <2>1
<1>5. DutyCycleDelay(s) = CHOOSE w \in W : \A b \in SubBands : w <= s.wait[b]
  BY DEF DutyCycleDelay
<1>6. DutyCycleDelay(s) \in W
  <2> HIDE DEF W
  <2>1. QED BY <1>4, <1>5, Zenon
<1>7. QED BY <1>1, <1>6

LEMMA DelayIsNat ==
  ASSUME NEW s \in DeviceType, NEW delay \in GetNextTransmissionDelay(s)
  PROVE  delay \in Nat
BY DutyCycleDelayIsNat, TimesAssumption
   DEF GetNextTransmissionDelay, Later, DeviceType

-----------------------------------------------------------------------------
(* The handlers *)

LEMMA AbortIsCalm ==
  ASSUME NEW s, Good(s), NEW why \in Aborts
  PROVE  Calm(s, Abort(s, why))
BY DEF Good, Calm, DeviceType, Abort

LEMMA SwitchToStandbyIsCalm ==
  ASSUME NEW s, Good(s)
  PROVE  Calm(s, SwitchToStandby(s))
BY DEF Good, Calm, DeviceType, SwitchToStandby, PhyStates

LEMMA SwitchToSleepIsCalm ==
  ASSUME NEW s, Good(s)
  PROVE  Calm(s, SwitchToSleep(s))
<1>1. CASE s.state = "STANDBY"
  BY <1>1 DEF Good, Calm, DeviceType, SwitchToSleep, PhyStates
<1>2. CASE s.state # "STANDBY"
  <2>1. "SwitchToSleep" \in Aborts
    BY DEF Aborts
  <2>2. QED BY <1>2, <2>1, AbortIsCalm DEF SwitchToSleep
<1>3. QED BY <1>1, <1>2

\* A device whose list alone changes, to one that is as good.
LEMMA EventsAreCalm ==
  ASSUME NEW s, Good(s), NEW q, OneDoSend(q),
         NoTransmission(s.events) => NoTransmission(q)
  PROVE  Calm(s, [s EXCEPT !.events = q])
BY DEF Good, Calm, DeviceType, OneDoSend

LEMMA SchedulingIsCalm ==
  ASSUME NEW s, Good(s), NEW f \in Functions \ {"DoSend"}, NEW d \in Nat
  PROVE  Calm(s, [s EXCEPT !.events = Schedule(@, f, d, None)])
BY ScheduleKeeps, EventsAreCalm DEF Good

LEMMA PhySendIsCalm ==
  ASSUME NEW s, Good(s), NEW d \in Nat
  PROVE  Calm(s, PhySend(s, d))
<1>1. CASE s.state \notin {"STANDBY", "SLEEP"}
  BY <1>1 DEF PhySend, Calm, Good
<1>2. CASE s.state \in {"STANDBY", "SLEEP"}
  <2> DEFINE q1 == Schedule(s.events, "SwitchToStandby", d, None)
             q2 == Schedule(q1, "TxFinished", d, None)
  <2>1. /\ "SwitchToStandby" \in Functions \ {"DoSend"}
        /\ "TxFinished" \in Functions \ {"DoSend"}
    BY DEF Functions
  <2>2. /\ OneDoSend(q1)
        /\ NoTransmission(s.events) => NoTransmission(q1)
    BY <2>1, ScheduleKeeps DEF Good
  <2>3. /\ OneDoSend(q2)
        /\ NoTransmission(s.events) => NoTransmission(q2)
    <3> HIDE DEF q1
    <3>1. QED BY <2>1, <2>2, ScheduleKeeps
  <2>4. PhySend(s, d) = [s EXCEPT !.state = "TX", !.onAir = @ + 1, !.events = q2]
    BY <1>2 DEF PhySend
  <2> HIDE DEF q1, q2
  <2>5. q2 \in Seq(Event)
    BY <2>3 DEF OneDoSend
  <2> DEFINE t == [s EXCEPT !.state = "TX", !.onAir = @ + 1, !.events = q2]
  <2>6. t \in DeviceType
    <3>1. s \in DeviceType /\ "TX" \in PhyStates
      BY DEF Good, PhyStates
    <3>2. s.onAir + 1 \in Nat
      BY <3>1 DEF DeviceType
    <3>3. QED BY <2>5, <3>1, <3>2 DEF DeviceType
  <2>7. /\ t.events = q2 /\ t.packet = s.packet
        /\ t.waitingAck = s.waitingAck /\ t.report = s.report
    BY DEF Good, DeviceType
  <2> HIDE DEF t
  <2>8. Calm(s, t)
    BY <2>3, <2>6, <2>7 DEF Good, Calm
  <2>9. QED BY <2>4, <2>8 DEF t
<1>3. QED BY <1>1, <1>2

LEMMA SendToPhyIsCalm ==
  ASSUME NEW s, Good(s), NEW t \in SendToPhy(s)
  PROVE  Calm(s, t)
<1>1. CASE FreeSubBands(s) = {}
  <2>1. "GetChannelForTx" \in Aborts
    BY DEF Aborts
  <2>2. QED BY <1>1, <2>1, AbortIsCalm DEF SendToPhy
<1>2. CASE FreeSubBands(s) # {}
  <2>1. PICK b \in FreeSubBands(s), d \in AirTimes :
          t = [PhySend(s, d) EXCEPT !.wait[b] = OffTime(b, d)]
    BY <1>2 DEF SendToPhy
  <2>2. b \in SubBands /\ d \in Nat
    BY TimesAssumption DEF FreeSubBands
  <2>3. OffTime(b, d) \in Nat
    BY <2>2, OffTimeIsNat
  <2>4. Calm(s, PhySend(s, d))
    BY <2>2, PhySendIsCalm
  <2> DEFINE u == PhySend(s, d)
  <2>5. Calm(s, u) /\ t = [u EXCEPT !.wait[b] = OffTime(b, d)]
    BY <2>1, <2>4
  <2> HIDE DEF u
  <2>6. u \in DeviceType
    BY <2>5 DEF Calm, Good
  <2>7. [u.wait EXCEPT ![b] = OffTime(b, d)] \in WaitingTimes
    <3>1. u.wait \in WaitingTimes
      BY <2>6 DEF DeviceType
    <3>2. QED BY <2>2, <2>3, <3>1 DEF WaitingTimes
  <2> DEFINE w == [u.wait EXCEPT ![b] = OffTime(b, d)]
  <2>8. t = [u EXCEPT !.wait = w] /\ w \in WaitingTimes
    BY <2>5, <2>7
  <2> HIDE DEF w
  <2>9. Calm(u, t)
    BY <2>5, <2>6, <2>8 DEF Calm, Good, DeviceType
  <2>10. QED BY <2>5, <2>9, CalmIsTransitive
<1>3. QED BY <1>1, <1>2

LEMMA ByteRange ==
  ASSUME NEW n \in Int
  PROVE  n % 256 \in Byte
BY DEF Byte

\* Reporting a packet and resetting the procedure end it.
LEMMA ReportProperties ==
  ASSUME NEW s, Good(s), NEW ok \in BOOLEAN
  PROVE  /\ Good(Report(s, ok))
         /\ Report(s, ok).packet = s.packet
         /\ Report(s, ok).waitingAck = s.waitingAck
         /\ Report(s, ok).events = s.events
         /\ Report(s, ok).report.made
         /\ Report(s, ok).report.packet = s.packet
<1>1. s \in DeviceType
  BY DEF Good
<1>2. (MaxNumbTx - s.retxLeft) % 256 \in Byte
  <2>1. s.retxLeft \in Byte /\ MaxNumbTx \in 1..255
    BY <1>1, RadioAssumption DEF DeviceType
  <2>2. MaxNumbTx - s.retxLeft \in Int
    BY <2>1 DEF Byte
  <2>3. QED BY <2>2, ByteRange
<1> DEFINE r == [txs |-> (MaxNumbTx - s.retxLeft) % 256, ok |-> ok,
                 packet |-> s.packet, made |-> TRUE]
<1>3. r \in Reports
  <2>1. s.packet \in MaybePacket
    BY <1>1 DEF DeviceType
  <2>2. QED BY <1>2, <2>1 DEF Reports
<1>4. r.made /\ r.packet = s.packet
  OBVIOUS
<1>5. Report(s, ok) = [s EXCEPT !.report = r]
  BY DEF Report
<1> HIDE DEF r
<1>6. Report(s, ok) \in DeviceType
  BY <1>1, <1>3, <1>5 DEF DeviceType
<1>7. QED BY <1>1, <1>4, <1>5, <1>6 DEF Good, DeviceType

LEMMA ResetProperties ==
  ASSUME NEW s, Good(s)
  PROVE  LET t == resetRetransmissionParameters(s)
         IN  /\ Good(t)
             /\ NoTransmission(t.events)
             /\ t.packet = None /\ t.report = s.report
<1> DEFINE q == Cancel(s.events, "DoSend")
<1>1. s \in DeviceType /\ OneDoSend(s.events)
  BY DEF Good
<1>2. OneDoSend(q) /\ NoTransmission(q)
  BY <1>1, CancelKeeps, CancelDoSend
<1>3. resetRetransmissionParameters(s)
        = [s EXCEPT !.waitingAck = FALSE, !.retxLeft = MaxNumbTx, !.packet = None, !.events = q]
  BY DEF resetRetransmissionParameters
<1>4. q \in Seq(Event) /\ MaxNumbTx \in Byte /\ None \in MaybePacket
  BY <1>2, RadioAssumption DEF OneDoSend, Byte, MaybePacket
<1> HIDE DEF q
<1>5. resetRetransmissionParameters(s) \in DeviceType
  BY <1>1, <1>3, <1>4 DEF DeviceType
<1>6. QED BY <1>1, <1>2, <1>3, <1>5 DEF Good, DeviceType

LEMMA ReportAndResetKeeps ==
  ASSUME NEW s, Good(s), NEW ok \in BOOLEAN
  PROVE  Keeps(s, resetRetransmissionParameters(Report(s, ok)))
<1>1. Good(Report(s, ok)) /\ Report(s, ok).report.made /\ Report(s, ok).report.packet = s.packet
  BY ReportProperties
<1>2. QED BY <1>1, ResetProperties DEF Keeps, Ended

LEMMA DoSendKeeps ==
  ASSUME NEW s, Good(s), NEW p \in MaybePacket, NEW t \in DoSend(s, p)
  PROVE  Keeps(s, t)
<1>1. CASE p # s.packet
  <2> DEFINE old == IF s.waitingAck THEN Report(s, FALSE) ELSE s
             reset == resetRetransmissionParameters(old)
             new == [reset EXCEPT !.onAir = 0]
             ready == IF Confirmed
                      THEN [new EXCEPT !.packet = p, !.waitingAck = TRUE,
                                       !.retxLeft = MaxNumbTx - 1]
                      ELSE new
  <2>1. /\ Good(old)
        /\ s.waitingAck => old.report.made /\ old.report.packet = s.packet
    BY ReportProperties
  <2> HIDE DEF old
  <2>2. /\ Good(reset) /\ NoTransmission(reset.events) /\ reset.report = old.report
    BY <2>1, ResetProperties
  <2> HIDE DEF reset
  <2>3. /\ Good(new) /\ NoTransmission(new.events) /\ new.report = old.report
    BY <2>2 DEF Good, DeviceType
  <2> HIDE DEF new
  <2>4. /\ Good(ready) /\ NoTransmission(ready.events) /\ ready.report = old.report
    <3>1. MaxNumbTx - 1 \in Byte
      BY RadioAssumption DEF Byte
    <3>2. QED BY <2>3, <3>1 DEF Good, DeviceType
  <2>5. t \in SendToPhy(ready)
    BY <1>1 DEF DoSend, old, reset, new
  <2> HIDE DEF ready
  <2>6. Calm(ready, t)
    BY <2>4, <2>5, SendToPhyIsCalm
  <2>7. QED BY <2>1, <2>4, <2>6 DEF Keeps, Calm, Ended
<1>2. CASE p = s.packet /\ s.waitingAck
  <2> DEFINE r == [s EXCEPT !.retxLeft = (@ - 1) % 256]
  <2>1. (s.retxLeft - 1) % 256 \in Byte
    <3>1. s.retxLeft \in Byte
      BY DEF Good, DeviceType
    <3>2. s.retxLeft - 1 \in Int
      BY <3>1 DEF Byte
    <3>3. QED BY <3>2, ByteRange
  <2>2. Calm(s, r)
    BY <2>1 DEF Good, DeviceType, Calm
  <2>3. t \in SendToPhy(r)
    BY <1>2 DEF DoSend
  <2> HIDE DEF r
  <2>4. Calm(r, t)
    BY <2>2, <2>3, SendToPhyIsCalm DEF Calm
  <2>5. QED BY <2>2, <2>4, CalmIsTransitive, CalmKeeps
<1>3. CASE p = s.packet /\ ~ s.waitingAck
  BY <1>3 DEF DoSend, Keeps
<1>4. QED BY <1>1, <1>2, <1>3

LEMMA PostponeKeeps ==
  ASSUME NEW s, Good(s), NEW delay \in Nat, NEW p \in MaybePacket
  PROVE  Keeps(s, postponeTransmission(s, delay, p))
<1> DEFINE q == Schedule(Cancel(s.events, "DoSend"), "DoSend", delay, p)
<1>1. OneDoSend(Cancel(s.events, "DoSend")) /\ NoTransmission(Cancel(s.events, "DoSend"))
  BY CancelKeeps, CancelDoSend DEF Good
<1>2. OneDoSend(q)
  BY <1>1, ScheduleDoSend
<1>3. postponeTransmission(s, delay, p) = [s EXCEPT !.events = q]
  BY DEF postponeTransmission
<1> HIDE DEF q
<1>4. q \in Seq(Event)
  BY <1>2 DEF OneDoSend
<1>5. QED BY <1>2, <1>3, <1>4 DEF Good, Keeps, DeviceType

LEMMA SendKeeps ==
  ASSUME NEW s, Good(s), NEW p \in MaybePacket, NEW t \in Send(s, p)
  PROVE  Keeps(s, t)
<1>1. CASE TooLarge(s, p)
  BY <1>1 DEF Send, Keeps
<1>2. CASE ~ TooLarge(s, p)
  <2>1. PICK delay \in GetNextTransmissionDelay(s) : t \in SendWithDelay(s, p, delay)
    BY <1>2 DEF Send
  <2>2. delay \in Nat
    BY DelayIsNat DEF Good
  <2>3. CASE delay # 0
    BY <2>1, <2>2, <2>3, PostponeKeeps DEF SendWithDelay
  <2>4. CASE delay = 0 /\ s.retxLeft > 0
    BY <2>1, <2>4, DoSendKeeps DEF SendWithDelay
  <2>5. CASE delay = 0 /\ ~ (s.retxLeft > 0)
    BY <2>1, <2>5 DEF SendWithDelay, Keeps
  <2>6. QED BY <2>3, <2>4, <2>5
<1>3. QED BY <1>1, <1>2

LEMMA RetransmitOrFailKeeps ==
  ASSUME NEW s, Good(s), NEW t \in RetransmitOrFail(s)
  PROVE  Keeps(s, t)
<1>1. CASE s.retxLeft > 0
  <2>1. t \in Send(s, s.packet) /\ s.packet \in MaybePacket
    BY <1>1 DEF RetransmitOrFail, Good, DeviceType
  <2>2. QED BY <2>1, SendKeeps
<1>2. CASE ~ (s.retxLeft > 0)
  BY <1>2, ReportAndResetKeeps DEF RetransmitOrFail
<1>3. QED BY <1>1, <1>2

LEMMA FailedReceptionKeeps ==
  ASSUME NEW s, Good(s), NEW t \in FailedReception(s)
  PROVE  Keeps(s, t)
<1> DEFINE asleep == SwitchToSleep(s)
<1>1. Calm(s, asleep)
  BY SwitchToSleepIsCalm
<1>2. t \in RetransmitOrFail(asleep) \/ t = asleep
  BY DEF FailedReception
<1> HIDE DEF asleep
<1>3. CASE t \in RetransmitOrFail(asleep)
  BY <1>1, <1>3, RetransmitOrFailKeeps, KeepsAfterCalm DEF Calm
<1>4. CASE t = asleep
  BY <1>1, <1>4, CalmKeeps
<1>5. QED BY <1>2, <1>3, <1>4

LEMMA ReceiveForUsKeeps ==
  ASSUME NEW s, Good(s), NEW ack \in BOOLEAN, NEW t \in ReceiveForUs(s, ack)
  PROVE  Keeps(s, t)
<1> DEFINE q == Cancel(s.events, "OpenSecondReceiveWindow")
           u == [s EXCEPT !.events = q]
           v == ParseAck(u, ack)
<1>1. OneDoSend(q) /\ (NoTransmission(s.events) => NoTransmission(q))
  BY CancelKeeps DEF Good
<1>2. Calm(s, u)
  <2> HIDE DEF q
  <2>1. QED BY <1>1, EventsAreCalm
<1>3. t = SwitchToSleep(v)
  BY DEF ReceiveForUs
<1> HIDE DEF u
<1>4. Keeps(u, v)
  <2>1. Good(u)
    BY <1>2 DEF Calm
  <2>2. CASE u.waitingAck /\ ack
    BY <2>1, <2>2, ReportAndResetKeeps DEF ParseAck
  <2>3. CASE ~ (u.waitingAck /\ ack)
    BY <2>1, <2>3 DEF ParseAck, Keeps
  <2>4. QED BY <2>2, <2>3
<1> HIDE DEF v
<1>5. Keeps(s, v)
  BY <1>2, <1>4, KeepsAfterCalm
<1>6. Calm(v, t)
  BY <1>3, <1>5, SwitchToSleepIsCalm DEF Keeps
<1>7. QED BY <1>5, <1>6, CalmAfterKeeps

LEMMA ReceiveForOthersKeeps ==
  ASSUME NEW s, Good(s), NEW t \in ReceiveForOthers(s)
  PROVE  Keeps(s, t)
<1>1. PICK u \in IF LastWindowUsed(s) THEN RetransmitOrFail(s) ELSE {s} : t = SwitchToSleep(u)
  BY DEF ReceiveForOthers
<1>2. Keeps(s, u)
  BY <1>1, RetransmitOrFailKeeps DEF Keeps
<1>3. Calm(u, t)
  BY <1>1, <1>2, SwitchToSleepIsCalm DEF Keeps
<1>4. QED BY <1>2, <1>3, CalmAfterKeeps

LEMMA EndReceiveKeeps ==
  ASSUME NEW s, Good(s), NEW outcome, NEW t \in EndReceive(s, outcome)
  PROVE  Keeps(s, t)
<1> DEFINE up == SwitchToStandby(s)
<1>1. Calm(s, up) /\ Good(up)
  BY SwitchToStandbyIsCalm DEF Calm
<1>2. \/ t \in FailedReception(up)
      \/ t \in ReceiveForUs(up, TRUE)
      \/ t \in ReceiveForUs(up, FALSE)
      \/ t \in ReceiveForOthers(up)
  BY DEF EndReceive
<1> HIDE DEF up
<1>3. Keeps(up, t)
  BY <1>1, <1>2, FailedReceptionKeeps, ReceiveForUsKeeps, ReceiveForOthersKeeps
<1>4. QED BY <1>1, <1>3, KeepsAfterCalm

LEMMA TxFinishedIsCalm ==
  ASSUME NEW s, Good(s)
  PROVE  Calm(s, TxFinished(s))
<1> DEFINE q1 == Schedule(s.events, "OpenFirstReceiveWindow", ReceiveDelay1, None)
           q2 == Schedule(q1, "OpenSecondReceiveWindow", ReceiveDelay2, None)
           u == [s EXCEPT !.events = q2, !.secondTs = ReceiveDelay2]
<1>1. /\ "OpenFirstReceiveWindow" \in Functions \ {"DoSend"}
      /\ "OpenSecondReceiveWindow" \in Functions \ {"DoSend"}
      /\ ReceiveDelay1 \in Nat /\ ReceiveDelay2 \in Nat
  BY TimesAssumption DEF Functions
<1>2. OneDoSend(q1) /\ (NoTransmission(s.events) => NoTransmission(q1))
  BY <1>1, ScheduleKeeps DEF Good
<1>3. OneDoSend(q2) /\ (NoTransmission(s.events) => NoTransmission(q2))
  <2> HIDE DEF q1
  <2>1. QED BY <1>1, <1>2, ScheduleKeeps
<1>4. TxFinished(s) = SwitchToSleep(u)
  BY DEF TxFinished
<1>5. Calm(s, u)
  <2> HIDE DEF q2
  <2>1. q2 \in Seq(Event)
    BY <1>3 DEF OneDoSend
  <2>2. ReceiveDelay2 \in Int
    BY <1>1
  <2>3. u \in DeviceType
    BY <2>1, <2>2 DEF Good, DeviceType
  <2>4. /\ u.events = q2 /\ u.packet = s.packet
        /\ u.waitingAck = s.waitingAck /\ u.report = s.report
    BY DEF Good, DeviceType
  <2> HIDE DEF u
  <2>5. QED BY <1>3, <2>3, <2>4 DEF Good, Calm
<1> HIDE DEF u
<1>6. Calm(u, SwitchToSleep(u))
  BY <1>5, SwitchToSleepIsCalm DEF Calm
<1>7. QED BY <1>4, <1>5, <1>6, CalmIsTransitive

\* Both windows open the same way: the radio wakes up and the closing of the
\* window is scheduled.
LEMMA OpeningIsCalm ==
  ASSUME NEW s, Good(s), NEW f \in Functions \ {"DoSend"}, NEW d \in Nat
  PROVE  Calm(s, [SwitchToStandby(s) EXCEPT !.events = Schedule(@, f, d, None)])
<1> DEFINE u == SwitchToStandby(s)
<1>1. Calm(s, u)
  BY SwitchToStandbyIsCalm
<1> HIDE DEF u
<1>2. Calm(u, [u EXCEPT !.events = Schedule(@, f, d, None)])
  BY <1>1, SchedulingIsCalm DEF Calm
<1>3. Calm(s, [u EXCEPT !.events = Schedule(@, f, d, None)])
  BY <1>1, <1>2, CalmIsTransitive
<1>4. QED BY <1>3 DEF u

LEMMA OpenFirstIsCalm ==
  ASSUME NEW s, Good(s)
  PROVE  Calm(s, OpenFirstReceiveWindow(s))
<1>1. "CloseFirstReceiveWindow" \in Functions \ {"DoSend"} /\ Window1 \in Nat
  BY TimesAssumption DEF Functions
<1>2. QED BY <1>1, OpeningIsCalm DEF OpenFirstReceiveWindow

LEMMA OpenSecondIsCalm ==
  ASSUME NEW s, Good(s)
  PROVE  Calm(s, OpenSecondReceiveWindow(s))
<1>1. "CloseSecondReceiveWindow" \in Functions \ {"DoSend"} /\ Window2 \in Nat
  BY TimesAssumption DEF Functions
<1>2. CASE s.state = "RX"
  BY <1>2 DEF OpenSecondReceiveWindow, Calm
<1>3. CASE s.state # "RX"
  BY <1>1, <1>3, OpeningIsCalm DEF OpenSecondReceiveWindow
<1>4. QED BY <1>2, <1>3

LEMMA CloseFirstIsCalm ==
  ASSUME NEW s, Good(s)
  PROVE  Calm(s, CloseFirstReceiveWindow(s))
<1>1. CASE s.state = "TX"
  <2>1. "CloseFirstReceiveWindow" \in Aborts
    BY DEF Aborts
  <2>2. QED BY <1>1, <2>1, AbortIsCalm DEF CloseFirstReceiveWindow
<1>2. CASE s.state = "STANDBY"
  BY <1>2, SwitchToSleepIsCalm DEF CloseFirstReceiveWindow
<1>3. CASE s.state \notin {"TX", "STANDBY"}
  BY <1>3 DEF CloseFirstReceiveWindow, Calm
<1>4. QED BY <1>1, <1>2, <1>3

LEMMA CloseSecondKeeps ==
  ASSUME NEW s, Good(s), NEW t \in CloseSecondReceiveWindow(s)
  PROVE  Keeps(s, t)
<1> DEFINE closed == IF s.state = "STANDBY" THEN SwitchToSleep(s) ELSE s
<1>1. Calm(s, closed)
  BY SwitchToSleepIsCalm DEF Calm
<1>2. \/ t = s
      \/ t \in RetransmitOrFail(closed)
      \/ t = resetRetransmissionParameters(Report(closed, TRUE))
  BY DEF CloseSecondReceiveWindow
<1> HIDE DEF closed
<1>3. Good(closed)
  BY <1>1 DEF Calm
<1>4. CASE t = s
  BY <1>4 DEF Keeps
<1>5. CASE t \in RetransmitOrFail(closed)
  BY <1>1, <1>3, <1>5, RetransmitOrFailKeeps, KeepsAfterCalm
<1>6. CASE t = resetRetransmissionParameters(Report(closed, TRUE))
  <2>1. Keeps(closed, t)
    BY <1>3, <1>6, ReportAndResetKeeps
  <2>2. QED BY <1>1, <2>1, KeepsAfterCalm
<1>7. QED BY <1>2, <1>4, <1>5, <1>6

-----------------------------------------------------------------------------
(* The steps *)

LEMMA ClearReport ==
  ASSUME NEW s, Good(s)
  PROVE  LET u == [s EXCEPT !.report = NoReport]
         IN  Good(u) /\ u.packet = s.packet /\ u.waitingAck = s.waitingAck
<1>1. NoReport \in Reports
  BY DEF NoReport, Reports, Byte, MaybePacket
<1>2. QED BY <1>1 DEF Good, DeviceType

LEMMA PoppedIsGood ==
  ASSUME IInv, NEW i \in DOMAIN ed.events
  PROVE  Good(Popped(i)) /\ Popped(i).packet = ed.packet /\ Popped(i).waitingAck = ed.waitingAck
<1>1. ed.events \in Seq(Event) /\ i \in 1..Len(ed.events) /\ OneDoSend(ed.events)
  BY LenProperties DEF IInv, Good, OneDoSend
<1> DEFINE q == Without(ed.events, i)
           u == [ed EXCEPT !.events = q]
<1>2. OneDoSend(q)
  BY <1>1, WithoutKeeps
<1>3. Popped(i) = [u EXCEPT !.report = NoReport]
  BY DEF Popped, IInv, Good, DeviceType
<1> HIDE DEF q
<1>4. q \in Seq(Event)
  BY <1>2 DEF OneDoSend
<1>5. Good(u) /\ u.packet = ed.packet /\ u.waitingAck = ed.waitingAck
  BY <1>2, <1>4 DEF IInv, Good, DeviceType
<1> HIDE DEF u
<1>6. QED BY <1>3, <1>5, ClearReport

\* Every step keeps the invariant and ends the procedure of a packet only
\* with its report, and with no transmission left.
LEMMA StepKeeps ==
  ASSUME IInv, Next
  PROVE  Keeps(ed, ed')
<1>1. ASSUME NEW i \in DOMAIN ed.events,
             \/ RunSwitchToStandby(i) \/ RunTxFinished(i) \/ RunOpenFirst(i)
             \/ RunCloseFirst(i) \/ RunOpenSecond(i) \/ RunCloseSecond(i)
             \/ RunDoSend(i) \/ RunEndReceive(i)
      PROVE  Keeps(ed, ed')
  <2> DEFINE u == Popped(i)
  <2>1. Good(u) /\ u.packet = ed.packet /\ u.waitingAck = ed.waitingAck
    BY PoppedIsGood
  <2>2. ed.events[i].arg \in MaybePacket
    <3>1. ed.events \in Seq(Event) /\ i \in 1..Len(ed.events)
      BY <1>1, LenProperties DEF IInv, Good, DeviceType
    <3>2. ed.events[i] \in Event
      BY <3>1, ElementOfSeq
    <3>3. QED BY <3>2 DEF Event
  <2> SUFFICES Keeps(u, ed')
    BY <2>1 DEF Keeps, Ended
  <2>3. CASE RunSwitchToStandby(i)
    <3>1. ed' = SwitchToStandby(u)
      BY <2>3 DEF RunSwitchToStandby
    <3> HIDE DEF u
    <3>2. QED BY <2>1, <3>1, SwitchToStandbyIsCalm, CalmKeeps
  <2>4. CASE RunTxFinished(i)
    <3>1. ed' = TxFinished(u)
      BY <2>4 DEF RunTxFinished
    <3> HIDE DEF u
    <3>2. QED BY <2>1, <3>1, TxFinishedIsCalm, CalmKeeps
  <2>5. CASE RunOpenFirst(i)
    <3>1. ed' = OpenFirstReceiveWindow(u)
      BY <2>5 DEF RunOpenFirst
    <3> HIDE DEF u
    <3>2. QED BY <2>1, <3>1, OpenFirstIsCalm, CalmKeeps
  <2>6. CASE RunCloseFirst(i)
    <3>1. ed' = CloseFirstReceiveWindow(u)
      BY <2>6 DEF RunCloseFirst
    <3> HIDE DEF u
    <3>2. QED BY <2>1, <3>1, CloseFirstIsCalm, CalmKeeps
  <2>7. CASE RunOpenSecond(i)
    <3>1. ed' = OpenSecondReceiveWindow(u)
      BY <2>7 DEF RunOpenSecond
    <3> HIDE DEF u
    <3>2. QED BY <2>1, <3>1, OpenSecondIsCalm, CalmKeeps
  <2>8. CASE RunCloseSecond(i)
    <3>1. ed' \in CloseSecondReceiveWindow(u)
      BY <2>8 DEF RunCloseSecond
    <3> HIDE DEF u
    <3>2. QED BY <2>1, <3>1, CloseSecondKeeps
  <2>9. CASE RunDoSend(i)
    <3>1. ed' \in DoSend(u, ed.events[i].arg)
      BY <2>9 DEF RunDoSend
    <3> HIDE DEF u
    <3>2. QED BY <2>1, <2>2, <3>1, DoSendKeeps
  <2>10. CASE RunEndReceive(i)
    <3>1. PICK outcome \in Outcomes : ed' \in EndReceive(u, outcome)
      BY <2>10 DEF RunEndReceive
    <3> HIDE DEF u
    <3>2. QED BY <2>1, <3>1, EndReceiveKeeps
  <2>11. QED
    BY <1>1, <2>3, <2>4, <2>5, <2>6, <2>7, <2>8, <2>9, <2>10
<1> DEFINE c == [ed EXCEPT !.report = NoReport]
<1>2. Good(c) /\ c.packet = ed.packet /\ c.waitingAck = ed.waitingAck
  BY ClearReport DEF IInv
<1>3. ASSUME NEW p \in Packets, AppSend(p)
      PROVE  Keeps(ed, ed')
  <2>1. ed' \in Send(c, p) /\ p \in MaybePacket
    BY <1>3 DEF AppSend, MaybePacket
  <2> HIDE DEF c
  <2>2. Keeps(c, ed')
    BY <1>2, <2>1, SendKeeps
  <2>3. QED BY <1>2, <2>2 DEF Keeps, Ended
<1>4. ASSUME NEW d \in RxTimes, StartReceive(d)
      PROVE  Keeps(ed, ed')
  <2> DEFINE q == Schedule(ed.events, "EndReceive", d, None)
  <2>1. "EndReceive" \in Functions \ {"DoSend"} /\ d \in Nat
    BY TimesAssumption DEF Functions
  <2>2. OneDoSend(q)
    BY <2>1, ScheduleKeeps DEF IInv, Good
  <2>3. ed' = [c EXCEPT !.state = "RX", !.events = q]
    BY <1>4 DEF StartReceive, IInv, Good, DeviceType
  <2> HIDE DEF q, c
  <2>4. q \in Seq(Event) /\ "RX" \in PhyStates
    BY <2>2 DEF OneDoSend, PhyStates
  <2>5. ed' \in DeviceType
    BY <1>2, <2>3, <2>4 DEF Good, DeviceType
  <2>6. ed'.events = q /\ ed'.packet = c.packet /\ ed'.waitingAck = c.waitingAck
    BY <1>2, <2>3 DEF Good, DeviceType
  <2>7. QED BY <1>2, <2>2, <2>5, <2>6 DEF Keeps, Good
<1>5. CASE Tick
  <2> DEFINE q == Elapse(ed.events)
             w == [b \in SubBands |-> Later(ed.wait[b] - 1, 0)]
             n == Later(ed.secondTs - 1, 0 - TsFloor)
  <2>1. OneDoSend(q)
    BY <1>5, ElapseKeeps DEF Tick, OneTickLater, IInv, Good
  <2>2. w \in WaitingTimes
    BY DEF IInv, Good, DeviceType, Later, WaitingTimes
  <2>3. n \in Int
    BY TimesAssumption DEF IInv, Good, DeviceType, Later
  <2>4. ed' = [c EXCEPT !.events = q, !.wait = w, !.secondTs = n]
    BY <1>5 DEF Tick, OneTickLater, IInv, Good, DeviceType
  <2> HIDE DEF q, w, n, c
  <2>5. q \in Seq(Event)
    BY <2>1 DEF OneDoSend
  <2>6. ed' \in DeviceType
    BY <1>2, <2>2, <2>3, <2>4, <2>5 DEF Good, DeviceType
  <2>7. ed'.events = q /\ ed'.packet = c.packet /\ ed'.waitingAck = c.waitingAck
    BY <1>2, <2>4 DEF Good, DeviceType
  <2>8. QED BY <1>2, <2>1, <2>6, <2>7 DEF Keeps, Good
<1>6. QED
  BY <1>1, <1>3, <1>4, <1>5 DEF Next, RunEvent

LEMMA InitIsGood == Init => IInv
<1> SUFFICES ASSUME Init PROVE IInv
  OBVIOUS
<1>1. <<>> \in Seq(Event) /\ Len(<<>>) = 0
  BY EmptySeq
<1>2. MaxNumbTx \in Byte /\ None \in MaybePacket
  BY RadioAssumption DEF Byte, MaybePacket
<1>3. NoReport \in Reports
  BY DEF NoReport, Reports, Byte, MaybePacket
<1>4. [b \in SubBands |-> 0] \in WaitingTimes
  BY DEF WaitingTimes
<1>5. InitialDevice \in DeviceType
  BY <1>1, <1>2, <1>3, <1>4 DEF InitialDevice, DeviceType, PhyStates, Aborts
<1>6. InitialDevice.events = <<>>
  BY DEF InitialDevice
<1>7. OneDoSend(<<>>)
  BY <1>1 DEF OneDoSend
<1>8. QED BY <1>5, <1>6, <1>7 DEF Init, IInv, Good

\* The invariant holds of every behaviour of the device.
THEOREM Invariance == Spec => []IInv
<1>1. IInv /\ [Next]_vars => IInv'
  <2> SUFFICES ASSUME IInv, [Next]_vars PROVE IInv'
    OBVIOUS
  <2>1. CASE Next
    BY <2>1, StepKeeps DEF Keeps, IInv
  <2>2. CASE UNCHANGED vars
    BY <2>2 DEF vars, IInv
  <2>3. QED BY <2>1, <2>2
<1>2. QED BY InitIsGood, <1>1, PTL DEF Spec

\* The state of the device keeps its type: the uint8_t counters stay in
\* range, no delay the device computes is negative.
THEOREM TypeCorrect == Spec => []TypeOK
<1>1. IInv => TypeOK
  BY DEF IInv, Good, TypeOK
<1>2. QED BY <1>1, Invariance, PTL

\* However often a transmission is postponed, retransmitted or reset, one at
\* most is pending.
THEOREM OneTransmission == Spec => []OnePendingTransmission
<1>1. IInv => OnePendingTransmission
  BY LenProperties DEF IInv, Good, OneDoSend, OnePendingTransmission
<1>2. QED BY <1>1, Invariance, PTL

\* A packet whose procedure has ended is never transmitted again.
THEOREM NothingStale == Spec => NoStaleRetransmission
<1>1. IInv /\ [Next]_vars
        => [\A p \in Packets :
              ed.packet = p /\ ed'.packet # p
                => \A i \in DOMAIN ed'.events : ed'.events[i].arg # p]_vars
  <2> SUFFICES ASSUME IInv, Next, NEW p \in Packets, ed.packet = p, ed'.packet # p,
                      NEW i \in DOMAIN ed'.events
               PROVE  ed'.events[i].arg # p
    OBVIOUS
  <2>1. OneDoSend(ed'.events) /\ NoTransmission(ed'.events)
    BY StepKeeps DEF Keeps, Ended, Good
  <2>2. i \in 1..Len(ed'.events)
    BY <2>1, LenProperties DEF OneDoSend
  <2>3. ed'.events[i].arg = None
    BY <2>1, <2>2 DEF OneDoSend, NoTransmission
  <2>4. QED BY <2>3, PacketsAssumption
<1>2. QED BY <1>1, Invariance, PTL DEF Spec, NoStaleRetransmission

\* A packet leaves the procedure only together with the report that names it.
THEOREM EndsReported == Spec => EndIsReported
<1>1. IInv /\ [Next]_vars
        => [ed.waitingAck /\ (~ed'.waitingAck \/ ed'.packet # ed.packet)
              => ed'.report.made /\ ed'.report.packet = ed.packet]_vars
  BY StepKeeps DEF Keeps, Ended
<1>2. QED BY <1>1, Invariance, PTL DEF Spec, EndIsReported

-----------------------------------------------------------------------------
(* Under a duty cycle that outlasts the receive windows.                   *)
(*                                                                         *)
(* Only the duty cycle keeps an attempt off the windows of the last one.   *)
(* The invariant says so of each pending event: whatever it leads to is    *)
(* over before the sub-band reopens (InTime), and a transmission runs no   *)
(* earlier than that.  So a transmission that starts finds the event list  *)
(* empty and the radio asleep.                                             *)

\* The channels are in one sub-band, as those LorawanMacHelper sets up are.
OneSubBand == \E b \in SubBands : SubBands = {b}

\* What a device may still be in the middle of when a window closes.
Linger == RxTimes \cup {0}

\* How long after an event of this kind the windows it leads to are closed.
WindowsAfter(fn) ==
  CASE fn = "TxFinished" -> {ReceiveDelay1 + Window1, ReceiveDelay2 + Window2}
    [] fn = "OpenFirstReceiveWindow" -> {Window1}
    [] fn = "OpenSecondReceiveWindow" -> {Window2}
    [] OTHER -> {0}

\* The sub-band stays closed until both windows, and a reception that began
\* in their last instant, are over.
DutyOutlasts ==
  \A b \in SubBands, d \in AirTimes, n \in WindowsAfter("TxFinished"), x \in Linger :
    d + n + x < OffTime(b, d)

\* How long the sub-band stays closed.
Band == CHOOSE b \in SubBands : TRUE
Closed(s) == s.wait[Band]

InTime(fn, due, w) ==
  CASE fn = "DoSend" -> w <= due
    [] fn \in {"SwitchToStandby", "EndReceive"} -> due < w
    [] OTHER -> \A n \in WindowsAfter(fn), x \in Linger : due + n + x < w

AllInTime(q, w) == \A k \in 1..Len(q) : InTime(q[k].fn, q[k].due, w)

Includes(q, fn) == \E k \in 1..Len(q) : q[k].fn = fn

\* A packet is on air: the switch to standby comes first, then, at the same
\* instant, the end of the transmission, and nothing else but a DoSend.
OnAirList(q) ==
  /\ Includes(q, "SwitchToStandby") /\ Includes(q, "TxFinished")
  /\ \A i, j \in 1..Len(q) :
       i < j /\ q[i].fn # "DoSend" /\ q[j].fn # "DoSend"
         => /\ q[i].fn = "SwitchToStandby" /\ q[j].fn = "TxFinished"
            /\ q[i].due = q[j].due

\* Only the end of the transmission is left, at this instant.
LandedList(q) ==
  /\ Includes(q, "TxFinished")
  /\ \A i \in 1..Len(q) :
       q[i].fn # "DoSend" => q[i].fn = "TxFinished" /\ q[i].due = 0
  /\ \A i, j \in 1..Len(q) : q[i].fn # "DoSend" /\ q[j].fn # "DoSend" => i = j

NoTxList(q) == ~ Includes(q, "SwitchToStandby") /\ ~ Includes(q, "TxFinished")

Closing(q) == Includes(q, "CloseFirstReceiveWindow") \/ Includes(q, "CloseSecondReceiveWindow")

\* The radio and the events that will change it.
RadioFollows(s) ==
  CASE s.state = "TX" -> OnAirList(s.events)
    [] s.state = "SLEEP" -> NoTxList(s.events)
    [] s.state = "RX" -> NoTxList(s.events) /\ Includes(s.events, "EndReceive")
    [] s.state = "STANDBY" -> \/ LandedList(s.events)
                              \/ NoTxList(s.events) /\ Closing(s.events)

\* An attempt is charged to the budget exactly when it goes on air, and the
\* one that is pending has been allowed.
Charged(s) ==
  /\ s.retxLeft <= MaxNumbTx
  /\ s.waitingAck => s.onAir = MaxNumbTx - s.retxLeft
  /\ \A k \in 1..Len(s.events) :
       s.waitingAck /\ s.events[k].fn = "DoSend" /\ s.events[k].arg = s.packet
         => s.retxLeft > 0

\* What every handler finds and leaves, whatever the radio is doing.
Sound(s) ==
  /\ Good(s) /\ s.aborted = "no"
  /\ AllInTime(s.events, Closed(s))
  /\ Charged(s)

OnDuty(s) == Sound(s) /\ RadioFollows(s)

\* What a change of the pending transmission leaves as it was.
SameButSends(q, r) ==
  /\ OnAirList(q) => OnAirList(r)
  /\ LandedList(q) => LandedList(r)
  /\ NoTxList(q) => NoTxList(r)
  /\ \A f \in Functions \ {"DoSend"} : Includes(q, f) => Includes(r, f)

Tame(s, t) ==
  /\ Sound(t)
  /\ t.state = s.state /\ Closed(t) = Closed(s)
  /\ SameButSends(s.events, t.events)

LEMMA LingerIsNat == Linger \subseteq Nat /\ 0 \in Linger
BY TimesAssumption DEF Linger

LEMMA WindowsAfterIsNat ==
  ASSUME NEW fn
  PROVE  WindowsAfter(fn) \subseteq Nat /\ WindowsAfter(fn) # {}
<1>1. /\ ReceiveDelay1 + Window1 \in Nat /\ ReceiveDelay2 + Window2 \in Nat
      /\ Window1 \in Nat /\ Window2 \in Nat /\ 0 \in Nat
  BY TimesAssumption
<1>2. CASE fn = "TxFinished"
  BY <1>1, <1>2 DEF WindowsAfter
<1>3. CASE fn = "OpenFirstReceiveWindow"
  BY <1>1, <1>3 DEF WindowsAfter
<1>4. CASE fn = "OpenSecondReceiveWindow"
  BY <1>1, <1>4 DEF WindowsAfter
<1>5. CASE fn \notin {"TxFinished", "OpenFirstReceiveWindow", "OpenSecondReceiveWindow"}
  <2>1. WindowsAfter(fn) = {0}
    BY <1>5 DEF WindowsAfter
  <2>2. QED BY <1>1, <2>1
<1>6. QED BY <1>2, <1>3, <1>4, <1>5

\* Every event but a transmission runs before the sub-band reopens.
LEMMA InTimeIsBefore ==
  ASSUME NEW fn, fn # "DoSend", NEW due \in Nat, NEW w \in Nat, InTime(fn, due, w)
  PROVE  due < w
<1>1. CASE fn \in {"SwitchToStandby", "EndReceive"}
  BY <1>1 DEF InTime
<1>2. CASE fn \notin {"SwitchToStandby", "EndReceive"}
  <2>1. \A n \in WindowsAfter(fn), x \in Linger : due + n + x < w
    BY <1>2 DEF InTime
  <2>2. PICK n \in WindowsAfter(fn) : TRUE
    BY WindowsAfterIsNat
  <2>3. due + n + 0 < w /\ n \in Nat
    BY <2>1, <2>2, LingerIsNat, WindowsAfterIsNat
  <2>4. QED BY <2>3
<1>3. QED BY <1>1, <1>2

\* One tick later the event is one tick closer, and so is the reopening.
LEMMA InTimeElapses ==
  ASSUME NEW fn, NEW due \in Nat, due > 0, NEW w \in Nat, InTime(fn, due, w)
  PROVE  InTime(fn, due - 1, Later(w - 1, 0))
<1>1. CASE fn = "DoSend"
  BY <1>1 DEF InTime, Later
<1>2. CASE fn # "DoSend"
  <2>1. due < w
    BY <1>2, InTimeIsBefore
  <2>2. Later(w - 1, 0) = w - 1
    BY <2>1 DEF Later
  <2>3. CASE fn \in {"SwitchToStandby", "EndReceive"}
    BY <2>1, <2>2, <2>3 DEF InTime
  <2>4. CASE fn \notin {"SwitchToStandby", "EndReceive"}
    <3>1. \A n \in WindowsAfter(fn), x \in Linger : due + n + x < w
      BY <1>2, <2>4 DEF InTime
    <3>2. \A n \in WindowsAfter(fn), x \in Linger : (due - 1) + n + x < w - 1
      BY <3>1, LingerIsNat, WindowsAfterIsNat
    <3>3. QED BY <1>2, <2>2, <2>4, <3>2 DEF InTime
  <2>5. QED BY <2>3, <2>4
<1>3. QED BY <1>1, <1>2

-----------------------------------------------------------------------------
(* What the operations of the list do to what is in it. *)

\* An event of the list without one of them, and where it was.
LEMMA WithoutMoves ==
  ASSUME NEW q \in Seq(Event), NEW k \in 1..Len(q)
  PROVE  /\ Without(q, k) \in Seq(Event)
         /\ \A i \in 1..Len(Without(q, k)) : \E m \in 1..Len(q) :
              m # k /\ Without(q, k)[i] = q[m]
         /\ \A i, j \in 1..Len(Without(q, k)) : i < j =>
              \E m, n \in 1..Len(q) :
                m < n /\ Without(q, k)[i] = q[m] /\ Without(q, k)[j] = q[n]
         /\ \A m \in 1..Len(q) : m # k =>
              \E i \in 1..Len(Without(q, k)) : Without(q, k)[i] = q[m]
<1> DEFINE r == Without(q, k)
           at(i) == IF i < k THEN i ELSE i + 1
<1>1. Len(q) \in Nat
  BY LenProperties
<1>2. /\ r \in Seq(Event)
      /\ Len(r) = Len(q) - 1
      /\ \A i \in 1..(Len(q) - 1) : r[i] = q[at(i)]
  BY EventIsEvents, WithoutProperties
<1>3. \A i \in 1..Len(r) : at(i) \in 1..Len(q) /\ at(i) # k /\ r[i] = q[at(i)]
  BY <1>1, <1>2
<1>4. \A i, j \in 1..Len(r) : i < j => at(i) < at(j)
  BY <1>1, <1>2
<1>5. \A m \in 1..Len(q) : m # k => \E i \in 1..Len(r) : at(i) = m
  <2> SUFFICES ASSUME NEW m \in 1..Len(q), m # k PROVE \E i \in 1..Len(r) : at(i) = m
    OBVIOUS
  <2>1. CASE m < k
    <3>1. m \in 1..Len(r) /\ at(m) = m
      BY <1>1, <1>2, <2>1
    <3>2. QED BY <3>1
  <2>2. CASE ~ (m < k)
    <3>1. m - 1 \in 1..Len(r) /\ at(m - 1) = m
      BY <1>1, <1>2, <2>2
    <3>2. QED BY <3>1
  <2>3. QED BY <2>1, <2>2
<1> HIDE DEF r, at
<1>6. \A i \in 1..Len(r) : \E m \in 1..Len(q) : m # k /\ r[i] = q[m]
  BY <1>3
<1>7. \A i, j \in 1..Len(r) : i < j =>
        \E m, n \in 1..Len(q) : m < n /\ r[i] = q[m] /\ r[j] = q[n]
  BY <1>3, <1>4
<1>8. \A m \in 1..Len(q) : m # k => \E i \in 1..Len(r) : r[i] = q[m]
  BY <1>3, <1>5
<1>9. QED BY <1>2, <1>6, <1>7, <1>8 DEF r

LEMMA WithoutLists ==
  ASSUME NEW q \in Seq(Event), NEW k \in 1..Len(q), NEW w
  PROVE  /\ AllInTime(q, w) => AllInTime(Without(q, k), w)
         /\ \A f : Includes(Without(q, k), f) => Includes(q, f)
         /\ \A f : Includes(q, f) /\ q[k].fn # f => Includes(Without(q, k), f)
<1> DEFINE r == Without(q, k)
<1>1. /\ \A i \in 1..Len(r) : \E m \in 1..Len(q) : r[i] = q[m]
      /\ \A m \in 1..Len(q) : m # k => \E i \in 1..Len(r) : r[i] = q[m]
  BY WithoutMoves
<1> HIDE DEF r
<1>2. AllInTime(q, w) => AllInTime(r, w)
  BY <1>1 DEF AllInTime
<1>3. \A f : Includes(r, f) => Includes(q, f)
  BY <1>1 DEF Includes
<1>4. \A f : Includes(q, f) /\ q[k].fn # f => Includes(r, f)
  BY <1>1 DEF Includes
<1>5. QED BY <1>2, <1>3, <1>4 DEF r

\* Taking a transmission out of the list.
LEMMA WithoutSend ==
  ASSUME NEW q \in Seq(Event), NEW k \in 1..Len(q), q[k].fn = "DoSend"
  PROVE  SameButSends(q, Without(q, k))
<1> DEFINE r == Without(q, k)
<1>1. \A f \in Functions \ {"DoSend"} : Includes(q, f) => Includes(r, f)
  BY WithoutLists
<1>2. \A f : Includes(r, f) => Includes(q, f)
  BY WithoutLists
<1>3. /\ \A i \in 1..Len(r) : \E m \in 1..Len(q) : r[i] = q[m]
      /\ \A i, j \in 1..Len(r) : i < j =>
           \E m, n \in 1..Len(q) : m < n /\ r[i] = q[m] /\ r[j] = q[n]
  BY WithoutMoves
<1>4. Len(q) \in Nat /\ Len(r) \in Nat
  BY WithoutMoves, LenProperties
<1> HIDE DEF r
<1>5. {"SwitchToStandby", "TxFinished"} \subseteq Functions \ {"DoSend"}
  BY DEF Functions
<1>6. OnAirList(q) => OnAirList(r)
  <2> SUFFICES ASSUME OnAirList(q), NEW i \in 1..Len(r), NEW j \in 1..Len(r), i < j,
                      r[i].fn # "DoSend", r[j].fn # "DoSend"
               PROVE  /\ r[i].fn = "SwitchToStandby" /\ r[j].fn = "TxFinished"
                      /\ r[i].due = r[j].due
    BY <1>1, <1>5 DEF OnAirList
  <2>1. PICK m \in 1..Len(q) : \E n \in 1..Len(q) : m < n /\ r[i] = q[m] /\ r[j] = q[n]
    BY <1>3
  <2>2. PICK n \in 1..Len(q) : m < n /\ r[i] = q[m] /\ r[j] = q[n]
    BY <2>1
  <2>3. QED BY <2>2 DEF OnAirList
<1>7. LandedList(q) => LandedList(r)
  <2> SUFFICES ASSUME LandedList(q) PROVE LandedList(r)
    OBVIOUS
  <2>1. Includes(r, "TxFinished")
    BY <1>1, <1>5 DEF LandedList
  <2>2. \A i \in 1..Len(r) : r[i].fn # "DoSend" => r[i].fn = "TxFinished" /\ r[i].due = 0
    BY <1>3 DEF LandedList
  <2>3. ASSUME NEW i \in 1..Len(r), NEW j \in 1..Len(r), i < j,
               r[i].fn # "DoSend", r[j].fn # "DoSend"
        PROVE  FALSE
    <3>1. PICK m \in 1..Len(q) : \E n \in 1..Len(q) : m < n /\ r[i] = q[m] /\ r[j] = q[n]
      BY <1>3, <2>3
    <3>2. PICK n \in 1..Len(q) : m < n /\ r[i] = q[m] /\ r[j] = q[n]
      BY <3>1
    <3>3. m = n
      BY <2>3, <3>2 DEF LandedList
    <3>4. QED BY <3>2, <3>3
  <2>4. \A i, j \in 1..Len(r) : r[i].fn # "DoSend" /\ r[j].fn # "DoSend" => i = j
    BY <1>4, <2>3
  <2>5. QED BY <2>1, <2>2, <2>4 DEF LandedList
<1>8. NoTxList(q) => NoTxList(r)
  BY <1>2 DEF NoTxList
<1>9. QED BY <1>1, <1>6, <1>7, <1>8 DEF SameButSends, r

\* Scheduling an event adds it to the end of the list.
LEMMA ScheduleMoves ==
  ASSUME NEW q \in Seq(Event), NEW f \in Functions, NEW d \in Nat, NEW a \in MaybePacket
  PROVE  /\ Schedule(q, f, d, a) \in Seq(Event)
         /\ Len(Schedule(q, f, d, a)) = Len(q) + 1 /\ Len(q) \in Nat
         /\ \A i \in 1..Len(q) : /\ Schedule(q, f, d, a)[i].fn = q[i].fn
                                 /\ Schedule(q, f, d, a)[i].due = q[i].due
                                 /\ Schedule(q, f, d, a)[i].arg = q[i].arg
         /\ Schedule(q, f, d, a)[Len(q) + 1].fn = f
         /\ Schedule(q, f, d, a)[Len(q) + 1].due = d
         /\ Schedule(q, f, d, a)[Len(q) + 1].arg = a
<1> DEFINE r == Schedule(q, f, d, a)
<1>1. /\ r \in Seq(Events(Functions, MaybePacket))
      /\ Len(r) = Len(q) + 1
      /\ \A i \in 1..Len(q) :
           r[i].fn = q[i].fn /\ r[i].due = q[i].due /\ r[i].arg = q[i].arg
      /\ r[Len(q) + 1] = [fn |-> f, due |-> d, held |-> TRUE, arg |-> a]
  BY EventIsEvents, ScheduleProperties
<1>2. Len(q) \in Nat
  BY LenProperties
<1> HIDE DEF r
<1>3. r[Len(q) + 1].fn = f /\ r[Len(q) + 1].due = d /\ r[Len(q) + 1].arg = a
  BY <1>1
<1>4. QED BY <1>1, <1>2, <1>3, EventIsEvents DEF r

LEMMA ScheduleLists ==
  ASSUME NEW q \in Seq(Event), NEW f \in Functions, NEW d \in Nat, NEW a \in MaybePacket,
         NEW w
  PROVE  /\ AllInTime(q, w) /\ InTime(f, d, w) => AllInTime(Schedule(q, f, d, a), w)
         /\ \A g : Includes(Schedule(q, f, d, a), g) <=> Includes(q, g) \/ g = f
<1> DEFINE r == Schedule(q, f, d, a)
<1>1. /\ Len(r) = Len(q) + 1 /\ Len(q) \in Nat
      /\ \A i \in 1..Len(q) : r[i].fn = q[i].fn /\ r[i].due = q[i].due
      /\ r[Len(q) + 1].fn = f /\ r[Len(q) + 1].due = d
  BY ScheduleMoves
<1> HIDE DEF r
<1>2. /\ \A i \in 1..Len(r) : i \in 1..Len(q) \/ i = Len(q) + 1
      /\ \A i \in 1..Len(q) : i \in 1..Len(r)
      /\ Len(q) + 1 \in 1..Len(r)
  BY <1>1
<1>3. AllInTime(q, w) /\ InTime(f, d, w) => AllInTime(r, w)
  BY <1>1, <1>2 DEF AllInTime
<1>4. \A g : Includes(r, g) <=> Includes(q, g) \/ g = f
  BY <1>1, <1>2 DEF Includes
<1>5. QED BY <1>3, <1>4 DEF r

LEMMA ScheduleSend ==
  ASSUME NEW q \in Seq(Event), NEW d \in Nat, NEW a \in MaybePacket
  PROVE  SameButSends(q, Schedule(q, "DoSend", d, a))
<1> DEFINE r == Schedule(q, "DoSend", d, a)
<1>0. "DoSend" \in Functions
  BY DEF Functions
<1>1. \A f : Includes(r, f) <=> Includes(q, f) \/ f = "DoSend"
  BY <1>0, ScheduleLists
<1>2. /\ Len(r) = Len(q) + 1 /\ Len(q) \in Nat
      /\ \A i \in 1..Len(q) : r[i].fn = q[i].fn /\ r[i].due = q[i].due
      /\ r[Len(q) + 1].fn = "DoSend"
  <2>1. LET v == Schedule(q, "DoSend", d, a)
        IN  /\ Len(v) = Len(q) + 1 /\ Len(q) \in Nat
            /\ \A i \in 1..Len(q) : v[i].fn = q[i].fn /\ v[i].due = q[i].due
            /\ v[Len(q) + 1].fn = "DoSend"
    BY ONLY <1>0, ScheduleMoves, q \in Seq(Event), d \in Nat, a \in MaybePacket
  <2>2. QED BY <2>1
<1> HIDE DEF r
<1>3. \A i \in 1..Len(r) : r[i].fn # "DoSend" => i \in 1..Len(q)
  BY <1>2
<1>4. {"SwitchToStandby", "TxFinished"} \subseteq Functions \ {"DoSend"}
  BY DEF Functions
<1>5. OnAirList(q) => OnAirList(r)
  BY <1>1, <1>2, <1>3 DEF OnAirList
<1>6. LandedList(q) => LandedList(r)
  BY <1>1, <1>2, <1>3 DEF LandedList
<1>7. NoTxList(q) => NoTxList(r)
  BY <1>1 DEF NoTxList
<1>8. QED BY <1>1, <1>5, <1>6, <1>7 DEF SameButSends, r

LEMMA SameIsTransitive ==
  ASSUME NEW q, NEW r, NEW v, SameButSends(q, r), SameButSends(r, v)
  PROVE  SameButSends(q, v)
BY DEF SameButSends

LEMMA SameIsReflexive ==
  ASSUME NEW q
  PROVE  SameButSends(q, q)
BY DEF SameButSends

LEMMA CancelSend ==
  ASSUME NEW q \in Seq(Event)
  PROVE  SameButSends(q, Cancel(q, "DoSend"))
<1>1. CASE Cancel(q, "DoSend") = q
  BY <1>1, SameIsReflexive
<1>2. CASE \E k \in 1..Len(q) : q[k].fn = "DoSend" /\ Cancel(q, "DoSend") = Without(q, k)
  BY <1>2, WithoutSend
<1>3. QED BY <1>1, <1>2, EventIsEvents, CancelProperties

LEMMA CancelLists ==
  ASSUME NEW q \in Seq(Event), NEW f, NEW w
  PROVE  /\ Cancel(q, f) \in Seq(Event)
         /\ AllInTime(q, w) => AllInTime(Cancel(q, f), w)
         /\ \A g : Includes(Cancel(q, f), g) => Includes(q, g)
         /\ \A g : g # f /\ Includes(q, g) => Includes(Cancel(q, f), g)
         /\ \A i \in 1..Len(Cancel(q, f)) : \E m \in 1..Len(q) : Cancel(q, f)[i] = q[m]
<1>1. CASE Cancel(q, f) = q
  BY <1>1
<1>2. CASE \E k \in 1..Len(q) : q[k].fn = f /\ Cancel(q, f) = Without(q, k)
  <2>1. PICK k \in 1..Len(q) : q[k].fn = f /\ Cancel(q, f) = Without(q, k)
    BY <1>2
  <2>2. \A i \in 1..Len(Without(q, k)) : \E m \in 1..Len(q) : Without(q, k)[i] = q[m]
    BY WithoutMoves
  <2>3. Without(q, k) \in Seq(Event)
    BY WithoutMoves
  <2>4. /\ AllInTime(q, w) => AllInTime(Without(q, k), w)
        /\ \A g : Includes(Without(q, k), g) => Includes(q, g)
        /\ \A g : Includes(q, g) /\ q[k].fn # g => Includes(Without(q, k), g)
    BY WithoutLists
  <2>5. QED BY <2>1, <2>2, <2>3, <2>4
<1>3. QED BY <1>1, <1>2, EventIsEvents, CancelProperties

\* A tick moves the whole list.
LEMMA ElapseMoves ==
  ASSUME NEW q \in Seq(Event), Quiet(q), NEW w \in Nat
  PROVE  /\ AllInTime(q, w) => AllInTime(Elapse(q), Later(w - 1, 0))
         /\ \A i \in 1..Len(Elapse(q)) : i \in 1..Len(q) /\ Elapse(q)[i].fn = q[i].fn
                                         /\ Elapse(q)[i].arg = q[i].arg
         /\ ~ LandedList(q)
         /\ SameButSends(q, Elapse(q))
<1> DEFINE r == Elapse(q)
<1>1. /\ Len(r) = Len(q)
      /\ \A i \in 1..Len(q) : /\ r[i].fn = q[i].fn /\ r[i].arg = q[i].arg
                              /\ r[i].due = q[i].due - 1
  BY EventIsEvents, ElapseProperties
<1> HIDE DEF r
<1>2. \A i \in 1..Len(q) : q[i].due \in Nat /\ q[i].due > 0
  <2>1. \A i \in 1..Len(q) : q[i] \in Event
    BY ElementOfSeq
  <2>2. DOMAIN q = 1..Len(q)
    BY LenProperties
  <2>3. QED BY <2>1, <2>2 DEF Event, Quiet
<1>3. ASSUME AllInTime(q, w) PROVE AllInTime(r, Later(w - 1, 0))
  <2> SUFFICES ASSUME NEW i \in 1..Len(q) PROVE InTime(r[i].fn, r[i].due, Later(w - 1, 0))
    BY <1>1 DEF AllInTime
  <2>1. InTime(q[i].fn, q[i].due, w)
    BY <1>3 DEF AllInTime
  <2>2. InTime(q[i].fn, q[i].due - 1, Later(w - 1, 0))
    BY <1>2, <2>1, InTimeElapses
  <2>3. QED BY <1>1, <2>2
<1>4. ~ LandedList(q)
  <2>1. SUFFICES ASSUME LandedList(q) PROVE FALSE
    OBVIOUS
  <2>2. PICK i \in 1..Len(q) : q[i].fn = "TxFinished"
    BY <2>1 DEF LandedList, Includes
  <2>3. QED BY <1>2, <2>1, <2>2 DEF LandedList
<1>5. \A f : Includes(r, f) <=> Includes(q, f)
  BY <1>1 DEF Includes
<1>6. OnAirList(q) => OnAirList(r)
  BY <1>1, <1>5 DEF OnAirList
<1>7. SameButSends(q, r)
  BY <1>4, <1>5, <1>6 DEF SameButSends, NoTxList
<1>8. QED BY <1>1, <1>3, <1>4, <1>7 DEF r

-----------------------------------------------------------------------------
(* The sub-band *)

LEMMA BandProperties ==
  ASSUME OneSubBand
  PROVE  Band \in SubBands /\ SubBands = {Band}
BY DEF OneSubBand, Band

LEMMA ClosedIsDelay ==
  ASSUME OneSubBand, NEW s \in DeviceType
  PROVE  Closed(s) \in Nat /\ DutyCycleDelay(s) = Closed(s)
<1>1. Closed(s) \in Nat
  BY BandProperties DEF DeviceType, WaitingTimes, Closed
<1>2. {s.wait[b] : b \in SubBands} = {Closed(s)}
  BY BandProperties DEF Closed
<1>3. \A b \in SubBands : Closed(s) <= s.wait[b]
  BY <1>1, BandProperties DEF Closed
<1>4. DutyCycleDelay(s) = Closed(s)
  BY <1>2, <1>3 DEF DutyCycleDelay
<1>5. QED BY <1>1, <1>4

\* No transmission is planned for an instant at which the sub-band is closed.
LEMMA DelayOutlasts ==
  ASSUME OneSubBand, NEW s \in DeviceType, NEW delay \in GetNextTransmissionDelay(s)
  PROVE  delay \in Nat /\ Closed(s) <= delay
<1>1. delay \in Nat
  BY DelayIsNat
<1>2. Closed(s) \in Nat /\ DutyCycleDelay(s) = Closed(s)
  BY ClosedIsDelay
<1>3. \/ delay = Closed(s)
      \/ \E n : delay = Later(Closed(s), n)
  BY <1>2 DEF GetNextTransmissionDelay
<1>4. Closed(s) <= delay
  <2>1. CASE delay = Closed(s)
    BY <1>2, <2>1
  <2>2. CASE \E n : delay = Later(Closed(s), n)
    <3>1. PICK n : delay = Later(Closed(s), n)
      BY <2>2
    <3>2. \/ delay = Closed(s)
          \/ delay = n /\ Closed(s) < n
      BY <3>1 DEF Later
    <3>3. QED BY <1>1, <1>2, <3>2
  <2>3. QED BY <1>3, <2>1, <2>2
<1>5. QED BY <1>1, <1>4

-----------------------------------------------------------------------------
(* What the handlers do to a device whose events are in time. *)

\* Soundness does not depend on the radio, the report or the timestamp.
LEMMA SoundDependsOn ==
  ASSUME NEW s, NEW t, Sound(s), Good(t),
         t.aborted = s.aborted, t.events = s.events, Closed(t) = Closed(s),
         t.retxLeft = s.retxLeft, t.waitingAck = s.waitingAck,
         t.onAir = s.onAir, t.packet = s.packet
  PROVE  Sound(t)
BY DEF Sound, Charged

LEMMA SoundType ==
  ASSUME OneSubBand, NEW s, Sound(s)
  PROVE  /\ s \in DeviceType /\ OneDoSend(s.events) /\ s.events \in Seq(Event)
         /\ Len(s.events) \in Nat /\ DOMAIN s.events = 1..Len(s.events)
         /\ Closed(s) \in Nat /\ s.retxLeft \in Nat /\ s.onAir \in Nat
         /\ s.packet \in MaybePacket /\ s.state \in PhyStates
         /\ \A k \in 1..Len(s.events) : s.events[k] \in Event /\ s.events[k].due \in Nat
<1>1. s \in DeviceType /\ OneDoSend(s.events)
  BY DEF Sound, Good
<1>2. /\ s.events \in Seq(Event) /\ s.retxLeft \in Nat /\ s.onAir \in Nat
      /\ s.packet \in MaybePacket /\ s.state \in PhyStates
  <2>1. /\ s.events \in Seq(Event) /\ s.retxLeft \in Byte /\ s.onAir \in Nat
        /\ s.packet \in MaybePacket /\ s.state \in PhyStates
    BY <1>1 DEF DeviceType
  <2>2. Byte \subseteq Nat
    BY DEF Byte
  <2>3. QED BY <2>1, <2>2
<1>3. Len(s.events) \in Nat /\ DOMAIN s.events = 1..Len(s.events)
  BY <1>2, LenProperties
<1>4. \A k \in 1..Len(s.events) : s.events[k] \in Event
  BY <1>2, ElementOfSeq
<1>5. \A k \in 1..Len(s.events) : s.events[k].due \in Nat
  BY <1>4 DEF Event
<1>6. QED BY <1>1, <1>2, <1>3, <1>4, <1>5, ClosedIsDelay

LEMMA StandbyIsSound ==
  ASSUME NEW s, Sound(s)
  PROVE  /\ Sound(SwitchToStandby(s)) /\ SwitchToStandby(s).state = "STANDBY"
         /\ SwitchToStandby(s).events = s.events
         /\ Closed(SwitchToStandby(s)) = Closed(s)
         /\ SwitchToStandby(s).waitingAck = s.waitingAck
<1> DEFINE t == SwitchToStandby(s)
<1>1. Good(t)
  BY SwitchToStandbyIsCalm DEF Sound, Calm
<1>2. /\ t.aborted = s.aborted /\ t.events = s.events /\ Closed(t) = Closed(s)
      /\ t.retxLeft = s.retxLeft /\ t.waitingAck = s.waitingAck
      /\ t.onAir = s.onAir /\ t.packet = s.packet /\ t.state = "STANDBY"
  BY DEF Sound, Good, DeviceType, SwitchToStandby, Closed
<1> HIDE DEF t
<1>3. Sound(t)
  BY <1>1, <1>2, SoundDependsOn
<1>4. QED BY <1>2, <1>3 DEF t

LEMMA SleepIsSound ==
  ASSUME NEW s, Sound(s), s.state = "STANDBY"
  PROVE  /\ Sound(SwitchToSleep(s)) /\ SwitchToSleep(s).state = "SLEEP"
         /\ SwitchToSleep(s).events = s.events
         /\ Closed(SwitchToSleep(s)) = Closed(s)
         /\ SwitchToSleep(s).waitingAck = s.waitingAck
<1> DEFINE t == SwitchToSleep(s)
<1>1. Good(t)
  BY SwitchToSleepIsCalm DEF Sound, Calm
<1>2. /\ t.aborted = s.aborted /\ t.events = s.events /\ Closed(t) = Closed(s)
      /\ t.retxLeft = s.retxLeft /\ t.waitingAck = s.waitingAck
      /\ t.onAir = s.onAir /\ t.packet = s.packet /\ t.state = "SLEEP"
  BY DEF Sound, Good, DeviceType, SwitchToSleep, Closed
<1> HIDE DEF t
<1>3. Sound(t)
  BY <1>1, <1>2, SoundDependsOn
<1>4. QED BY <1>2, <1>3 DEF t

\* A device whose list alone changes; what is new in the list is no transmission.
LEMMA EventsAreSound ==
  ASSUME NEW s, Sound(s), NEW q, OneDoSend(q), AllInTime(q, Closed(s)),
         \A k \in 1..Len(q) : q[k].fn = "DoSend" =>
           \E m \in 1..Len(s.events) :
             q[k].fn = s.events[m].fn /\ q[k].arg = s.events[m].arg
  PROVE  LET t == [s EXCEPT !.events = q]
         IN  /\ Sound(t) /\ t.state = s.state /\ t.events = q /\ Closed(t) = Closed(s)
             /\ t.waitingAck = s.waitingAck
<1> DEFINE t == [s EXCEPT !.events = q]
<1>1. s \in DeviceType /\ q \in Seq(Event)
  BY DEF Sound, Good, OneDoSend
<1>2. /\ t \in DeviceType /\ t.events = q /\ t.state = s.state
      /\ t.aborted = s.aborted /\ Closed(t) = Closed(s)
      /\ t.retxLeft = s.retxLeft /\ t.waitingAck = s.waitingAck
      /\ t.onAir = s.onAir /\ t.packet = s.packet
  BY <1>1 DEF DeviceType, Closed
<1> HIDE DEF t
<1>3. Good(t) /\ t.aborted = "no" /\ AllInTime(t.events, Closed(t))
  BY <1>2 DEF Good, Sound
<1>4. ASSUME NEW k \in 1..Len(t.events), t.waitingAck, t.events[k].fn = "DoSend",
             t.events[k].arg = t.packet
      PROVE  t.retxLeft > 0
  <2>1. PICK m \in 1..Len(s.events) :
          q[k].fn = s.events[m].fn /\ q[k].arg = s.events[m].arg
    BY <1>2, <1>4
  <2>2. QED BY <1>2, <1>4, <2>1 DEF Sound, Charged
<1>5. Charged(t)
  BY <1>2, <1>4 DEF Sound, Charged
<1>6. Sound(t)
  BY <1>3, <1>5 DEF Sound
<1>7. QED BY <1>2, <1>6 DEF t

\* Scheduling an event of the radio or of a window that is in time.
LEMMA SchedulingIsSound ==
  ASSUME NEW s, Sound(s), NEW f \in Functions \ {"DoSend"}, NEW d \in Nat,
         InTime(f, d, Closed(s))
  PROVE  LET t == [s EXCEPT !.events = Schedule(@, f, d, None)]
         IN  /\ Sound(t) /\ t.state = s.state /\ Closed(t) = Closed(s)
             /\ t.waitingAck = s.waitingAck
             /\ \A g : Includes(t.events, g) <=> Includes(s.events, g) \/ g = f
<1> DEFINE q == Schedule(s.events, f, d, None)
<1>1. s \in DeviceType /\ OneDoSend(s.events) /\ s.events \in Seq(Event)
      /\ None \in MaybePacket
  BY DEF Sound, Good, OneDoSend, MaybePacket
<1>2. OneDoSend(q)
  BY <1>1, ScheduleKeeps
<1>3. /\ AllInTime(s.events, Closed(s)) /\ InTime(f, d, Closed(s)) => AllInTime(q, Closed(s))
      /\ \A g : Includes(q, g) <=> Includes(s.events, g) \/ g = f
  BY <1>1, ScheduleLists
<1>4. /\ Len(q) = Len(s.events) + 1 /\ Len(s.events) \in Nat
      /\ \A i \in 1..Len(s.events) : q[i].fn = s.events[i].fn /\ q[i].arg = s.events[i].arg
      /\ q[Len(s.events) + 1].fn = f
  BY <1>1, ScheduleMoves
<1> HIDE DEF q
<1>5. ASSUME NEW k \in 1..Len(q), q[k].fn = "DoSend"
      PROVE  \E m \in 1..Len(s.events) :
               q[k].fn = s.events[m].fn /\ q[k].arg = s.events[m].arg
  <2>1. k \in 1..Len(s.events)
    BY <1>4, <1>5
  <2>2. QED BY <1>4, <2>1
<1>6. AllInTime(q, Closed(s))
  BY <1>3 DEF Sound
<1> DEFINE t == [s EXCEPT !.events = q]
<1>7. /\ Sound(t) /\ t.state = s.state /\ t.events = q /\ Closed(t) = Closed(s)
      /\ t.waitingAck = s.waitingAck
  BY <1>2, <1>5, <1>6, EventsAreSound
<1> HIDE DEF t
<1>8. /\ Sound(t) /\ t.state = s.state /\ Closed(t) = Closed(s)
      /\ t.waitingAck = s.waitingAck
      /\ \A g : Includes(t.events, g) <=> Includes(s.events, g) \/ g = f
  BY <1>3, <1>7
<1>9. QED BY <1>8 DEF t, q

\* A transmission is put off, and with it nothing else.
LEMMA PostponeIsTame ==
  ASSUME OneSubBand, NEW s, Sound(s), NEW delay \in Nat, Closed(s) <= delay,
         NEW p \in MaybePacket, s.waitingAck /\ p = s.packet => s.retxLeft > 0
  PROVE  Tame(s, postponeTransmission(s, delay, p))
<1> DEFINE c == Cancel(s.events, "DoSend")
           q == Schedule(c, "DoSend", delay, p)
           t == [s EXCEPT !.events = q]
<1>1. s \in DeviceType /\ OneDoSend(s.events) /\ s.events \in Seq(Event)
  BY SoundType
<1>2. Good(postponeTransmission(s, delay, p))
  BY PostponeKeeps DEF Sound, Keeps
<1>3. postponeTransmission(s, delay, p) = t
  BY DEF postponeTransmission
<1>4. /\ c \in Seq(Event) /\ AllInTime(c, Closed(s)) /\ NoTransmission(c)
      /\ SameButSends(s.events, c)
  BY <1>1, CancelLists, CancelDoSend, CancelSend DEF Sound
<1> HIDE DEF c
<1>5. "DoSend" \in Functions /\ InTime("DoSend", delay, Closed(s))
  BY DEF Functions, InTime
<1>6. AllInTime(q, Closed(s))
  BY <1>4, <1>5, ScheduleLists
<1>7. SameButSends(s.events, q)
  BY <1>4, ScheduleSend, SameIsTransitive
<1>8. \A k \in 1..Len(q) : q[k].fn = "DoSend" => q[k].arg = p
  <2>1. /\ Len(q) = Len(c) + 1 /\ Len(c) \in Nat
        /\ \A i \in 1..Len(c) : q[i].fn = c[i].fn
        /\ q[Len(c) + 1].arg = p
    BY <1>4, <1>5, ScheduleMoves
  <2> HIDE DEF q
  <2>2. \A k \in 1..Len(q) : k \in 1..Len(c) \/ k = Len(c) + 1
    BY <2>1
  <2>3. QED BY <1>4, <2>1, <2>2 DEF NoTransmission
<1> HIDE DEF q
<1>9. /\ t.events = q /\ t.state = s.state /\ t.aborted = s.aborted /\ Closed(t) = Closed(s)
      /\ t.retxLeft = s.retxLeft /\ t.waitingAck = s.waitingAck
      /\ t.onAir = s.onAir /\ t.packet = s.packet
  BY <1>1 DEF DeviceType, Closed
<1>10. Good(t)
  BY <1>2, <1>3
<1> HIDE DEF t
<1>11. Charged(t)
  BY <1>8, <1>9 DEF Sound, Charged
<1>12. Sound(t)
  BY <1>6, <1>9, <1>10, <1>11 DEF Sound
<1>13. QED BY <1>3, <1>7, <1>9, <1>12 DEF Tame

\* The procedure ends, with its report or without.
LEMMA ReportIsSound ==
  ASSUME NEW s, Sound(s), NEW ok \in BOOLEAN
  PROVE  /\ Sound(Report(s, ok)) /\ Report(s, ok).state = s.state
         /\ Report(s, ok).events = s.events /\ Closed(Report(s, ok)) = Closed(s)
<1> DEFINE t == Report(s, ok)
<1>1. Good(t)
  BY ReportProperties DEF Sound
<1>2. /\ t.aborted = s.aborted /\ t.events = s.events /\ Closed(t) = Closed(s)
      /\ t.retxLeft = s.retxLeft /\ t.waitingAck = s.waitingAck
      /\ t.onAir = s.onAir /\ t.packet = s.packet /\ t.state = s.state
  BY DEF Sound, Good, DeviceType, Report, Closed
<1> HIDE DEF t
<1>3. Sound(t)
  BY <1>1, <1>2, SoundDependsOn
<1>4. QED BY <1>2, <1>3 DEF t

LEMMA ResetIsTame ==
  ASSUME OneSubBand, NEW s, Sound(s)
  PROVE  /\ Tame(s, resetRetransmissionParameters(s))
         /\ ~ resetRetransmissionParameters(s).waitingAck
         /\ NoTransmission(resetRetransmissionParameters(s).events)
<1> DEFINE q == Cancel(s.events, "DoSend")
           t == resetRetransmissionParameters(s)
<1>1. s \in DeviceType /\ OneDoSend(s.events) /\ s.events \in Seq(Event)
  BY SoundType
<1>2. Good(t) /\ NoTransmission(t.events)
  BY ResetProperties DEF Sound
<1>3. AllInTime(q, Closed(s)) /\ SameButSends(s.events, q)
  BY <1>1, CancelLists, CancelSend DEF Sound
<1> HIDE DEF q
<1>4. /\ t.events = q /\ t.state = s.state /\ t.aborted = s.aborted /\ Closed(t) = Closed(s)
      /\ t.retxLeft = MaxNumbTx /\ t.waitingAck = FALSE
  BY <1>1 DEF DeviceType, Closed, resetRetransmissionParameters, q
<1> HIDE DEF t
<1>5. Charged(t)
  BY <1>4, RadioAssumption DEF Charged
<1>6. Sound(t)
  BY <1>2, <1>3, <1>4, <1>5 DEF Sound
<1>7. QED BY <1>2, <1>3, <1>4, <1>6 DEF Tame, t

LEMMA ReportAndResetIsTame ==
  ASSUME OneSubBand, NEW s, Sound(s), NEW ok \in BOOLEAN
  PROVE  /\ Tame(s, resetRetransmissionParameters(Report(s, ok)))
         /\ ~ resetRetransmissionParameters(Report(s, ok)).waitingAck
<1> DEFINE u == Report(s, ok)
<1>1. Sound(u) /\ u.state = s.state /\ u.events = s.events /\ Closed(u) = Closed(s)
  BY ReportIsSound
<1> HIDE DEF u
<1>2. Tame(u, resetRetransmissionParameters(u)) /\ ~ resetRetransmissionParameters(u).waitingAck
  BY <1>1, ResetIsTame
<1>3. QED BY <1>1, <1>2 DEF Tame, u

\* While the sub-band is closed a retransmission is put off.
LEMMA RetransmitIsTame ==
  ASSUME OneSubBand, NEW s, Sound(s), Closed(s) > 0, NEW t \in RetransmitOrFail(s)
  PROVE  Tame(s, t)
<1>1. /\ s \in DeviceType /\ s.packet \in MaybePacket /\ Closed(s) \in Nat
  BY SoundType
<1>2. CASE ~ (s.retxLeft > 0)
  BY <1>2, ReportAndResetIsTame DEF RetransmitOrFail
<1>3. CASE s.retxLeft > 0
  <2>1. t \in Send(s, s.packet)
    BY <1>3 DEF RetransmitOrFail
  <2>2. CASE TooLarge(s, s.packet)
    BY <2>1, <2>2, SameIsReflexive DEF Send, Tame
  <2>3. CASE ~ TooLarge(s, s.packet)
    <3>1. PICK delay \in GetNextTransmissionDelay(s) : t \in SendWithDelay(s, s.packet, delay)
      BY <2>1, <2>3 DEF Send
    <3>2. delay \in Nat /\ Closed(s) <= delay
      BY <1>1, DelayOutlasts
    <3>3. delay # 0
      BY <1>1, <3>2
    <3>4. t = postponeTransmission(s, delay, s.packet)
      BY <3>1, <3>3 DEF SendWithDelay
    <3>5. QED BY <1>1, <1>3, <3>2, <3>4, PostponeIsTame
  <2>4. QED BY <2>2, <2>3
<1>4. QED BY <1>2, <1>3

\* Whatever changes only the pending transmission leaves the radio as it is.
LEMMA TameFollows ==
  ASSUME NEW s, NEW t, Tame(s, t), RadioFollows(s), s.state \in PhyStates
  PROVE  OnDuty(t)
<1>1. {"EndReceive", "CloseFirstReceiveWindow", "CloseSecondReceiveWindow"}
        \subseteq Functions \ {"DoSend"}
  BY DEF Functions
<1>2. /\ OnAirList(s.events) => OnAirList(t.events)
      /\ LandedList(s.events) => LandedList(t.events)
      /\ NoTxList(s.events) => NoTxList(t.events)
      /\ Includes(s.events, "EndReceive") => Includes(t.events, "EndReceive")
      /\ Closing(s.events) => Closing(t.events)
  BY <1>1 DEF Tame, SameButSends, Closing
<1>3. RadioFollows(t)
  BY <1>2 DEF Tame, RadioFollows, PhyStates
<1>4. QED BY <1>3 DEF Tame, OnDuty

-----------------------------------------------------------------------------
(* A transmission begins *)

\* Once the sub-band is open again only transmissions are left in the list.
LEMMA OpenIsIdle ==
  ASSUME OneSubBand, NEW s, Sound(s), Closed(s) = 0
  PROVE  /\ \A k \in 1..Len(s.events) : s.events[k].fn = "DoSend"
         /\ NoTransmission(s.events) => Len(s.events) = 0
         /\ RadioFollows(s) => s.state = "SLEEP"
         /\ s.state = "SLEEP" => RadioFollows(s)
<1>1. /\ \A k \in 1..Len(s.events) : s.events[k].due \in Nat
      /\ Len(s.events) \in Nat /\ s.state \in PhyStates
  BY SoundType
<1>2. \A k \in 1..Len(s.events) : s.events[k].fn = "DoSend"
  <2> SUFFICES ASSUME NEW k \in 1..Len(s.events), s.events[k].fn # "DoSend" PROVE FALSE
    OBVIOUS
  <2>1. InTime(s.events[k].fn, s.events[k].due, 0) /\ s.events[k].due \in Nat
    BY <1>1 DEF Sound, AllInTime
  <2>2. s.events[k].due < 0
    BY <2>1, InTimeIsBefore
  <2>3. QED BY <2>1, <2>2
<1>3. NoTransmission(s.events) => Len(s.events) = 0
  <2> SUFFICES ASSUME NoTransmission(s.events), Len(s.events) # 0 PROVE FALSE
    OBVIOUS
  <2>1. 1 \in 1..Len(s.events)
    BY <1>1
  <2>2. QED BY <1>2, <2>1 DEF NoTransmission
<1>4. \A f : f # "DoSend" => ~ Includes(s.events, f)
  BY <1>2 DEF Includes
<1>5. RadioFollows(s) => s.state = "SLEEP"
  BY <1>1, <1>4 DEF RadioFollows, OnAirList, LandedList, Closing, PhyStates
<1>6. s.state = "SLEEP" => RadioFollows(s)
  BY <1>4 DEF RadioFollows, NoTxList
<1>7. QED BY <1>2, <1>3, <1>5, <1>6

LEMMA ScheduleEarlier ==
  ASSUME NEW q \in Seq(Event), NEW f \in Functions, NEW d \in Nat, NEW a \in MaybePacket,
         NEW i \in 1..Len(q)
  PROVE  /\ Schedule(q, f, d, a)[i].fn = q[i].fn
         /\ Schedule(q, f, d, a)[i].due = q[i].due
BY ScheduleMoves

LEMMA TwoScheduled ==
  ASSUME NEW q \in Seq(Event), NEW f \in Functions, NEW g \in Functions, NEW d \in Nat,
         NEW a \in MaybePacket
  PROVE  LET r == Schedule(Schedule(q, f, d, a), g, d, a)
         IN  /\ Len(r) = Len(q) + 2
             /\ r[Len(q) + 1].fn = f /\ r[Len(q) + 1].due = d
             /\ r[Len(q) + 2].fn = g /\ r[Len(q) + 2].due = d
<1>1. PICK v \in Seq(Event) : v = Schedule(q, f, d, a)
  BY ScheduleMoves
<1>2. v[Len(q) + 1] = [fn |-> f, due |-> d, held |-> TRUE, arg |-> a]
  BY <1>1, ScheduleProperties, EventIsEvents
<1>3. Len(v) = Len(q) + 1 /\ Len(q) \in Nat
  BY <1>1, ScheduleMoves
<1>4. PICK r : r = Schedule(v, g, d, a)
  OBVIOUS
<1>5. r[Len(v) + 1] = [fn |-> g, due |-> d, held |-> TRUE, arg |-> a]
  BY <1>4, ScheduleProperties, EventIsEvents
<1>6. Len(r) = Len(v) + 1
  BY <1>4, ScheduleMoves
<1>7. r[Len(q) + 1].fn = v[Len(q) + 1].fn /\ r[Len(q) + 1].due = v[Len(q) + 1].due
  <2>1. Len(q) + 1 \in 1..Len(v)
    BY <1>3
  <2>2. QED BY <1>4, <2>1, ScheduleEarlier
<1>8. /\ Len(r) = Len(q) + 2
      /\ r[Len(q) + 1].fn = f /\ r[Len(q) + 1].due = d
      /\ r[Len(q) + 2].fn = g /\ r[Len(q) + 2].due = d
  BY <1>2, <1>3, <1>5, <1>6, <1>7
<1>9. QED BY <1>1, <1>4, <1>8

\* What is scheduled with a transmission of length d, in an empty list.
LEMMA OnAirListStarts ==
  ASSUME NEW q \in Seq(Event), Len(q) = 0, NEW d \in Nat, NEW w,
         InTime("SwitchToStandby", d, w), InTime("TxFinished", d, w)
  PROVE  LET r == Schedule(Schedule(q, "SwitchToStandby", d, None), "TxFinished", d, None)
         IN  OnAirList(r) /\ AllInTime(r, w) /\ NoTransmission(r)
<1> DEFINE r == Schedule(Schedule(q, "SwitchToStandby", d, None), "TxFinished", d, None)
<1>1. "SwitchToStandby" \in Functions /\ "TxFinished" \in Functions /\ None \in MaybePacket
  BY DEF Functions, MaybePacket
<1>2. /\ Len(r) = Len(q) + 2
      /\ r[Len(q) + 1].fn = "SwitchToStandby" /\ r[Len(q) + 1].due = d
      /\ r[Len(q) + 2].fn = "TxFinished" /\ r[Len(q) + 2].due = d
  BY ONLY <1>1, q \in Seq(Event), d \in Nat, TwoScheduled
<1> HIDE DEF r
<1>5. /\ Len(r) = 2 /\ 1..Len(r) = {1, 2}
      /\ r[1].fn = "SwitchToStandby" /\ r[1].due = d
      /\ r[2].fn = "TxFinished" /\ r[2].due = d
  BY <1>2
<1>6. Includes(r, "SwitchToStandby") /\ Includes(r, "TxFinished")
  BY <1>5 DEF Includes
<1>7. \A i, j \in {1, 2} : i < j => i = 1 /\ j = 2
  OBVIOUS
<1>8. OnAirList(r)
  BY <1>5, <1>6, <1>7 DEF OnAirList
<1>9. AllInTime(r, w) /\ NoTransmission(r)
  BY <1>5 DEF AllInTime, NoTransmission
<1>10. QED BY <1>8, <1>9 DEF r

\* Every channel is free, the radio is asleep and nothing is pending: the
\* packet goes on air, and the sub-band closes for longer than all it leads to.
LEMMA TransmissionStarts ==
  ASSUME OneSubBand, DutyOutlasts, NEW s, Good(s), s.aborted = "no",
         s.state = "SLEEP", Closed(s) = 0, Len(s.events) = 0,
         s.retxLeft <= MaxNumbTx,
         s.waitingAck => s.onAir + 1 = MaxNumbTx - s.retxLeft,
         NEW t \in SendToPhy(s)
  PROVE  OnDuty(t)
<1>1. Band \in FreeSubBands(s) /\ FreeSubBands(s) \subseteq {Band}
  BY BandProperties DEF FreeSubBands, Closed
<1>2. PICK d \in AirTimes : t = [PhySend(s, d) EXCEPT !.wait[Band] = OffTime(Band, d)]
  BY <1>1 DEF SendToPhy
<1>3. d \in Nat /\ Band \in SubBands
  BY BandProperties, TimesAssumption
<1> DEFINE w == OffTime(Band, d)
           q == Schedule(Schedule(s.events, "SwitchToStandby", d, None), "TxFinished", d, None)
<1>4. /\ \A n \in WindowsAfter("TxFinished"), x \in Linger : d + n + x < w
      /\ w \in Nat
  BY <1>3, OffTimeIsNat DEF DutyOutlasts
<1>5. Good(t)
  BY SendToPhyIsCalm DEF Calm
<1>6. s \in DeviceType /\ s.events \in Seq(Event)
  BY DEF Good, OneDoSend
<1> DEFINE u == PhySend(s, d)
<1>7. /\ u.state = "TX" /\ u.events = q /\ u.onAir = s.onAir + 1
      /\ u.retxLeft = s.retxLeft /\ u.waitingAck = s.waitingAck /\ u.packet = s.packet
      /\ u.aborted = s.aborted /\ u.wait = s.wait
  <2> HIDE DEF q
  <2>1. u = [s EXCEPT !.state = "TX", !.onAir = @ + 1, !.events = q]
    BY DEF PhySend, q
  <2> HIDE DEF u
  <2>2. QED BY <1>6, <2>1 DEF DeviceType
<1>8. u \in DeviceType
  BY <1>3, PhySendIsCalm DEF Calm, Good
<1> HIDE DEF u, q, w
<1>9. /\ t.state = "TX" /\ t.events = q /\ t.onAir = s.onAir + 1
      /\ t.retxLeft = s.retxLeft /\ t.waitingAck = s.waitingAck /\ t.packet = s.packet
      /\ t.aborted = s.aborted /\ Closed(t) = w
  <2>1. t = [u EXCEPT !.wait[Band] = w]
    BY <1>2 DEF u, w
  <2>2. QED BY <1>3, <1>7, <1>8, <2>1 DEF DeviceType, WaitingTimes, Closed
<1>10. InTime("TxFinished", d, w)
  BY <1>4 DEF InTime
<1>11. InTime("SwitchToStandby", d, w)
  <2>1. d < w
    BY <1>3, <1>4, <1>10, InTimeIsBefore
  <2>2. QED BY <2>1 DEF InTime
<1>12. OnAirList(q) /\ AllInTime(q, w) /\ NoTransmission(q)
  BY <1>3, <1>6, <1>10, <1>11, OnAirListStarts DEF q
<1>13. Charged(t)
  BY <1>9, <1>12 DEF Charged, NoTransmission
<1>14. Sound(t)
  BY <1>5, <1>9, <1>12, <1>13 DEF Sound
<1>15. RadioFollows(t)
  BY <1>9, <1>12 DEF RadioFollows
<1>16. QED BY <1>14, <1>15 DEF OnDuty

\* DoSend when the sub-band is open: a new packet or an allowed retransmission.
LEMMA DoSendStarts ==
  ASSUME OneSubBand, DutyOutlasts, NEW s, Sound(s), s.state = "SLEEP", Closed(s) = 0,
         NEW p \in MaybePacket,
         p = s.packet => NoTransmission(s.events) /\ (s.waitingAck => s.retxLeft > 0),
         NEW t \in DoSend(s, p)
  PROVE  OnDuty(t)
<1>0. MaxNumbTx \in Nat /\ MaxNumbTx > 0 /\ MaxNumbTx <= 255
  BY RadioAssumption
<1>1. CASE p # s.packet
  <2> DEFINE old == IF s.waitingAck THEN Report(s, FALSE) ELSE s
             reset == resetRetransmissionParameters(old)
             new == [reset EXCEPT !.onAir = 0]
             ready == IF Confirmed
                      THEN [new EXCEPT !.packet = p, !.waitingAck = TRUE,
                                       !.retxLeft = MaxNumbTx - 1]
                      ELSE new
  <2>1. Sound(old) /\ old.state = "SLEEP" /\ Closed(old) = 0
    BY ReportIsSound
  <2> HIDE DEF old
  <2>2. /\ Sound(reset) /\ reset.state = "SLEEP" /\ Closed(reset) = 0
        /\ ~ reset.waitingAck /\ NoTransmission(reset.events)
    BY <2>1, ResetIsTame DEF Tame
  <2> HIDE DEF reset
  <2>3. Len(reset.events) = 0
    BY <2>2, OpenIsIdle
  <2>4. /\ Good(new) /\ new.aborted = "no" /\ new.state = "SLEEP" /\ Closed(new) = 0
        /\ ~ new.waitingAck /\ Len(new.events) = 0 /\ new.onAir = 0
        /\ new.retxLeft <= MaxNumbTx
    <3>1. reset \in DeviceType /\ OneDoSend(reset.events)
      BY <2>2, SoundType
    <3>2. /\ new \in DeviceType /\ new.events = reset.events /\ new.aborted = reset.aborted
          /\ new.state = reset.state /\ Closed(new) = Closed(reset)
          /\ new.waitingAck = reset.waitingAck /\ new.onAir = 0
          /\ new.retxLeft = reset.retxLeft
      BY <3>1 DEF DeviceType, Closed
    <3> HIDE DEF new
    <3>3. QED BY <2>2, <2>3, <3>1, <3>2 DEF Sound, Charged, Good
  <2> HIDE DEF new
  <2>5. /\ Good(ready) /\ ready.aborted = "no" /\ ready.state = "SLEEP" /\ Closed(ready) = 0
        /\ Len(ready.events) = 0 /\ ready.retxLeft <= MaxNumbTx
        /\ ready.waitingAck => ready.onAir + 1 = MaxNumbTx - ready.retxLeft
    <3>1. CASE ~ Confirmed
      BY <2>4, <3>1
    <3>2. CASE Confirmed
      <4> DEFINE v == [new EXCEPT !.packet = p, !.waitingAck = TRUE, !.retxLeft = MaxNumbTx - 1]
      <4>1. MaxNumbTx - 1 \in Byte
        BY <1>0 DEF Byte
      <4>2. /\ v \in DeviceType /\ v.events = new.events /\ v.aborted = new.aborted
            /\ v.state = new.state /\ Closed(v) = Closed(new) /\ v.onAir = new.onAir
            /\ v.retxLeft = MaxNumbTx - 1
        BY <2>4, <4>1 DEF Good, DeviceType, Closed
      <4>3. ready = v
        BY <3>2
      <4> HIDE DEF v, ready
      <4>4. QED BY <1>0, <2>4, <4>2, <4>3 DEF Good
    <3>3. QED BY <3>1, <3>2
  <2>6. t \in SendToPhy(ready)
    BY <1>1 DEF DoSend, old, reset, new
  <2> HIDE DEF ready
  <2>7. QED BY <2>5, <2>6, TransmissionStarts
<1>2. CASE p = s.packet /\ s.waitingAck
  <2> DEFINE r == [s EXCEPT !.retxLeft = (@ - 1) % 256]
  <2>1. /\ s \in DeviceType /\ OneDoSend(s.events) /\ s.retxLeft \in Nat /\ s.onAir \in Nat
    BY SoundType
  <2>2. /\ s.retxLeft > 0 /\ s.retxLeft <= MaxNumbTx /\ s.onAir = MaxNumbTx - s.retxLeft
        /\ s.aborted = "no"
    BY <1>2 DEF Sound, Charged
  <2>3. (s.retxLeft - 1) % 256 = s.retxLeft - 1 /\ s.retxLeft - 1 \in Byte
    BY <1>0, <2>1, <2>2 DEF Byte
  <2>4. /\ r \in DeviceType /\ r.events = s.events /\ r.aborted = s.aborted
        /\ r.state = s.state /\ Closed(r) = Closed(s) /\ r.onAir = s.onAir
        /\ r.waitingAck = s.waitingAck /\ r.retxLeft = s.retxLeft - 1
    BY <2>1, <2>3 DEF DeviceType, Closed
  <2>5. t \in SendToPhy(r)
    BY <1>2 DEF DoSend
  <2> HIDE DEF r
  <2>6. Len(s.events) = 0
    BY <1>2, OpenIsIdle
  <2>7. /\ Good(r) /\ r.retxLeft <= MaxNumbTx
        /\ r.onAir + 1 = MaxNumbTx - r.retxLeft
    BY <1>0, <2>1, <2>2, <2>4 DEF Good
  <2>8. QED BY <2>2, <2>4, <2>5, <2>6, <2>7, TransmissionStarts
<1>3. CASE p = s.packet /\ ~ s.waitingAck
  BY <1>3, OpenIsIdle DEF DoSend, OnDuty
<1>4. QED BY <1>1, <1>2, <1>3

-----------------------------------------------------------------------------
(* The windows *)

LEMMA AsleepFollows ==
  ASSUME NEW s, Sound(s), s.state = "SLEEP", NoTxList(s.events)
  PROVE  OnDuty(s)
BY DEF OnDuty, RadioFollows

\* An event of the windows is only pending between two transmissions, with
\* the sub-band closed.
LEMMA BetweenTransmissions ==
  ASSUME OneSubBand, NEW s, OnDuty(s), NEW k \in 1..Len(s.events),
         s.events[k].fn \notin {"SwitchToStandby", "TxFinished", "DoSend"}
  PROVE  NoTxList(s.events) /\ s.state # "TX" /\ Closed(s) > 0
<1>1. /\ s.state \in PhyStates /\ Closed(s) \in Nat /\ s.events[k].due \in Nat
      /\ Len(s.events) \in Nat
  BY SoundType DEF OnDuty
<1>2. Closed(s) > 0
  <2>1. InTime(s.events[k].fn, s.events[k].due, Closed(s))
    BY DEF OnDuty, Sound, AllInTime
  <2>2. s.events[k].due < Closed(s)
    BY <1>1, <2>1, InTimeIsBefore
  <2>3. QED BY <1>1, <2>2
<1>3. ~ OnAirList(s.events)
  <2> SUFFICES ASSUME OnAirList(s.events) PROVE FALSE
    OBVIOUS
  <2>1. PICK m \in 1..Len(s.events) : s.events[m].fn = "TxFinished"
    BY DEF OnAirList, Includes
  <2>2. m # k /\ (m < k \/ k < m)
    BY <1>1, <2>1
  <2>3. QED BY <2>1, <2>2 DEF OnAirList
<1>4. ~ LandedList(s.events)
  BY DEF LandedList
<1>5. QED
  BY <1>1, <1>2, <1>3, <1>4 DEF OnDuty, RadioFollows, PhyStates

LEMMA SameKeepsNoTx ==
  ASSUME NEW s, NEW t, Tame(s, t), NoTxList(s.events)
  PROVE  NoTxList(t.events)
BY DEF Tame, SameButSends

\* A reception ends: whatever it was, the radio sleeps and a retransmission
\* waits for the sub-band.
LEMMA EndReceiveOnDuty ==
  ASSUME OneSubBand, NEW s, Sound(s), NoTxList(s.events), Closed(s) > 0,
         NEW outcome, NEW t \in EndReceive(s, outcome)
  PROVE  OnDuty(t)
<1> DEFINE up == SwitchToStandby(s)
<1>1. /\ Sound(up) /\ up.state = "STANDBY" /\ NoTxList(up.events) /\ Closed(up) > 0
  BY StandbyIsSound
<1>2. \/ t \in FailedReception(up)
      \/ t \in ReceiveForUs(up, TRUE)
      \/ t \in ReceiveForUs(up, FALSE)
      \/ t \in ReceiveForOthers(up)
  BY DEF EndReceive
<1> HIDE DEF up
<1>3. CASE t \in FailedReception(up)
  <2> DEFINE asleep == SwitchToSleep(up)
  <2>1. /\ Sound(asleep) /\ asleep.state = "SLEEP" /\ NoTxList(asleep.events)
        /\ Closed(asleep) > 0
    BY <1>1, SleepIsSound
  <2>2. t \in RetransmitOrFail(asleep) \/ t = asleep
    BY <1>3 DEF FailedReception
  <2> HIDE DEF asleep
  <2>3. CASE t \in RetransmitOrFail(asleep)
    <3>1. Tame(asleep, t)
      BY <2>1, <2>3, RetransmitIsTame
    <3>2. NoTxList(t.events)
      BY <2>1, <3>1, SameKeepsNoTx
    <3>3. QED BY <2>1, <3>1, <3>2, AsleepFollows DEF Tame
  <2>4. CASE t = asleep
    BY <2>1, <2>4, AsleepFollows
  <2>5. QED BY <2>2, <2>3, <2>4
<1>4. ASSUME NEW ack \in BOOLEAN, t \in ReceiveForUs(up, ack)
      PROVE  OnDuty(t)
  <2> DEFINE q == Cancel(up.events, "OpenSecondReceiveWindow")
             u == [up EXCEPT !.events = q]
             v == ParseAck(u, ack)
  <2>1. t = SwitchToSleep(v)
    BY <1>4 DEF ReceiveForUs
  <2>2. up.events \in Seq(Event) /\ OneDoSend(up.events)
    BY <1>1, SoundType
  <2>3. /\ AllInTime(q, Closed(up)) /\ NoTxList(q)
        /\ \A i \in 1..Len(q) : \E m \in 1..Len(up.events) : q[i] = up.events[m]
    <3>1. AllInTime(up.events, Closed(up))
      BY <1>1 DEF Sound
    <3>2. /\ AllInTime(up.events, Closed(up)) => AllInTime(q, Closed(up))
          /\ \A g : Includes(q, g) => Includes(up.events, g)
          /\ \A i \in 1..Len(q) : \E m \in 1..Len(up.events) : q[i] = up.events[m]
      BY <2>2, CancelLists
    <3> HIDE DEF q
    <3>3. QED BY <1>1, <3>1, <3>2 DEF NoTxList
  <2>4. OneDoSend(q)
    BY <2>2, CancelKeeps
  <2> HIDE DEF q
  <2>5. \A k \in 1..Len(q) : q[k].fn = "DoSend" =>
          \E m \in 1..Len(up.events) :
            q[k].fn = up.events[m].fn /\ q[k].arg = up.events[m].arg
    BY <2>3
  <2>6. Sound(u) /\ u.state = "STANDBY" /\ u.events = q
    BY <1>1, <2>3, <2>4, <2>5, EventsAreSound
  <2> HIDE DEF u
  <2>7. Tame(u, v)
    <3>1. CASE u.waitingAck /\ ack
      BY <2>6, <3>1, ReportAndResetIsTame DEF ParseAck
    <3>2. CASE ~ (u.waitingAck /\ ack)
      BY <2>6, <3>2, SameIsReflexive DEF ParseAck, Tame
    <3>3. QED BY <3>1, <3>2
  <2> HIDE DEF v
  <2>8. Sound(v) /\ v.state = "STANDBY" /\ NoTxList(v.events)
    BY <2>3, <2>6, <2>7, SameKeepsNoTx DEF Tame
  <2>9. QED BY <2>1, <2>8, SleepIsSound, AsleepFollows
<1>5. CASE t \in ReceiveForOthers(up)
  <2>1. PICK u \in IF LastWindowUsed(up) THEN RetransmitOrFail(up) ELSE {up} :
          t = SwitchToSleep(u)
    BY <1>5 DEF ReceiveForOthers
  <2>2. Tame(up, u)
    <3>1. CASE LastWindowUsed(up)
      BY <1>1, <2>1, <3>1, RetransmitIsTame
    <3>2. CASE ~ LastWindowUsed(up)
      BY <1>1, <2>1, <3>2, SameIsReflexive DEF Tame
    <3>3. QED BY <3>1, <3>2
  <2>3. Sound(u) /\ u.state = "STANDBY" /\ NoTxList(u.events)
    BY <1>1, <2>2, SameKeepsNoTx DEF Tame
  <2>4. QED BY <2>1, <2>3, SleepIsSound, AsleepFollows
<1>6. QED BY <1>2, <1>3, <1>4, <1>5

\* The transmission is over: both windows are planned, in time.
LEMMA TxFinishedOnDuty ==
  ASSUME OneSubBand, NEW s, Sound(s), s.state = "STANDBY", NoTxList(s.events),
         InTime("TxFinished", 0, Closed(s))
  PROVE  OnDuty(TxFinished(s))
<1> DEFINE u1 == [s EXCEPT !.events = Schedule(@, "OpenFirstReceiveWindow", ReceiveDelay1, None)]
           u2 == [u1 EXCEPT !.events = Schedule(@, "OpenSecondReceiveWindow", ReceiveDelay2, None)]
           u3 == [u2 EXCEPT !.secondTs = ReceiveDelay2]
           w == Closed(s)
<1>1. /\ ReceiveDelay1 \in Nat /\ ReceiveDelay2 \in Nat /\ Window1 \in Nat /\ Window2 \in Nat
      /\ w \in Nat
  BY TimesAssumption, SoundType
<1>2. \A n \in {ReceiveDelay1 + Window1, ReceiveDelay2 + Window2}, x \in Linger : 0 + n + x < w
  BY DEF InTime, WindowsAfter
<1>3. \A x \in Linger : ReceiveDelay1 + Window1 + x < w /\ ReceiveDelay2 + Window2 + x < w
  BY <1>1, <1>2, LingerIsNat
<1>4. /\ InTime("OpenFirstReceiveWindow", ReceiveDelay1, w)
      /\ InTime("OpenSecondReceiveWindow", ReceiveDelay2, w)
  BY <1>3 DEF InTime, WindowsAfter
<1>5. /\ "OpenFirstReceiveWindow" \in Functions \ {"DoSend"}
      /\ "OpenSecondReceiveWindow" \in Functions \ {"DoSend"}
  BY DEF Functions
<1> HIDE DEF w
<1>6. /\ Sound(u1) /\ u1.state = "STANDBY" /\ Closed(u1) = w
      /\ NoTxList(u1.events)
  <2>1. /\ Sound(u1) /\ u1.state = s.state /\ Closed(u1) = Closed(s)
        /\ \A g : Includes(u1.events, g) <=> Includes(s.events, g) \/ g = "OpenFirstReceiveWindow"
    BY <1>1, <1>4, <1>5, SchedulingIsSound DEF w
  <2> HIDE DEF u1
  <2>2. QED BY <2>1 DEF NoTxList, w
<1>7. TxFinished(s) = SwitchToSleep(u3)
  <2>1. s \in DeviceType
    BY SoundType
  <2> DEFINE q1 == Schedule(s.events, "OpenFirstReceiveWindow", ReceiveDelay1, None)
             q2 == Schedule(q1, "OpenSecondReceiveWindow", ReceiveDelay2, None)
  <2>2. TxFinished(s) = SwitchToSleep([s EXCEPT !.events = q2, !.secondTs = ReceiveDelay2])
    BY DEF TxFinished
  <2>3. u1 = [s EXCEPT !.events = q1]
    OBVIOUS
  <2>4. u2 = [u1 EXCEPT !.events = Schedule(u1.events, "OpenSecondReceiveWindow", ReceiveDelay2, None)]
    OBVIOUS
  <2> HIDE DEF u1, u2
  <2>5. u1.events = q1
    <3> HIDE DEF q1
    <3>1. QED BY <2>1, <2>3 DEF DeviceType
  <2>6. u2 = [u1 EXCEPT !.events = q2]
    BY <2>4, <2>5
  <2> HIDE DEF q1, q2
  <2>7. u3 = [s EXCEPT !.events = q2, !.secondTs = ReceiveDelay2]
    BY <2>1, <2>3, <2>6 DEF DeviceType
  <2>8. QED BY <2>2, <2>7
<1> HIDE DEF u1
<1>8. /\ Sound(u2) /\ u2.state = "STANDBY" /\ NoTxList(u2.events)
  <2>1. /\ Sound(u2) /\ u2.state = u1.state
        /\ \A g : Includes(u2.events, g) <=> Includes(u1.events, g) \/ g = "OpenSecondReceiveWindow"
    BY <1>1, <1>4, <1>5, <1>6, SchedulingIsSound
  <2> HIDE DEF u2
  <2>2. QED BY <1>6, <2>1 DEF NoTxList
<1> HIDE DEF u2
<1>9. Sound(u3) /\ u3.state = "STANDBY" /\ NoTxList(u3.events)
  <2>1. u2 \in DeviceType
    BY <1>8, SoundType
  <2>2. /\ u3 \in DeviceType /\ u3.events = u2.events /\ u3.state = u2.state
        /\ u3.aborted = u2.aborted /\ Closed(u3) = Closed(u2) /\ u3.retxLeft = u2.retxLeft
        /\ u3.waitingAck = u2.waitingAck /\ u3.onAir = u2.onAir /\ u3.packet = u2.packet
    BY <1>1, <2>1 DEF DeviceType, Closed
  <2> HIDE DEF u3
  <2>3. Good(u3)
    BY <1>8, <2>2 DEF Sound, Good
  <2>4. QED BY <1>8, <2>2, <2>3, SoundDependsOn
<1> HIDE DEF u3
<1>10. QED BY <1>7, <1>9, SleepIsSound, AsleepFollows

\* A window opens, with time left for it and for what it may receive.
LEMMA OpeningOnDuty ==
  ASSUME OneSubBand, NEW s, Sound(s), NoTxList(s.events),
         NEW f \in {"CloseFirstReceiveWindow", "CloseSecondReceiveWindow"}, NEW d \in Nat,
         \A x \in Linger : d + x < Closed(s)
  PROVE  OnDuty([SwitchToStandby(s) EXCEPT !.events = Schedule(@, f, d, None)])
<1> DEFINE u == SwitchToStandby(s)
           t == [u EXCEPT !.events = Schedule(@, f, d, None)]
<1>1. Sound(u) /\ u.state = "STANDBY" /\ u.events = s.events /\ Closed(u) = Closed(s)
  BY StandbyIsSound
<1>2. f \in Functions \ {"DoSend"}
  BY DEF Functions
<1>3. InTime(f, d, Closed(u))
  <2>1. WindowsAfter(f) = {0} /\ d + 0 = d
    BY DEF WindowsAfter
  <2>2. QED BY <1>1, <2>1 DEF InTime
<1> HIDE DEF u
<1>4. /\ Sound(t) /\ t.state = u.state
      /\ \A g : Includes(t.events, g) <=> Includes(u.events, g) \/ g = f
  BY <1>1, <1>2, <1>3, SchedulingIsSound
<1> HIDE DEF t
<1>5. NoTxList(t.events) /\ Closing(t.events)
  BY <1>1, <1>4 DEF NoTxList, Closing
<1>6. OnDuty(t)
  BY <1>1, <1>4, <1>5 DEF OnDuty, RadioFollows
<1>7. QED BY <1>6 DEF t, u

LEMMA CloseSecondOnDuty ==
  ASSUME OneSubBand, NEW s, Sound(s), NoTxList(s.events), Closed(s) > 0,
         \/ s.state \in {"SLEEP", "STANDBY"}
         \/ s.state = "RX" /\ Includes(s.events, "EndReceive"),
         NEW t \in CloseSecondReceiveWindow(s)
  PROVE  OnDuty(t)
<1>1. CASE s.state = "RX"
  <2>1. t = s
    BY <1>1 DEF CloseSecondReceiveWindow
  <2>2. QED BY <1>1, <2>1 DEF OnDuty, RadioFollows
<1>2. CASE s.state # "RX"
  <2> DEFINE closed == IF s.state = "STANDBY" THEN SwitchToSleep(s) ELSE s
  <2>1. \/ t \in RetransmitOrFail(closed)
        \/ t = resetRetransmissionParameters(Report(closed, TRUE))
    BY <1>2 DEF CloseSecondReceiveWindow
  <2>2. /\ Sound(closed) /\ closed.state = "SLEEP" /\ NoTxList(closed.events)
        /\ Closed(closed) > 0
    BY <1>2, SleepIsSound
  <2> HIDE DEF closed
  <2>3. Tame(closed, t)
    BY <2>1, <2>2, RetransmitIsTame, ReportAndResetIsTame
  <2>4. NoTxList(t.events)
    BY <2>2, <2>3, SameKeepsNoTx
  <2>5. QED BY <2>2, <2>3, <2>4, AsleepFollows DEF Tame
<1>3. QED BY <1>1, <1>2

-----------------------------------------------------------------------------
(* The steps *)

LEMMA ClearedIsOnDuty ==
  ASSUME OnDuty(ed)
  PROVE  LET c == [ed EXCEPT !.report = NoReport]
         IN  OnDuty(c) /\ c.events = ed.events /\ c.state = ed.state /\ c.packet = ed.packet
             /\ Closed(c) = Closed(ed)
<1> DEFINE c == [ed EXCEPT !.report = NoReport]
<1>1. Good(c)
  BY ClearReport DEF OnDuty, Sound
<1>2. /\ c.aborted = ed.aborted /\ c.events = ed.events /\ Closed(c) = Closed(ed)
      /\ c.retxLeft = ed.retxLeft /\ c.waitingAck = ed.waitingAck /\ c.onAir = ed.onAir
      /\ c.packet = ed.packet /\ c.state = ed.state
  BY DEF OnDuty, Sound, Good, DeviceType, Closed
<1> HIDE DEF c
<1>3. Sound(c)
  BY <1>1, <1>2, SoundDependsOn DEF OnDuty
<1>4. RadioFollows(c)
  BY <1>2 DEF OnDuty, RadioFollows
<1>5. QED BY <1>2, <1>3, <1>4 DEF OnDuty, c

\* The device as the next event finds it.
LEMMA PoppedIsSound ==
  ASSUME OneSubBand, OnDuty(ed), NEW i \in 1..Len(ed.events)
  PROVE  LET u == Popped(i)
         IN  /\ Sound(u) /\ u.events = Without(ed.events, i) /\ u.state = ed.state
             /\ Closed(u) = Closed(ed) /\ u.packet = ed.packet
             /\ u.waitingAck = ed.waitingAck /\ u.retxLeft = ed.retxLeft
<1> DEFINE c == [ed EXCEPT !.report = NoReport]
           q == Without(ed.events, i)
           t == [c EXCEPT !.events = q]
<1>1. OnDuty(c) /\ c.events = ed.events /\ c.state = ed.state
  BY ClearedIsOnDuty
<1>2. /\ ed \in DeviceType /\ OneDoSend(ed.events) /\ ed.events \in Seq(Event)
  BY SoundType DEF OnDuty
<1>3. Popped(i) = t
  BY <1>2 DEF Popped, DeviceType
<1>4. /\ c.retxLeft = ed.retxLeft /\ c.waitingAck = ed.waitingAck /\ c.packet = ed.packet
      /\ Closed(c) = Closed(ed)
  BY <1>2 DEF DeviceType, Closed
<1> HIDE DEF c
<1>5. OneDoSend(q)
  BY <1>2, WithoutKeeps
<1>6. AllInTime(q, Closed(c))
  BY <1>1, <1>2, WithoutLists DEF OnDuty, Sound
<1>7. \A k \in 1..Len(q) : \E m \in 1..Len(c.events) : q[k] = c.events[m]
  <2>1. \A k \in 1..Len(q) : \E m \in 1..Len(ed.events) : m # i /\ q[k] = ed.events[m]
    BY <1>2, WithoutMoves
  <2>2. QED BY <1>1, <2>1
<1> HIDE DEF q
<1>8. \A k \in 1..Len(q) : q[k].fn = "DoSend" =>
        \E m \in 1..Len(c.events) : q[k].fn = c.events[m].fn /\ q[k].arg = c.events[m].arg
  BY <1>7
<1>9. /\ Sound(t) /\ t.state = c.state /\ t.events = q /\ Closed(t) = Closed(c)
  BY <1>1, <1>5, <1>6, <1>8, EventsAreSound DEF OnDuty
<1>10. t.packet = c.packet /\ t.waitingAck = c.waitingAck /\ t.retxLeft = c.retxLeft
  <2>1. c \in DeviceType
    BY <1>1, SoundType DEF OnDuty
  <2>2. QED BY <2>1 DEF DeviceType
<1> HIDE DEF t
<1>11. QED BY <1>1, <1>3, <1>4, <1>9, <1>10 DEF q

\* Running an event.
LEMMA EventOnDuty ==
  ASSUME OneSubBand, DutyOutlasts, OnDuty(ed), NEW i \in DOMAIN ed.events,
         \/ RunSwitchToStandby(i) \/ RunTxFinished(i) \/ RunOpenFirst(i)
         \/ RunCloseFirst(i) \/ RunOpenSecond(i) \/ RunCloseSecond(i)
         \/ RunDoSend(i) \/ RunEndReceive(i)
  PROVE  OnDuty(ed')
<1> DEFINE q == ed.events
           u == Popped(i)
           w == Closed(ed)
<1>1. /\ Sound(ed) /\ q \in Seq(Event) /\ Len(q) \in Nat /\ i \in 1..Len(q)
      /\ w \in Nat /\ ed.state \in PhyStates
      /\ \A k \in 1..Len(q) : q[k] \in Event /\ q[k].due \in Nat
  BY SoundType DEF OnDuty
<1>2. /\ Sound(u) /\ u.events = Without(q, i) /\ u.state = ed.state /\ Closed(u) = w
      /\ u.packet = ed.packet /\ u.waitingAck = ed.waitingAck /\ u.retxLeft = ed.retxLeft
  BY <1>1, PoppedIsSound
<1>3. /\ q[i].due = 0 /\ \A j \in 1..Len(q) : j < i => q[j].due # 0
  BY <1>1, LenProperties
     DEF RunSwitchToStandby, RunTxFinished, RunOpenFirst, RunCloseFirst,
         RunOpenSecond, RunCloseSecond, RunDoSend, RunEndReceive, RunsNext, IsNext
<1>4. InTime(q[i].fn, 0, w)
  BY <1>1, <1>3 DEF Sound, AllInTime
<1>5. /\ \A f : Includes(u.events, f) => Includes(q, f)
      /\ \A f : Includes(q, f) /\ q[i].fn # f => Includes(u.events, f)
  <2>1. /\ \A f : Includes(Without(q, i), f) => Includes(q, f)
        /\ \A f : Includes(q, f) /\ q[i].fn # f => Includes(Without(q, i), f)
    BY <1>1, WithoutLists
  <2>2. QED BY <1>2, <2>1
<1>6. /\ Without(q, i) \in Seq(Event)
      /\ \A k \in 1..Len(Without(q, i)) : \E m \in 1..Len(q) : m # i /\ Without(q, i)[k] = q[m]
      /\ \A k, l \in 1..Len(Without(q, i)) : k < l =>
           \E m, n \in 1..Len(q) : m < n /\ Without(q, i)[k] = q[m] /\ Without(q, i)[l] = q[n]
  BY <1>1, WithoutMoves
<1>7. q[i].fn \notin {"SwitchToStandby", "TxFinished", "DoSend"} =>
        /\ NoTxList(u.events) /\ NoTxList(q) /\ u.state # "TX" /\ w > 0
  <2>1. q[i].fn \notin {"SwitchToStandby", "TxFinished", "DoSend"} =>
          NoTxList(q) /\ ed.state # "TX" /\ w > 0
    BY <1>1, BetweenTransmissions
  <2>2. NoTxList(q) => NoTxList(u.events)
    BY <1>5 DEF NoTxList
  <2>3. QED BY <1>2, <2>1, <2>2
<1>8. ASSUME NoTxList(q)
      PROVE  /\ ed.state = "RX" => Includes(q, "EndReceive")
             /\ ed.state \in {"SLEEP", "STANDBY", "RX"}
  <2>1. ~ OnAirList(q)
    BY <1>8 DEF OnAirList, NoTxList
  <2>2. QED BY <1>1, <2>1 DEF OnDuty, RadioFollows, PhyStates
<1> HIDE DEF u, w
<1>9. CASE RunSwitchToStandby(i)
  <2>1. ed' = SwitchToStandby(u) /\ q[i].fn = "SwitchToStandby"
    BY <1>9 DEF RunSwitchToStandby, RunsNext, u
  <2>2. OnAirList(q)
    <3>1. Includes(q, "SwitchToStandby")
      BY <1>1, <2>1 DEF Includes
    <3>2. ~ NoTxList(q) /\ ~ LandedList(q)
      BY <1>1, <2>1, <3>1 DEF NoTxList, LandedList
    <3>3. QED BY <1>1, <3>2 DEF OnDuty, RadioFollows, PhyStates
  <2>3. Includes(u.events, "TxFinished")
    BY <1>5, <2>1, <2>2 DEF OnAirList
  <2>4. \A m \in 1..Len(q) : m # i /\ q[m].fn # "DoSend" =>
          q[m].fn = "TxFinished" /\ q[m].due = 0 /\ i < m
    <3> SUFFICES ASSUME NEW m \in 1..Len(q), m # i, q[m].fn # "DoSend"
                 PROVE  q[m].fn = "TxFinished" /\ q[m].due = 0 /\ i < m
      OBVIOUS
    <3>1. CASE i < m
      BY <1>1, <1>3, <2>1, <2>2, <3>1 DEF OnAirList
    <3>2. CASE m < i
      BY <1>1, <2>1, <2>2, <3>2 DEF OnAirList
    <3>3. QED BY <1>1, <3>1, <3>2
  <2>5. LandedList(u.events)
    <3> DEFINE r == u.events
    <3>1. /\ \A k \in 1..Len(r) : \E m \in 1..Len(q) : m # i /\ r[k] = q[m]
          /\ \A k, l \in 1..Len(r) : k < l =>
               \E m, n \in 1..Len(q) : m < n /\ r[k] = q[m] /\ r[l] = q[n]
          /\ r \in Seq(Event)
      BY <1>2, <1>6 DEF r
    <3>2. Len(r) \in Nat
      BY <3>1, LenProperties
    <3> HIDE DEF r
    <3>3. \A k \in 1..Len(r) :
            r[k].fn # "DoSend" => r[k].fn = "TxFinished" /\ r[k].due = 0
      <4> DEFINE Landed(e) == e.fn # "DoSend" => e.fn = "TxFinished" /\ e.due = 0
      <4>1. \A m \in 1..Len(q) : m # i => Landed(q[m])
        BY <2>4
      <4>2. \A k \in 1..Len(r) : \E m \in 1..Len(q) : m # i /\ r[k] = q[m]
        BY <3>1
      <4> HIDE DEF Landed
      <4>3. \A k \in 1..Len(r) : Landed(r[k])
        BY ONLY <4>1, <4>2, Zenon
      <4>4. QED BY <4>3 DEF Landed
    <3>4. ASSUME NEW k \in 1..Len(r), NEW l \in 1..Len(r), k < l,
                 r[k].fn # "DoSend", r[l].fn # "DoSend"
          PROVE  FALSE
      <4>1. PICK m \in 1..Len(q) : \E n \in 1..Len(q) : m < n /\ r[k] = q[m] /\ r[l] = q[n]
        BY <3>1, <3>4
      <4>2. PICK n \in 1..Len(q) : m < n /\ r[k] = q[m] /\ r[l] = q[n]
        BY <4>1
      <4>3. q[m].fn = "SwitchToStandby"
        BY <2>2, <3>4, <4>2 DEF OnAirList
      <4>4. r[k].fn = "TxFinished"
        BY <3>3, <3>4
      <4>5. QED BY <4>2, <4>3, <4>4
    <3>5. \A k, l \in 1..Len(r) : r[k].fn # "DoSend" /\ r[l].fn # "DoSend" => k = l
      BY <3>2, <3>4
    <3>6. LandedList(r)
      BY <2>3, <3>3, <3>5 DEF LandedList, r
    <3>7. QED BY <3>6 DEF r
  <2>6. /\ Sound(ed') /\ ed'.state = "STANDBY" /\ ed'.events = u.events
    BY <1>2, <2>1, StandbyIsSound
  <2>7. QED BY <2>5, <2>6 DEF OnDuty, RadioFollows
<1>10. CASE RunTxFinished(i)
  <2>1. ed' = TxFinished(u) /\ q[i].fn = "TxFinished"
    BY <1>10 DEF RunTxFinished, RunsNext, u
  <2>2. ~ OnAirList(q)
    <3> SUFFICES ASSUME OnAirList(q) PROVE FALSE
      OBVIOUS
    <3>1. PICK m \in 1..Len(q) : q[m].fn = "SwitchToStandby"
      BY DEF OnAirList, Includes
    <3>2. m # i /\ (m < i \/ i < m)
      BY <1>1, <2>1, <3>1
    <3>3. m < i /\ q[m].due = q[i].due
      BY <1>1, <2>1, <3>1, <3>2 DEF OnAirList
    <3>4. QED BY <1>1, <1>3, <3>3
  <2>3. LandedList(q) /\ ed.state = "STANDBY"
    <3>1. Includes(q, "TxFinished")
      BY <1>1, <2>1 DEF Includes
    <3>2. ~ NoTxList(q)
      BY <3>1 DEF NoTxList
    <3>3. QED BY <1>1, <2>2, <3>2 DEF OnDuty, RadioFollows, PhyStates
  <2>4. NoTxList(u.events)
    <3>1. \A k \in 1..Len(u.events) : \E m \in 1..Len(q) : m # i /\ u.events[k] = q[m]
      BY <1>2, <1>6
    <3>2. \A k \in 1..Len(u.events) : u.events[k].fn = "DoSend"
      BY <1>1, <2>1, <2>3, <3>1 DEF LandedList
    <3>3. QED BY <3>2 DEF NoTxList, Includes
  <2>5. QED BY <1>2, <1>4, <2>1, <2>3, <2>4, TxFinishedOnDuty
<1>11. CASE RunOpenFirst(i)
  <2>1. ed' = OpenFirstReceiveWindow(u) /\ q[i].fn = "OpenFirstReceiveWindow"
    BY <1>11 DEF RunOpenFirst, RunsNext, u
  <2>2. \A x \in Linger : Window1 + x < w
    <3>1. \A n \in {Window1}, x \in Linger : 0 + n + x < w
      BY <1>4, <2>1 DEF InTime, WindowsAfter
    <3>2. QED BY <3>1, TimesAssumption, LingerIsNat
  <2>3. NoTxList(u.events) /\ Window1 \in Nat
    BY <1>7, <2>1, TimesAssumption
  <2>4. QED BY <1>2, <2>1, <2>2, <2>3, OpeningOnDuty DEF OpenFirstReceiveWindow
<1>12. CASE RunCloseFirst(i)
  <2>1. ed' = CloseFirstReceiveWindow(u) /\ q[i].fn = "CloseFirstReceiveWindow"
    BY <1>12 DEF RunCloseFirst, RunsNext, u
  <2>2. NoTxList(u.events) /\ NoTxList(q)
    BY <1>7, <2>1
  <2>3. /\ u.state = "RX" => Includes(u.events, "EndReceive")
        /\ u.state \in {"SLEEP", "STANDBY", "RX"}
    BY <1>2, <1>5, <1>8, <2>1, <2>2
  <2>4. CASE u.state = "STANDBY"
    <3>1. ed' = SwitchToSleep(u)
      BY <2>1, <2>4 DEF CloseFirstReceiveWindow
    <3>2. QED BY <1>2, <2>2, <2>4, <3>1, SleepIsSound, AsleepFollows
  <2>5. CASE u.state \in {"SLEEP", "RX"}
    <3>1. ed' = u
      BY <2>1, <2>5 DEF CloseFirstReceiveWindow
    <3>2. QED BY <1>2, <2>2, <2>3, <2>5, <3>1 DEF OnDuty, RadioFollows
  <2>6. QED BY <2>3, <2>4, <2>5
<1>13. CASE RunOpenSecond(i)
  <2>1. ed' = OpenSecondReceiveWindow(u) /\ q[i].fn = "OpenSecondReceiveWindow"
    BY <1>13 DEF RunOpenSecond, RunsNext, u
  <2>2. \A x \in Linger : Window2 + x < w
    <3>1. \A n \in {Window2}, x \in Linger : 0 + n + x < w
      BY <1>4, <2>1 DEF InTime, WindowsAfter
    <3>2. QED BY <3>1, TimesAssumption, LingerIsNat
  <2>3. NoTxList(u.events) /\ NoTxList(q) /\ Window2 \in Nat
    BY <1>7, <2>1, TimesAssumption
  <2>4. CASE u.state = "RX"
    <3>1. ed' = u
      BY <2>1, <2>4 DEF OpenSecondReceiveWindow
    <3>2. Includes(u.events, "EndReceive")
      BY <1>2, <1>5, <1>8, <2>1, <2>3, <2>4
    <3>3. QED BY <1>2, <2>3, <2>4, <3>1, <3>2 DEF OnDuty, RadioFollows
  <2>5. CASE u.state # "RX"
    BY <1>2, <2>1, <2>2, <2>3, <2>5, OpeningOnDuty DEF OpenSecondReceiveWindow
  <2>6. QED BY <2>4, <2>5
<1>14. CASE RunCloseSecond(i)
  <2>1. ed' \in CloseSecondReceiveWindow(u) /\ q[i].fn = "CloseSecondReceiveWindow"
    BY <1>14 DEF RunCloseSecond, RunsNext, u
  <2>2. NoTxList(u.events) /\ NoTxList(q) /\ w > 0
    BY <1>7, <2>1
  <2>3. /\ u.state = "RX" => Includes(u.events, "EndReceive")
        /\ u.state \in {"SLEEP", "STANDBY", "RX"}
    BY <1>2, <1>5, <1>8, <2>1, <2>2
  <2>4. \/ u.state \in {"SLEEP", "STANDBY"}
        \/ u.state = "RX" /\ Includes(u.events, "EndReceive")
    BY <2>3
  <2>5. Sound(u) /\ Closed(u) > 0
    BY <1>2, <2>2
  <2>6. QED BY <2>1, <2>2, <2>4, <2>5, CloseSecondOnDuty
<1>15. CASE RunDoSend(i)
  <2>1. ed' \in DoSend(u, q[i].arg) /\ q[i].fn = "DoSend"
    BY <1>15 DEF RunDoSend, RunsNext, u
  <2>2. w = 0
    BY <1>1, <1>4, <2>1 DEF InTime
  <2>3. u.state = "SLEEP"
    BY <1>1, <1>2, <2>2, OpenIsIdle DEF OnDuty, w
  <2>4. NoTransmission(u.events)
    BY <1>1, <1>2, <2>1, WithoutKeeps DEF Sound, Good
  <2>5. q[i].arg \in MaybePacket
    BY <1>1 DEF Event
  <2>6. q[i].arg = u.packet => (u.waitingAck => u.retxLeft > 0)
    BY <1>1, <1>2, <2>1 DEF Sound, Charged
  <2>7. QED BY <1>2, <2>1, <2>2, <2>3, <2>4, <2>5, <2>6, DoSendStarts
<1>16. CASE RunEndReceive(i)
  <2>1. (\E outcome \in Outcomes : ed' \in EndReceive(u, outcome)) /\ q[i].fn = "EndReceive"
    BY <1>16 DEF RunEndReceive, RunsNext, u
  <2>2. QED BY <1>2, <1>7, <2>1, EndReceiveOnDuty
<1>17. QED
  BY <1>9, <1>10, <1>11, <1>12, <1>13, <1>14, <1>15, <1>16

\* The application may act at any instant: a packet that would disturb waits.
LEMMA AppSendOnDuty ==
  ASSUME OneSubBand, DutyOutlasts, OnDuty(ed), NEW p \in Packets, AppSend(p)
  PROVE  OnDuty(ed')
<1> DEFINE c == [ed EXCEPT !.report = NoReport]
<1>1. /\ OnDuty(c) /\ c.events = ed.events /\ c.packet = ed.packet
  BY ClearedIsOnDuty
<1>2. ed' \in Send(c, p) /\ p # c.packet
  BY <1>1 DEF AppSend, Fresh
<1> HIDE DEF c
<1>3. /\ Sound(c) /\ RadioFollows(c) /\ c \in DeviceType /\ Closed(c) \in Nat
      /\ c.state \in PhyStates /\ p \in MaybePacket
  BY <1>1, SoundType DEF OnDuty, MaybePacket
<1>4. PICK delay \in GetNextTransmissionDelay(c) : ed' \in SendWithDelay(c, p, delay)
  BY <1>2 DEF Send, TooLarge
<1>5. delay \in Nat /\ Closed(c) <= delay
  BY <1>3, DelayOutlasts
<1>6. CASE delay # 0
  <2>1. ed' = postponeTransmission(c, delay, p)
    BY <1>4, <1>6 DEF SendWithDelay
  <2>2. Tame(c, ed')
    BY <1>2, <1>3, <1>5, <2>1, PostponeIsTame
  <2>3. QED BY <1>3, <2>2, TameFollows
<1>7. CASE delay = 0
  <2>1. Closed(c) = 0
    BY <1>3, <1>5, <1>7
  <2>2. ed' \in DoSend(c, p) \/ ed' = c
    BY <1>4, <1>7 DEF SendWithDelay
  <2>3. c.state = "SLEEP"
    BY <1>3, <2>1, OpenIsIdle
  <2>4. CASE ed' \in DoSend(c, p)
    BY <1>2, <1>3, <2>1, <2>3, <2>4, DoSendStarts
  <2>5. QED BY <1>1, <2>2, <2>4
<1>8. QED BY <1>6, <1>7

\* A signal begins while a window is open, and ends before the sub-band
\* reopens.  It never begins between SwitchToStandby and TxFinished.
LEMMA StartReceiveOnDuty ==
  ASSUME OneSubBand, ~ TxGap, OnDuty(ed), NEW d \in RxTimes, StartReceive(d)
  PROVE  OnDuty(ed')
<1> DEFINE c == [ed EXCEPT !.report = NoReport]
           u == [c EXCEPT !.events = Schedule(@, "EndReceive", d, None)]
           q == ed.events
<1>1. /\ Sound(ed) /\ q \in Seq(Event) /\ DOMAIN q = 1..Len(q) /\ Closed(ed) \in Nat
      /\ ed \in DeviceType /\ \A k \in 1..Len(q) : q[k].due \in Nat
  BY SoundType DEF OnDuty
<1>2. ~ LandedList(q)
  <2> SUFFICES ASSUME LandedList(q) PROVE FALSE
    OBVIOUS
  <2>1. Scheduled("TxFinished")
    BY <1>1 DEF LandedList, Includes, Scheduled
  <2>2. Scheduled("SwitchToStandby")
    BY <2>1 DEF StartReceive, OutsideMayAct
  <2>3. QED BY <1>1, <2>2 DEF LandedList, Scheduled
<1>3. NoTxList(q) /\ Closing(q)
  BY <1>2 DEF OnDuty, RadioFollows, StartReceive
<1>4. d \in Nat /\ d \in Linger
  BY TimesAssumption DEF Linger
<1>5. d < Closed(ed)
  <2>1. PICK k \in 1..Len(q) : q[k].fn \in {"CloseFirstReceiveWindow", "CloseSecondReceiveWindow"}
    BY <1>3 DEF Closing, Includes
  <2>2. InTime(q[k].fn, q[k].due, Closed(ed))
    BY <1>1 DEF Sound, AllInTime
  <2>3. \A n \in {0}, x \in Linger : q[k].due + n + x < Closed(ed)
    BY <2>1, <2>2 DEF InTime, WindowsAfter
  <2>4. q[k].due + 0 + d < Closed(ed)
    BY <1>4, <2>3
  <2>5. QED BY <1>1, <1>4, <2>4
<1>6. "EndReceive" \in Functions \ {"DoSend"} /\ InTime("EndReceive", d, Closed(ed))
  BY <1>5 DEF Functions, InTime
<1>7. OnDuty(c) /\ c.events = q /\ Closed(c) = Closed(ed)
  BY ClearedIsOnDuty
<1>8. ed' = [u EXCEPT !.state = "RX"]
  BY <1>1 DEF StartReceive, DeviceType
<1> HIDE DEF c
<1>9. /\ Sound(u) /\ \A g : Includes(u.events, g) <=> Includes(c.events, g) \/ g = "EndReceive"
  BY <1>4, <1>6, <1>7, SchedulingIsSound DEF OnDuty
<1> HIDE DEF u
<1>10. u \in DeviceType
  BY <1>9, SoundType
<1>11. /\ ed' \in DeviceType /\ ed'.events = u.events /\ ed'.state = "RX"
       /\ ed'.aborted = u.aborted /\ Closed(ed') = Closed(u) /\ ed'.retxLeft = u.retxLeft
       /\ ed'.waitingAck = u.waitingAck /\ ed'.onAir = u.onAir /\ ed'.packet = u.packet
  BY <1>8, <1>10 DEF DeviceType, Closed, PhyStates
<1>12. Sound(ed')
  <2>1. Good(ed')
    BY <1>9, <1>11 DEF Sound, Good
  <2>2. QED BY <1>9, <1>11, <2>1, SoundDependsOn
<1>13. NoTxList(ed'.events) /\ Includes(ed'.events, "EndReceive")
  BY <1>3, <1>7, <1>9, <1>11 DEF NoTxList
<1>14. QED BY <1>11, <1>12, <1>13 DEF OnDuty, RadioFollows

\* A tick brings the events and the opening of the sub-band closer alike.
LEMMA TickOnDuty ==
  ASSUME OneSubBand, OnDuty(ed), IInv, Tick
  PROVE  OnDuty(ed')
<1> DEFINE q == ed.events
           w == [b \in SubBands |-> Later(ed.wait[b] - 1, 0)]
           n == Later(ed.secondTs - 1, 0 - TsFloor)
           t == [ed EXCEPT !.report = NoReport, !.events = Elapse(q), !.wait = w, !.secondTs = n]
<1>1. /\ Sound(ed) /\ q \in Seq(Event) /\ Closed(ed) \in Nat /\ ed \in DeviceType
      /\ ed.state \in PhyStates /\ RadioFollows(ed)
  BY SoundType DEF OnDuty
<1>2. ed' = t /\ Quiet(q)
  BY DEF Tick, OneTickLater
<1>3. /\ ed'.events = Elapse(q) /\ ed'.state = ed.state /\ ed'.aborted = ed.aborted
      /\ ed'.retxLeft = ed.retxLeft /\ ed'.waitingAck = ed.waitingAck
      /\ ed'.onAir = ed.onAir /\ ed'.packet = ed.packet /\ ed'.wait = w
  BY <1>1, <1>2 DEF DeviceType
<1>4. Closed(ed') = Later(Closed(ed) - 1, 0)
  BY <1>3, BandProperties DEF Closed
<1>5. Good(ed')
  BY StepKeeps DEF Next, Keeps
<1>6. /\ AllInTime(q, Closed(ed)) => AllInTime(Elapse(q), Later(Closed(ed) - 1, 0))
      /\ \A i \in 1..Len(Elapse(q)) : i \in 1..Len(q) /\ Elapse(q)[i].fn = q[i].fn
                                      /\ Elapse(q)[i].arg = q[i].arg
      /\ SameButSends(q, Elapse(q))
  BY <1>1, <1>2, ElapseMoves
<1> HIDE DEF w, n, t
<1>7. Charged(ed')
  BY <1>1, <1>3, <1>6 DEF Sound, Charged
<1>8. Sound(ed')
  BY <1>1, <1>3, <1>4, <1>5, <1>6, <1>7 DEF Sound
<1>9. RadioFollows(ed')
  <2>1. {"EndReceive", "CloseFirstReceiveWindow", "CloseSecondReceiveWindow"}
          \subseteq Functions \ {"DoSend"}
    BY DEF Functions
  <2>2. /\ OnAirList(q) => OnAirList(ed'.events)
        /\ LandedList(q) => LandedList(ed'.events)
        /\ NoTxList(q) => NoTxList(ed'.events)
        /\ Includes(q, "EndReceive") => Includes(ed'.events, "EndReceive")
        /\ Closing(q) => Closing(ed'.events)
    BY <1>3, <1>6, <2>1 DEF SameButSends, Closing
  <2>3. QED BY <1>1, <1>3, <2>2 DEF RadioFollows, PhyStates
<1>10. QED BY <1>8, <1>9 DEF OnDuty

LEMMA InitIsOnDuty ==
  ASSUME OneSubBand, Init
  PROVE  OnDuty(ed)
<1>1. Good(ed)
  BY InitIsGood DEF IInv
<1>2. /\ ed.events = <<>> /\ ed.state = "SLEEP" /\ ed.aborted = "no" /\ ~ ed.waitingAck
      /\ ed.retxLeft = MaxNumbTx
  BY DEF Init, InitialDevice
<1>3. Len(ed.events) = 0
  BY <1>2, EmptySeq
<1>4. AllInTime(ed.events, Closed(ed)) /\ Charged(ed) /\ NoTxList(ed.events)
  BY <1>2, <1>3, RadioAssumption DEF AllInTime, Charged, NoTxList, Includes
<1>5. QED BY <1>1, <1>2, <1>4 DEF OnDuty, Sound, RadioFollows

THEOREM DutyInvariance ==
  ASSUME OneSubBand, DutyOutlasts, ~ TxGap
  PROVE  Spec => []OnDuty(ed)
<1>1. Init => OnDuty(ed)
  BY InitIsOnDuty
<1>2. OnDuty(ed) /\ [Next]_vars => OnDuty(ed)'
  <2> SUFFICES ASSUME OnDuty(ed), [Next]_vars PROVE OnDuty(ed')
    OBVIOUS
  <2>1. IInv
    BY DEF OnDuty, Sound, IInv
  <2>2. CASE RunEvent
    BY <2>2, EventOnDuty DEF RunEvent
  <2>3. ASSUME NEW p \in Packets, AppSend(p) PROVE OnDuty(ed')
    BY <2>3, AppSendOnDuty
  <2>4. ASSUME NEW d \in RxTimes, StartReceive(d) PROVE OnDuty(ed')
    BY <2>4, StartReceiveOnDuty
  <2>5. CASE Tick
    BY <2>1, <2>5, TickOnDuty
  <2>6. CASE UNCHANGED vars
    BY <2>6 DEF vars
  <2>7. QED BY <2>2, <2>3, <2>4, <2>5, <2>6 DEF Next
<1>3. QED BY <1>1, <1>2, PTL DEF Spec

\* Under such a duty cycle no assertion of the radio fires, no window closes
\* on a transmission, and a channel is free whenever a packet is sent.
THEOREM NeverAborts ==
  ASSUME OneSubBand, DutyOutlasts, ~ TxGap
  PROVE  Spec => []NoAbort
<1>1. OnDuty(ed) => NoAbort
  BY DEF OnDuty, Sound, NoAbort
<1>2. QED BY <1>1, DutyInvariance, PTL

\* A transmission never overlaps the windows of the one before: while the
\* radio sends, nothing is pending but its end and a later transmission.
THEOREM WindowsKeptQuiet ==
  ASSUME OneSubBand, DutyOutlasts, ~ TxGap
  PROVE  Spec => []WindowsAreQuiet
<1>1. OnDuty(ed) => WindowsAreQuiet
  <2> SUFFICES ASSUME OnDuty(ed), ed.state = "TX", NEW i \in DOMAIN ed.events
               PROVE  ed.events[i].fn \notin {"OpenFirstReceiveWindow", "CloseFirstReceiveWindow",
                                              "OpenSecondReceiveWindow", "CloseSecondReceiveWindow"}
    BY DEF WindowsAreQuiet
  <2>1. i \in 1..Len(ed.events)
    BY SoundType DEF OnDuty
  <2>2. QED BY <2>1, BetweenTransmissions
<1>2. QED BY <1>1, DutyInvariance, PTL

\* Every attempt charged to the budget left the antenna: the radio is never
\* busy when it is asked to send.
THEOREM AttemptsAreSent ==
  ASSUME OneSubBand, DutyOutlasts, ~ TxGap
  PROVE  Spec => []AttemptsOnAir
<1>1. OnDuty(ed) => AttemptsOnAir
  BY DEF OnDuty, Sound, Charged, AttemptsOnAir
<1>2. QED BY <1>1, DutyInvariance, PTL

\* The budget is never exceeded and its uint8_t counter never wraps, which
\* without such a duty cycle it does.
THEOREM BudgetAlwaysKept ==
  ASSUME OneSubBand, DutyOutlasts, ~ TxGap
  PROVE  Spec => []BudgetKept
<1>1. OnDuty(ed) => BudgetKept
  BY DEF OnDuty, Sound, Charged, BudgetKept
<1>2. QED BY <1>1, DutyInvariance, PTL
=============================================================================
