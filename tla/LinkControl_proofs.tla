-------------------------- MODULE LinkControl_proofs --------------------------
(***************************************************************************)
(* Proofs about LinkControl, for any gateways, losses, channels, attributes *)
(* of the components and commands of the user's own; and, in the last part, *)
(* about FrameHeader, the frames that carry the commands, for any fields,   *)
(* commands and payload.                                                   *)
(***************************************************************************)
EXTENDS LinkControl, FrameHeader, FiniteSetTheorems, WellFoundedInduction, TLAPS

Fields ==
  {"dataRate", "txPower", "channels", "rx1DrOffset", "rx2DataRate", "rx2Frequency", "aggregatedDutyCycle",
   "gatewayCount", "commands", "waitingAck", "retxLeft", "alive"}

\* What the proof needs of the device: that it is a record, no more.
IsDevice(d) == DOMAIN d = Fields /\ d = [f \in Fields |-> d[f]] /\ d.waitingAck \in BOOLEAN

\* The parts of the inductive invariant.  While the device waits for an ACK,
\* what it has queued are link checks, and no reply is being parsed: the ACK of
\* the reply came first.
OnlyLinkChecks(d) == d.waitingAck => Confirmed /\ d.commands \in Seq({LinkCheckReq})

AckFirst == phase = "parsing" => ~device.waitingAck

IInv == IsDevice(device) /\ OnlyLinkChecks(device) /\ AckFirst

\* A device whose queue and procedure are those of d.
SameQueue(d, e) == IsDevice(e) /\ e.commands = d.commands /\ (e.waitingAck <=> d.waitingAck)

-----------------------------------------------------------------------------
(* What the operators do to the queue and to the procedure. *)

LEMMA ThrowKeeps == ASSUME NEW d, IsDevice(d) PROVE SameQueue(d, Throw(d))
BY DEF IsDevice, Fields, SameQueue, Throw

LEMMA OpenSecondKeeps ==
  ASSUME NEW d, IsDevice(d) PROVE SameQueue(d, OpenSecondReceiveWindow(d))
BY ThrowKeeps DEF OpenSecondReceiveWindow, SameQueue

LEMMA AdaptKeeps == ASSUME NEW d, IsDevice(d) PROVE SameQueue(d, AdaptDataRate(d))
<1>1. SameQueue(d, [d EXCEPT !.dataRate = @ - 1, !.txPower = 14])
  BY DEF IsDevice, Fields, SameQueue
<1> QED  BY <1>1 DEF AdaptDataRate, SameQueue

LEMMA SameIsGood ==
  ASSUME NEW d, NEW e, OnlyLinkChecks(d), SameQueue(d, e) PROVE IsDevice(e) /\ OnlyLinkChecks(e)
BY DEF OnlyLinkChecks, SameQueue

\* The end of the procedure: nothing is waited for.
LEMMA ResetEnds ==
  ASSUME NEW d, IsDevice(d)
  PROVE  LET e == resetRetransmissionParameters(d) IN IsDevice(e) /\ ~e.waitingAck
BY DEF IsDevice, Fields, resetRetransmissionParameters

LEMMA AckEnds ==
  ASSUME NEW d, IsDevice(d), OnlyLinkChecks(d)
  PROVE  IsDevice(ReceiveAck(d)) /\ ~ReceiveAck(d).waitingAck
BY ResetEnds DEF ReceiveAck, OnlyLinkChecks

\* A new packet leaves with an empty queue, a retransmission with what it has.
LEMMA DoSendGood ==
  ASSUME IsDevice(device), OnlyLinkChecks(device), NEW isNew \in BOOLEAN
  PROVE  IsDevice(DoSend(isNew)) /\ OnlyLinkChecks(DoSend(isNew))
<1>1. CASE isNew
  <2> DEFINE n == IF Confirmed THEN MaxNumbTx - 1 ELSE MaxNumbTx
             e == [device EXCEPT !.commands = <<>>, !.waitingAck = Confirmed, !.retxLeft = n]
  <2>1. DoSend(isNew) = e  BY <1>1 DEF DoSend
  <2> HIDE DEF n
  <2>2. Confirmed \in BOOLEAN  BY AttributesAssumption DEF AttributesAssumption
  <2>3. IsDevice(e) /\ e.commands = <<>> /\ (e.waitingAck <=> Confirmed)
    BY <2>2 DEF IsDevice, Fields
  <2>4. <<>> \in Seq({LinkCheckReq})  OBVIOUS
  <2> QED  BY <2>1, <2>3, <2>4 DEF OnlyLinkChecks
<1>2. CASE ~isNew
  <2> DEFINE e == [device EXCEPT !.retxLeft = @ - 1]
  <2>1. DoSend(isNew) = e  BY <1>2 DEF DoSend
  <2>2. SameQueue(device, e)  BY DEF IsDevice, Fields, SameQueue
  <2> QED  BY <2>1, <2>2, SameIsGood
<1> QED  BY <1>1, <1>2

\* No handler of a command makes the device wait for an ACK.
StillNotWaiting(d) == IsDevice(d) /\ ~d.waitingAck

LEMMA AnswerWaits == ASSUME NEW d, NEW c, StillNotWaiting(d) PROVE StillNotWaiting(Answer(d, c))
BY DEF StillNotWaiting, IsDevice, Fields, Answer

LEMMA ThrowWaits == ASSUME NEW d, StillNotWaiting(d) PROVE StillNotWaiting(Throw(d))
BY DEF StillNotWaiting, IsDevice, Fields, Throw

LEMMA LinkAdrWaits ==
  ASSUME NEW d, NEW c, StillNotWaiting(d) PROVE StillNotWaiting(OnLinkAdrReq(d, c))
<1>1. \A a : StillNotWaiting(Answer(d, a))  BY AnswerWaits
<1>2. StillNotWaiting(Throw(d))  BY ThrowWaits
<1>3. ASSUME NEW e, StillNotWaiting(e), NEW r, NEW p, NEW h
      PROVE  StillNotWaiting([e EXCEPT !.dataRate = r, !.txPower = p, !.channels = h])
  BY <1>3 DEF StillNotWaiting, IsDevice, Fields
<1> QED  BY <1>1, <1>2, <1>3 DEF OnLinkAdrReq

LEMMA ExecuteWaits ==
  ASSUME NEW d, NEW c, StillNotWaiting(d) PROVE StillNotWaiting(Execute(d, c))
<1>1. StillNotWaiting(OnLinkCheckAns(d, c))
  BY DEF OnLinkCheckAns, StillNotWaiting, IsDevice, Fields
<1>2. StillNotWaiting(OnLinkAdrReq(d, c))  BY LinkAdrWaits
<1>3. StillNotWaiting(OnDutyCycleReq(d, c))
  <2> DEFINE e == [d EXCEPT !.aggregatedDutyCycle = GetMaximumAllowedDutyCycle(c)]
  <2>1. StillNotWaiting(e)  BY DEF StillNotWaiting, IsDevice, Fields
  <2> HIDE DEF e
  <2>2. StillNotWaiting(Answer(e, DutyCycleAns))  BY <2>1, AnswerWaits
  <2> QED  BY <2>2, ThrowWaits DEF OnDutyCycleReq, e
<1>4. StillNotWaiting(OnRxClassParamSetupReq(d, c))
  <2> DEFINE e == [d EXCEPT !.rx2DataRate = c.rx2DataRate, !.rx1DrOffset = c.rx1DrOffset, !.rx2Frequency = "Hz"]
  <2>1. StillNotWaiting(e)  BY DEF StillNotWaiting, IsDevice, Fields
  <2> HIDE DEF e
  <2>2. \A a : StillNotWaiting(Answer(e, a))  BY <2>1, AnswerWaits
  <2> QED  BY <2>2 DEF OnRxClassParamSetupReq, e
<1>5. StillNotWaiting(OnDevStatusReq(d))  BY AnswerWaits DEF OnDevStatusReq
<1>6. StillNotWaiting(OnNewChannelReq(d, c))
  <2> DEFINE h == [d.channels EXCEPT ![c.chIndex] =
                     [lo |-> c.minDataRate, hi |-> c.maxDataRate, on |-> TRUE, known |-> FALSE]]
             e == [d EXCEPT !.channels = h]
  <2>1. StillNotWaiting(e)  BY DEF StillNotWaiting, IsDevice, Fields
  <2>2. e = [d EXCEPT !.channels[c.chIndex] =
               [lo |-> c.minDataRate, hi |-> c.maxDataRate, on |-> TRUE, known |-> FALSE]]
    OBVIOUS
  <2> HIDE DEF e
  <2>3. \A a : StillNotWaiting(Answer(e, a))  BY <2>1, AnswerWaits
  <2> QED  BY <2>2, <2>3, ThrowWaits DEF OnNewChannelReq
<1> QED  BY <1>1, <1>2, <1>3, <1>4, <1>5, <1>6 DEF Execute

-----------------------------------------------------------------------------
(* The steps. *)

LEMMA InitInv == Init => IInv
<1> SUFFICES ASSUME Init PROVE IInv  OBVIOUS
<1>1. PICK dr \in 0 .. 5 :
        device = [dataRate |-> dr, txPower |-> 14, channels |-> Channels, rx1DrOffset |-> 0,
                  rx2DataRate |-> 0, rx2Frequency |-> "869.525", aggregatedDutyCycle |-> <<1, 0>>,
                  gatewayCount |-> 0, commands |-> <<>>, waitingAck |-> FALSE, retxLeft |-> MaxNumbTx,
                  alive |-> TRUE]
  BY DEF Init
<1>2. IsDevice(device) /\ ~device.waitingAck  BY <1>1 DEF IsDevice, Fields
<1>3. phase = "idle"  BY DEF Init
<1> QED  BY <1>2, <1>3 DEF IInv, OnlyLinkChecks, AckFirst

LEMMA TransmitInv == ASSUME IInv, NEW isNew \in BOOLEAN, Transmit(isNew) PROVE IInv'
<1> DEFINE sent == AdaptDataRate(DoSend(isNew))
<1>1. IsDevice(device) /\ OnlyLinkChecks(device)  BY DEF IInv
<1>2. IsDevice(sent) /\ OnlyLinkChecks(sent)  BY <1>1, DoSendGood, AdaptKeeps, SameIsGood
<1> HIDE DEF sent
<1>3. IsDevice(Throw(device)) /\ OnlyLinkChecks(Throw(device))  BY <1>1, ThrowKeeps, SameIsGood
<1>4. IsDevice(OpenSecondReceiveWindow(sent)) /\ OnlyLinkChecks(OpenSecondReceiveWindow(sent))
  BY <1>2, OpenSecondKeeps, SameIsGood
<1>5. device' \in {Throw(device), OpenSecondReceiveWindow(sent), sent} /\ phase' \in {"idle", "window"}
  BY DEF Transmit, sent
<1>6. IsDevice(device') /\ OnlyLinkChecks(device')  BY <1>2, <1>3, <1>4, <1>5
<1> QED  BY <1>5, <1>6 DEF IInv, IsDevice, OnlyLinkChecks, AckFirst

LEMMA AddMacCommandInv == ASSUME IInv, AddMacCommand PROVE IInv'
<1>1. /\ phase = "idle" /\ phase' = "idle" /\ IsDevice(device) /\ OnlyLinkChecks(device)
      /\ device' = [device EXCEPT !.commands = Append(@, LinkCheckReq)]
  BY DEF AddMacCommand, Answer, IInv
<1>2. /\ IsDevice(device') /\ (device'.waitingAck <=> device.waitingAck)
      /\ device'.commands = Append(device.commands, LinkCheckReq)
  BY <1>1 DEF IsDevice, Fields
<1>3. \A q \in Seq({LinkCheckReq}) : Append(q, LinkCheckReq) \in Seq({LinkCheckReq})  OBVIOUS
<1>4. OnlyLinkChecks(device')  BY <1>1, <1>2, <1>3 DEF OnlyLinkChecks
<1> QED  BY <1>1, <1>2, <1>4 DEF IInv, IsDevice, OnlyLinkChecks, AckFirst

LEMMA ReplyInv == ASSUME IInv, NEW window, NEW request, Reply(window, request) PROVE IInv'
<1>1. IsDevice(device) /\ OnlyLinkChecks(device)  BY DEF IInv
<1>2. \/ device' = ReceiveAck(device) /\ phase' = "parsing"
      \/ device' = OpenSecondReceiveWindow(device) /\ phase' = "idle"
  BY DEF Reply
<1>3. CASE device' = ReceiveAck(device) /\ phase' = "parsing"
  <2>1. IsDevice(device') /\ ~device'.waitingAck  BY <1>1, <1>3, AckEnds
  <2> QED  BY <2>1 DEF IInv, IsDevice, OnlyLinkChecks, AckFirst
<1>4. CASE device' = OpenSecondReceiveWindow(device) /\ phase' = "idle"
  <2>1. IsDevice(device') /\ OnlyLinkChecks(device')  BY <1>1, <1>4, OpenSecondKeeps, SameIsGood
  <2> QED  BY <1>4, <2>1 DEF IInv, IsDevice, OnlyLinkChecks, AckFirst
<1> QED  BY <1>2, <1>3, <1>4

LEMMA ParseInv == ASSUME IInv, ParseCommand PROVE IInv'
<1>1. StillNotWaiting(device)  BY DEF ParseCommand, IInv, AckFirst, StillNotWaiting
<1>2. device' = device \/ device' = Execute(device, Head(inbox))  BY DEF ParseCommand
<1>3. StillNotWaiting(device')  BY <1>1, <1>2, ExecuteWaits
<1> QED  BY <1>3 DEF StillNotWaiting, IInv, IsDevice, OnlyLinkChecks, AckFirst

LEMMA NextInv == IInv /\ [Next]_vars => IInv'
<1> SUFFICES ASSUME IInv, [Next]_vars PROVE IInv'  OBVIOUS
<1>1. ASSUME NEW isNew \in BOOLEAN, Transmit(isNew) PROVE IInv'  BY <1>1, TransmitInv
<1>2. CASE GiveUp
  <2>1. IsDevice(device') /\ ~device'.waitingAck  BY <1>2, ResetEnds DEF GiveUp, IInv
  <2> QED  BY <2>1 DEF IInv, IsDevice, OnlyLinkChecks, AckFirst
<1>3. CASE AddMacCommand  BY <1>3, AddMacCommandInv
<1>4. ASSUME NEW window \in 1 .. 2, BeforeSendingReply(window) PROVE IInv'
  BY <1>4, ReplyInv DEF BeforeSendingReply
<1>5. CASE InitializeReply
  <2>1. IsDevice(device') /\ OnlyLinkChecks(device') /\ phase' = "idle"
    BY <1>5, OpenSecondKeeps, SameIsGood DEF InitializeReply, IInv
  <2> QED  BY <2>1 DEF IInv, IsDevice, OnlyLinkChecks, AckFirst
<1>6. CASE ParseCommand  BY <1>6, ParseInv
<1>7. CASE CalmDown
  BY <1>7 DEF CalmDown, IInv, IsDevice, OnlyLinkChecks, AckFirst
<1>8. CASE UNCHANGED vars
  BY <1>8 DEF vars, IInv, IsDevice, OnlyLinkChecks, AckFirst
<1> QED  BY <1>1, <1>2, <1>3, <1>4, <1>5, <1>6, <1>7, <1>8 DEF Next

-----------------------------------------------------------------------------

\* Whatever commands a server sends and whatever is lost: as long as a device may
\* retransmit its packet, it has queued no answer that a retransmission would
\* carry to the server a second time.
THEOREM AnswersGoOnce == Spec => []NoAnswerTwice
<1>1. IInv => NoAnswerTwice
  <2> SUFFICES ASSUME IInv, device.waitingAck, NEW i \in DOMAIN device.commands
               PROVE  device.commands[i] = LinkCheckReq
    BY DEF NoAnswerTwice
  <2>1. device.commands \in Seq({LinkCheckReq})  BY DEF IInv, OnlyLinkChecks
  <2>2. device.commands[i] \in {LinkCheckReq}  BY <2>1
  <2> QED  BY <2>2
<1> QED  BY <1>1, InitInv, NextInv, PTL DEF Spec

-----------------------------------------------------------------------------
(* Finite sets of numbers, and sums *)

LEMMA EveryNumber ==
  ASSUME NEW T \in SUBSET Nat, 0 \in T, \A n \in T : n + 1 \in T
  PROVE  T = Nat
<1> SUFFICES ASSUME Nat \ T # {} PROVE FALSE
  OBVIOUS
<1>1. PICK n \in Nat \ T : \A m \in Nat \ T : ~(<<m, n>> \in OpToRel(<, Nat))
  BY WFMin, NatLessThanWellFounded
<1>2. n \in Nat /\ n # 0 /\ n - 1 \in Nat /\ n - 1 < n
  OBVIOUS
<1>3. n - 1 \notin T
  BY <1>2
<1> QED
  BY <1>1, <1>2, <1>3 DEF OpToRel

\* A finite set without one of its elements.
LEMMA OneLess ==
  ASSUME NEW s, IsFiniteSet(s), NEW n \in Nat, Cardinality(s) <= n + 1, NEW x \in s
  PROVE  IsFiniteSet(s \ {x}) /\ Cardinality(s \ {x}) <= n
<1>1. Cardinality(s) \in Nat /\ IsFiniteSet(s \ {x}) /\ Cardinality(s \ {x}) = Cardinality(s) - 1
  BY FS_CardinalityType, FS_RemoveElement
<1>2. Cardinality(s) - 1 <= n
  BY <1>1
<1> QED
  BY <1>1, <1>2

LEMMA NoneLeft ==
  ASSUME NEW s, IsFiniteSet(s), Cardinality(s) <= 0
  PROVE  s = {}
<1>1. Cardinality(s) \in Nat
  BY FS_CardinalityType
<1>2. Cardinality(s) = 0
  BY <1>1
<1> QED
  BY <1>2, FS_EmptySet

HasEnds(s) == (\E n \in s : \A m \in s : n <= m) /\ (\E n \in s : \A m \in s : n >= m)

\* A finite set of numbers has a least and a greatest one.
LEMMA FiniteHasEnds ==
  ASSUME NEW T \in SUBSET Int, IsFiniteSet(T), T # {}
  PROVE  HasEnds(T)
<1> DEFINE Good == {n \in Nat : \A s \in SUBSET Int :
                      IsFiniteSet(s) /\ s # {} /\ Cardinality(s) <= n => HasEnds(s)}
<1>1. 0 \in Good
  BY NoneLeft
<1>2. ASSUME NEW n \in Good
      PROVE  n + 1 \in Good
  <2>1. n \in Nat
    OBVIOUS
  <2>2. ASSUME NEW s \in SUBSET Int, IsFiniteSet(s), s # {}, Cardinality(s) <= n + 1
        PROVE  HasEnds(s)
    <3>1. PICK c \in s : TRUE
      BY <2>2
    <3> DEFINE t == s \ {c}
    <3>2. IsFiniteSet(t) /\ Cardinality(t) <= n /\ t \in SUBSET Int
      BY <2>1, <2>2, <3>1, OneLess
    <3>3. c \in Int /\ \A m \in s : m = c \/ m \in t
      OBVIOUS
    <3>4. CASE t = {}
      <4>1. \A m \in s : c <= m /\ c >= m
        BY <3>3, <3>4
      <4> QED
        BY <3>1, <4>1 DEF HasEnds
    <3>5. CASE t # {}
      <4>1. HasEnds(t) /\ t \subseteq s
        BY <3>2, <3>5
      <4> HIDE DEF t
      <4>2. PICK lo \in t : \A m \in t : lo <= m
        BY <4>1 DEF HasEnds
      <4>3. PICK hi \in t : \A m \in t : hi >= m
        BY <4>1 DEF HasEnds
      <4>4. lo \in Int /\ hi \in Int /\ lo \in s /\ hi \in s /\ \A m \in t : m \in Int
        BY <3>2, <4>1
      <4>5. \E x \in s : \A m \in s : x <= m
        <5>1. CASE lo <= c
          <6>1. \A m \in s : lo <= m
            BY <3>3, <4>2, <4>4, <5>1
          <6> QED
            BY <4>4, <6>1
        <5>2. CASE ~(lo <= c)
          <6>1. \A m \in s : c <= m
            BY <3>3, <4>2, <4>4, <5>2
          <6> QED
            BY <3>1, <6>1
        <5> QED
          BY <5>1, <5>2
      <4>6. \E x \in s : \A m \in s : x >= m
        <5>1. CASE hi >= c
          <6>1. \A m \in s : hi >= m
            BY <3>3, <4>3, <4>4, <5>1
          <6> QED
            BY <4>4, <6>1
        <5>2. CASE ~(hi >= c)
          <6>1. \A m \in s : c >= m
            BY <3>3, <4>3, <4>4, <5>2
          <6> QED
            BY <3>1, <6>1
        <5> QED
          BY <5>1, <5>2
      <4> QED
        BY <4>5, <4>6 DEF HasEnds
    <3> QED
      BY <3>4, <3>5
  <2> QED
    BY <2>1, <2>2
<1>3. Good = Nat
  <2>1. Good \in SUBSET Nat
    OBVIOUS
  <2> HIDE DEF Good
  <2> QED
    BY <1>1, <1>2, <2>1, EveryNumber
<1>4. Cardinality(T) \in Nat /\ Cardinality(T) <= Cardinality(T)
  BY FS_CardinalityType
<1> QED
  BY <1>3, <1>4

LEMMA MinMaxAreInts ==
  ASSUME NEW T \in SUBSET Int, IsFiniteSet(T), T # {}
  PROVE  Min(T) \in T /\ Max(T) \in T /\ Min(T) \in Int /\ Max(T) \in Int
<1>1. Min(T) \in T /\ Max(T) \in T
  BY FiniteHasEnds DEF HasEnds, Min, Max
<1> QED
  BY <1>1

Chosen(s) == CHOOSE x \in s : TRUE

\* The sum of the weights of the elements of s, by recursion on the subsets of S.
Sums(sum, w, S) ==
  sum = [s \in SUBSET S |-> IF s = {} THEN 0 ELSE w[Chosen(s)] + sum[s \ {Chosen(s)}]]

\* The natural numbers or the integers.
Closed(V) == V \in {Nat, Int}

\* The recursion defines a function: for the empty set, and for the sets of n + 1
\* elements if it does for those of n.
LEMMA SumExists ==
  ASSUME NEW S, IsFiniteSet(S), NEW w \in [S -> Int]
  PROVE  \E sum : Sums(sum, w, S)
<1> DEFINE next(f, s) == IF s = {} THEN 0 ELSE w[Chosen(s)] + f[s \ {Chosen(s)}]
           upTo(f, n) == \A s \in SUBSET S : Cardinality(s) <= n => f[s] = next(f, s)
           Good == {n \in Nat : \E f : upTo(f, n)}
<1>0. \A s \in SUBSET S : IsFiniteSet(s)
  BY FS_Subset
<1>1. 0 \in Good
  <2> DEFINE f == [s \in SUBSET S |-> 0]
  <2>1. \A s \in SUBSET S : Cardinality(s) <= 0 => f[s] = next(f, s)
    BY <1>0, NoneLeft
  <2>2. upTo(f, 0)
    BY <2>1
  <2> HIDE DEF f, upTo
  <2> QED
    BY <2>2
<1>2. ASSUME NEW n \in Good
      PROVE  n + 1 \in Good
  <2>1. n \in Nat /\ n + 1 \in Nat
    OBVIOUS
  <2>2. PICK g : upTo(g, n)
    OBVIOUS
  <2> DEFINE f == [s \in SUBSET S |-> IF Cardinality(s) <= n THEN g[s] ELSE next(g, s)]
  <2>4. ASSUME NEW s \in SUBSET S, Cardinality(s) <= n + 1
        PROVE  f[s] = next(f, s)
    <3>1. f[s] = next(g, s)
      BY <2>2
    <3>2. s # {} => s \ {Chosen(s)} \in SUBSET S /\ Cardinality(s \ {Chosen(s)}) <= n
      <4>1. s # {} => Chosen(s) \in s
        BY DEF Chosen
      <4> QED
        BY <1>0, <2>1, <2>4, <4>1, OneLess
    <3>3. next(f, s) = next(g, s)
      BY <3>2
    <3> QED
      BY <3>1, <3>3
  <2>5. upTo(f, n + 1)
    BY <2>4
  <2> HIDE DEF f, upTo
  <2> QED
    BY <2>1, <2>5
<1>3. Good = Nat
  <2> HIDE DEF upTo
  <2>1. Good \in SUBSET Nat
    OBVIOUS
  <2> HIDE DEF Good
  <2> QED
    BY <1>1, <1>2, <2>1, EveryNumber
<1>4. Cardinality(S) \in Nat
  BY FS_CardinalityType
<1>5. PICK f : upTo(f, Cardinality(S))
  <2> HIDE DEF upTo
  <2> QED
    BY <1>3, <1>4
<1>6. \A s \in SUBSET S : Cardinality(s) <= Cardinality(S)
  BY FS_Subset
<1>7. \A s \in SUBSET S : f[s] = next(f, s)
  BY <1>5, <1>6
<1> DEFINE h == [s \in SUBSET S |-> f[s]]
<1>8. ASSUME NEW s \in SUBSET S PROVE h[s] = next(h, s)
  <2>1. s \ {Chosen(s)} \in SUBSET S
    OBVIOUS
  <2> QED
    BY <1>7, <2>1
<1>9. h = [s \in SUBSET S |-> h[s]]
  OBVIOUS
<1> HIDE DEF h
<1>10. h = [s \in SUBSET S |-> next(h, s)]
  BY <1>8, <1>9
<1> QED
  BY <1>10 DEF Sums

\* The sum of numbers is one.
LEMMA SumIsANumber ==
  ASSUME NEW S, IsFiniteSet(S), NEW V, Closed(V), NEW w \in [S -> V], NEW sum, Sums(sum, w, S)
  PROVE  sum[S] \in V
<1> DEFINE Good == {n \in Nat : \A s \in SUBSET S : Cardinality(s) <= n => sum[s] \in V}
<1>0. \A s \in SUBSET S : IsFiniteSet(s)
  BY FS_Subset
<1>1. \A s \in SUBSET S : sum[s] = IF s = {} THEN 0 ELSE w[Chosen(s)] + sum[s \ {Chosen(s)}]
  BY Zenon DEF Sums
<1>2. 0 \in V /\ \A a, b \in V : a + b \in V
  <2>1. CASE V = Nat
    BY <2>1
  <2>2. CASE V = Int
    BY <2>2
  <2> QED
    BY <2>1, <2>2 DEF Closed
<1>3. 0 \in Good
  <2>1. \A s \in SUBSET S : Cardinality(s) <= 0 => s = {}
    BY <1>0, NoneLeft
  <2> QED
    BY <1>1, <1>2, <2>1
<1>4. ASSUME NEW n \in Good
      PROVE  n + 1 \in Good
  <2>1. n \in Nat
    OBVIOUS
  <2>2. ASSUME NEW s \in SUBSET S, Cardinality(s) <= n + 1
        PROVE  sum[s] \in V
    <3>1. CASE s = {}
      BY <1>1, <1>2, <3>1
    <3>2. CASE s # {}
      <4> DEFINE c == Chosen(s)
                 t == s \ {c}
      <4>1. c \in s
        BY <3>2 DEF Chosen
      <4>2. t \in SUBSET S /\ Cardinality(t) <= n
        BY <1>0, <2>1, <2>2, <4>1, OneLess
      <4>3. sum[s] = w[c] + sum[t]
        BY <1>1, <3>2
      <4>4. sum[t] \in V /\ w[c] \in V
        BY <4>1, <4>2
      <4> HIDE DEF c, t
      <4> QED
        BY <1>2, <4>3, <4>4
    <3> QED
      BY <3>1, <3>2
  <2> QED
    BY <2>1, <2>2
<1>5. Good = Nat
  <2>1. Good \in SUBSET Nat
    OBVIOUS
  <2> HIDE DEF Good
  <2> QED
    BY <1>3, <1>4, <2>1, EveryNumber
<1>6. Cardinality(S) \in Nat /\ Cardinality(S) <= Cardinality(S)
  BY FS_CardinalityType
<1> QED
  BY <1>5, <1>6

\* The same for what MapThenSumSet chooses.
LEMMA ChosenSum ==
  ASSUME NEW S, IsFiniteSet(S), NEW V, Closed(V), NEW w \in [S -> V]
  PROVE  (CHOOSE f : Sums(f, w, S))[S] \in V
<1>1. V \subseteq Int
  <2>1. CASE V = Nat
    BY <2>1
  <2>2. CASE V = Int
    BY <2>2
  <2> QED
    BY <2>1, <2>2 DEF Closed
<1>2. w \in [S -> Int]
  BY <1>1
<1>3. \E f : Sums(f, w, S)
  BY <1>2, SumExists
<1> DEFINE f == CHOOSE h : Sums(h, w, S)
<1>4. Sums(f, w, S)
  BY <1>3
<1> HIDE DEF f
<1>5. f[S] \in V
  BY <1>4, SumIsANumber
<1> QED
  BY <1>5 DEF f

-----------------------------------------------------------------------------
(* The types *)

\* What the server can put into a reply.
Replies == Requests \union LinkCheckAns \union LinkAdrReq

\* What the gateways heard of a packet.
Packets == UNION {[gs -> Int] : gs \in (SUBSET Gateways) \ {{}}}

Typed ==
  /\ device \in Device
  /\ history \in Seq(Packets) /\ Len(history) <= HistoryRange
  /\ uplink \in Seq(Answers) /\ inbox \in Seq(Replies)
  /\ phase \in {"idle", "window", "parsing"} /\ calm \in BOOLEAN
  /\ requested \in 0 .. MaxRequests
  /\ phase = "window" => history # <<>>

LEMMA RepliesAreDownlinks == Replies \subseteq Downlinks
  BY RequestsAssumption DEF Replies, Downlinks

\* What is read of a sequence of commands is a part of it.
LEMMA OnTheAirOf ==
  ASSUME NEW T, NEW q \in Seq(T)
  PROVE  OnTheAir(q) \in Seq(T) /\ Len(OnTheAir(q)) <= Len(q)
         /\ \A i \in DOMAIN OnTheAir(q) : i \in DOMAIN q /\ OnTheAir(q)[i] = q[i]
<1> DEFINE N == Len(q)
           size(i) == SerializedSize(q[i].cmd)
           bytes(n) == MapThenSumSet(size, 1 .. n)
           w == [i \in 1 .. N |-> size(i)]
           ends == {n \in 0 .. N : bytes(n) >= bytes(N) % 8}
           read == Min(ends)
<1>1. N \in Nat /\ IsFiniteSet(1 .. N)
  BY FS_Interval
<1>2. \A i : size(i) \in Nat
  BY DEF SerializedSize
<1>3. bytes(N) \in Nat
  <2> DEFINE rhs(f) == [s \in SUBSET (1 .. N) |-> IF s = {} THEN 0 ELSE size(Chosen(s)) + f[s \ {Chosen(s)}]]
  <2>1. bytes(N) = (CHOOSE f : f = rhs(f))[1 .. N]
    BY Zenon DEF MapThenSumSet, MapThenFoldSet, Chosen
  <2> HIDE DEF size
  <2>2. w \in [1 .. N -> Nat] /\ \A i \in 1 .. N : w[i] = size(i)
    BY <1>2
  <2>3. ASSUME NEW s \in SUBSET (1 .. N), s # {} PROVE Chosen(s) \in 1 .. N
    BY <2>3 DEF Chosen
  <2>4. \A f : f = rhs(f) <=> Sums(f, w, 1 .. N)
    BY <2>2, <2>3 DEF Sums
  <2> HIDE DEF w, rhs, bytes, N
  <2>5. (CHOOSE f : f = rhs(f)) = (CHOOSE f : Sums(f, w, 1 .. N))
    BY <2>4
  <2>6. (CHOOSE f : Sums(f, w, 1 .. N))[1 .. N] \in Nat
    BY <1>1, <2>2, ChosenSum DEF Closed
  <2> QED
    BY <2>1, <2>5, <2>6
<1> HIDE DEF bytes
<1>4. N \in ends
  BY <1>1, <1>3
<1>5. read \in 0 .. N
  <2>1. ends \subseteq 0 .. N
    OBVIOUS
  <2> HIDE DEF ends, N
  <2>2. IsFiniteSet(0 .. N) /\ (0 .. N) \subseteq Int
    BY <1>1, FS_Interval
  <2>3. ends \in SUBSET Int /\ IsFiniteSet(ends) /\ ends # {}
    BY <1>4, <2>1, <2>2, FS_Subset
  <2> QED
    BY <2>1, <2>3, MinMaxAreInts
<1>6. OnTheAir(q) = SubSeq(q, 1, read)
  BY DEF OnTheAir, bytes
<1> HIDE DEF read, size, bytes
<1> QED
  BY <1>1, <1>5, <1>6

-----------------------------------------------------------------------------
(* What the handlers make of a device *)

LEMMA FieldsOfADevice ==
  ASSUME NEW d \in Device
  PROVE  /\ d.dataRate \in 0 .. 6 /\ d.txPower \in 0 .. 16 /\ d.channels \in [DOMAIN Channels -> Channel]
         /\ d.commands \in Seq(Answers) /\ d.waitingAck \in BOOLEAN /\ d.retxLeft \in 0 .. 255
         /\ d.rx1DrOffset \in 0 .. 7 /\ d.rx2DataRate \in 0 .. 15
  BY DEF Device

\* A device that gets one field of its type is a device.
LEMMA WithField ==
  ASSUME NEW d \in Device
  PROVE  /\ \A x \in 0 .. 6 : [d EXCEPT !.dataRate = x] \in Device
         /\ \A x \in 0 .. 16 : [d EXCEPT !.txPower = x] \in Device
         /\ \A x \in [DOMAIN Channels -> Channel] : [d EXCEPT !.channels = x] \in Device
         /\ \A x \in 0 .. 7 : [d EXCEPT !.rx1DrOffset = x] \in Device
         /\ \A x \in 0 .. 15 : [d EXCEPT !.rx2DataRate = x] \in Device
         /\ \A x \in {"869.525", "Hz"} : [d EXCEPT !.rx2Frequency = x] \in Device
         /\ \A x \in {0, 1} \X Byte : [d EXCEPT !.aggregatedDutyCycle = x] \in Device
         /\ \A x \in Byte : [d EXCEPT !.gatewayCount = x] \in Device
         /\ \A x \in Seq(Answers) : [d EXCEPT !.commands = x] \in Device
         /\ \A x \in BOOLEAN : [d EXCEPT !.waitingAck = x] \in Device
         /\ \A x \in 0 .. 255 : [d EXCEPT !.retxLeft = x] \in Device
         /\ \A x \in BOOLEAN : [d EXCEPT !.alive = x] \in Device
<1> DEFINE A == 0 .. 6
           B == 0 .. 16
           C == [DOMAIN Channels -> Channel]
           D == 0 .. 7
           E == 0 .. 15
           F == {"869.525", "Hz"}
           G == {0, 1} \X Byte
           H == Byte
           I == Seq(Answers)
           J == BOOLEAN
           K == 0 .. 255
           L == BOOLEAN
<1>1. Device = [dataRate: A, txPower: B, channels: C, rx1DrOffset: D, rx2DataRate: E, rx2Frequency: F,
                aggregatedDutyCycle: G, gatewayCount: H, commands: I, waitingAck: J, retxLeft: K, alive: L]
  BY DEF Device
<1>2. d \in Device
  OBVIOUS
<1> HIDE DEF A, B, C, D, E, F, G, H, I, J, K, L
<1>3. /\ \A x \in A : [d EXCEPT !.dataRate = x] \in Device
      /\ \A x \in B : [d EXCEPT !.txPower = x] \in Device
      /\ \A x \in C : [d EXCEPT !.channels = x] \in Device
  BY ONLY <1>1, <1>2
<1>4. /\ \A x \in D : [d EXCEPT !.rx1DrOffset = x] \in Device
      /\ \A x \in E : [d EXCEPT !.rx2DataRate = x] \in Device
      /\ \A x \in F : [d EXCEPT !.rx2Frequency = x] \in Device
  BY ONLY <1>1, <1>2
<1>5. /\ \A x \in G : [d EXCEPT !.aggregatedDutyCycle = x] \in Device
      /\ \A x \in H : [d EXCEPT !.gatewayCount = x] \in Device
      /\ \A x \in I : [d EXCEPT !.commands = x] \in Device
  BY ONLY <1>1, <1>2
<1>6. /\ \A x \in J : [d EXCEPT !.waitingAck = x] \in Device
      /\ \A x \in K : [d EXCEPT !.retxLeft = x] \in Device
      /\ \A x \in L : [d EXCEPT !.alive = x] \in Device
  BY ONLY <1>1, <1>2
<1> QED
  BY ONLY <1>3, <1>4, <1>5, <1>6, Zenon DEF A, B, C, D, E, F, G, H, I, J, K, L

LEMMA WithCommands ==
  ASSUME NEW d \in Device, NEW q \in Seq(Answers) PROVE [d EXCEPT !.commands = q] \in Device
BY ONLY d \in Device, q \in Seq(Answers), WithField, Zenon

LEMMA WithChannels ==
  ASSUME NEW d \in Device, NEW h \in [DOMAIN Channels -> Channel] PROVE [d EXCEPT !.channels = h] \in Device
BY ONLY d \in Device, h \in [DOMAIN Channels -> Channel], WithField, Zenon

LEMMA WithOther ==
  ASSUME NEW d \in Device
  PROVE  /\ \A r \in 0 .. 6 : [d EXCEPT !.dataRate = r] \in Device
         /\ \A p \in 0 .. 16 : [d EXCEPT !.txPower = p] \in Device
         /\ \A b \in BOOLEAN : [d EXCEPT !.waitingAck = b] \in Device
         /\ \A n \in 0 .. 255 : [d EXCEPT !.retxLeft = n] \in Device
BY ONLY d \in Device, WithField, Zenon

LEMMA WithRate ==
  ASSUME NEW d \in Device, NEW r \in 0 .. 6, NEW p \in 0 .. 16
  PROVE  [d EXCEPT !.dataRate = r, !.txPower = p] \in Device
<1> DEFINE e == [d EXCEPT !.dataRate = r]
<1>1. e \in Device
  BY WithOther
<1>2. [d EXCEPT !.dataRate = r, !.txPower = p] = [e EXCEPT !.txPower = p]
  OBVIOUS
<1> HIDE DEF e
<1> QED
  BY <1>1, <1>2, WithOther

LEMMA WithRetries ==
  ASSUME NEW d \in Device, NEW q \in Seq(Answers), NEW b \in BOOLEAN, NEW n \in 0 .. 255
  PROVE  /\ [d EXCEPT !.commands = q, !.waitingAck = b, !.retxLeft = n] \in Device
         /\ [d EXCEPT !.waitingAck = b, !.retxLeft = n] \in Device
<1>1. ASSUME NEW e \in Device PROVE [e EXCEPT !.waitingAck = b, !.retxLeft = n] \in Device
  <2> DEFINE f == [e EXCEPT !.waitingAck = b]
  <2>1. f \in Device
    BY WithOther
  <2>2. [e EXCEPT !.waitingAck = b, !.retxLeft = n] = [f EXCEPT !.retxLeft = n]
    OBVIOUS
  <2> HIDE DEF f
  <2> QED
    BY <2>1, <2>2, WithOther
<1> DEFINE e == [d EXCEPT !.commands = q]
<1>2. e \in Device
  BY WithCommands
<1>3. [d EXCEPT !.commands = q, !.waitingAck = b, !.retxLeft = n] = [e EXCEPT !.waitingAck = b, !.retxLeft = n]
  OBVIOUS
<1> HIDE DEF e
<1> QED
  BY <1>1, <1>2, <1>3

LEMMA ThrowIsDevice == ASSUME NEW d \in Device PROVE Throw(d) \in Device
<1>1. FALSE \in BOOLEAN
  OBVIOUS
<1> QED
  BY ONLY <1>1, d \in Device, WithField, Zenon DEF Throw

LEMMA AnswerIsDevice == ASSUME NEW d \in Device, NEW c \in Answers PROVE Answer(d, c) \in Device
<1> DEFINE q == Append(d.commands, c)
<1>1. q \in Seq(Answers)
  BY FieldsOfADevice
<1>2. Answer(d, c) = [d EXCEPT !.commands = q]
  BY DEF Answer
<1> HIDE DEF q
<1> QED
  BY <1>1, <1>2, WithCommands

LEMMA TablesAreInRange ==
  ASSUME NEW n \in Nat
  PROVE  /\ GetSfFromDataRate(n) # 0 => n \in 0 .. 6
         /\ GetDbmForTxPower(n) \notin {0, Thrown} => GetDbmForTxPower(n) \in 0 .. 16
<1>1. n >= 7 => GetSfFromDataRate(n) = 0
  BY DEF GetSfFromDataRate
<1>2. n \in 0 .. 7 => GetDbmForTxPower(n) \in 0 .. 16
  BY DEF GetDbmForTxPower, TxDbmForTxPower
<1>3. n > 8 => GetDbmForTxPower(n) = 0
  BY DEF GetDbmForTxPower
<1>4. n = 8 => GetDbmForTxPower(n) = Thrown
  BY DEF GetDbmForTxPower
<1> QED
  BY <1>1, <1>2, <1>3, <1>4

\* The device after it has taken a LinkAdrReq over.
Adapted(d, c) ==
  [d EXCEPT !.dataRate = c.dataRate, !.txPower = GetDbmForTxPower(c.txPower),
            !.channels = [i \in DOMAIN @ |-> [@[i] EXCEPT !.on = i \in GetEnabledChannelsList(c.channelMask)]]]

\* What OnLinkAdrReq comes to: an exception, an answer, or an answer and a change
\* for which there are a data rate, a power and a channel.
LEMMA LinkAdrOutcome ==
  ASSUME NEW d \in Device, NEW c \in LinkAdrReq
  PROVE  \/ OnLinkAdrReq(d, c) = Throw(d)
         \/ \E a \in Answers : OnLinkAdrReq(d, c) = Answer(d, a)
         \/ /\ \E a \in Answers : OnLinkAdrReq(d, c) = Adapted(Answer(d, a), c)
            /\ GetSfFromDataRate(c.dataRate) # 0 /\ GetDbmForTxPower(c.txPower) \notin {0, Thrown}
            /\ LET size == Cardinality(DOMAIN d.channels)
               IN  /\ \A i \in GetEnabledChannelsList(c.channelMask) : i <= size
                   /\ \E i \in GetEnabledChannelsList(c.channelMask) \ {size} : Admits(d.channels[i], c.dataRate)
<1> DEFINE enabled == GetEnabledChannelsList(c.channelMask)
           size == Cardinality(DOMAIN d.channels)
           channelMaskOk == \A i \in enabled : i <= size
           valid == GetSfFromDataRate(c.dataRate) # 0 /\ GetBandwidthFromDataRate(c.dataRate) # 0
           found == \E i \in enabled \ {size} : Admits(d.channels[i], c.dataRate)
           dataRateOk == valid /\ (channelMaskOk => found)
           txPowerOk == GetDbmForTxPower(c.txPower) # 0
           beyond == valid /\ channelMaskOk /\ size \in enabled /\ ~found
           thrown == Thrown \in {GetBandwidthFromDataRate(c.dataRate), GetDbmForTxPower(c.txPower)} \/ beyond
           a == [cmd |-> "LinkAdrAns", powerAck |-> txPowerOk, dataRateAck |-> dataRateOk,
                 channelMaskAck |-> channelMaskOk]
<1>1. txPowerOk \in BOOLEAN /\ dataRateOk \in BOOLEAN /\ channelMaskOk \in BOOLEAN
  BY Zenon
<1>2. OnLinkAdrReq(d, c) = IF thrown THEN Throw(d)
                           ELSE IF channelMaskOk /\ dataRateOk /\ txPowerOk THEN Adapted(Answer(d, a), c)
                           ELSE Answer(d, a)
  BY Zenon DEF OnLinkAdrReq, Adapted
<1>3. \A x, y, z \in BOOLEAN : [cmd |-> "LinkAdrAns", powerAck |-> x, dataRateAck |-> y, channelMaskAck |-> z] \in Answers
  BY DEF Answers, LinkAdrAns
<1>4. a \in Answers
  <2> HIDE DEF txPowerOk, dataRateOk, channelMaskOk
  <2> QED
    BY <1>1, <1>3
<1>5. CASE thrown
  BY <1>2, <1>5, Zenon
<1>6. CASE ~thrown /\ ~(channelMaskOk /\ dataRateOk /\ txPowerOk)
  BY <1>2, <1>4, <1>6, Zenon
<1>7. CASE ~thrown /\ channelMaskOk /\ dataRateOk /\ txPowerOk
  <2>1. OnLinkAdrReq(d, c) = Adapted(Answer(d, a), c)
    BY <1>2, <1>7, Zenon
  <2>2. /\ GetSfFromDataRate(c.dataRate) # 0 /\ GetDbmForTxPower(c.txPower) \notin {0, Thrown}
        /\ channelMaskOk /\ found
    BY <1>7
  <2> QED
    BY <1>4, <2>1, <2>2, Zenon
<1> QED
  BY <1>5, <1>6, <1>7, Zenon

LEMMA AdaptedIsDevice ==
  ASSUME NEW d \in Device, NEW c \in LinkAdrReq,
         GetSfFromDataRate(c.dataRate) # 0, GetDbmForTxPower(c.txPower) \notin {0, Thrown}
  PROVE  Adapted(d, c) \in Device
<1> DEFINE h == [i \in DOMAIN d.channels |->
                   [d.channels[i] EXCEPT !.on = i \in GetEnabledChannelsList(c.channelMask)]]
           p == GetDbmForTxPower(c.txPower)
           e == [d EXCEPT !.channels = h]
<1>1. c.dataRate \in 0 .. 6 /\ p \in 0 .. 16
  BY TablesAreInRange DEF LinkAdrReq, Byte
<1>2. h \in [DOMAIN Channels -> Channel]
  <2>1. d.channels \in [DOMAIN Channels -> Channel]
    BY FieldsOfADevice
  <2>2. ASSUME NEW x \in Channel, NEW b \in BOOLEAN PROVE [x EXCEPT !.on = b] \in Channel
    BY DEF Channel
  <2>3. \A i : (i \in GetEnabledChannelsList(c.channelMask)) \in BOOLEAN
    OBVIOUS
  <2> HIDE DEF Channel
  <2> QED
    BY <2>1, <2>2, <2>3
<1> HIDE DEF h, p
<1>3. e \in Device
  BY <1>2, WithChannels
<1>4. Adapted(d, c) = [e EXCEPT !.dataRate = c.dataRate, !.txPower = p]
  BY DEF Adapted, h, p, Device
<1> HIDE DEF e
<1> QED
  BY <1>1, <1>3, <1>4, WithRate

LEMMA WithParameters ==
  ASSUME NEW d \in Device
  PROVE  /\ \A n \in Byte : [d EXCEPT !.gatewayCount = n] \in Device
         /\ \A a \in {0, 1} \X Byte : [d EXCEPT !.aggregatedDutyCycle = a] \in Device
         /\ \A r \in 0 .. 15, o \in 0 .. 7 :
              [d EXCEPT !.rx2DataRate = r, !.rx1DrOffset = o, !.rx2Frequency = "Hz"] \in Device
<1> DEFINE A == {0, 1} \X Byte
<1>1. \A n \in Byte : [d EXCEPT !.gatewayCount = n] \in Device
  BY ONLY d \in Device, WithField, Zenon
<1>2. \A a \in A : [d EXCEPT !.aggregatedDutyCycle = a] \in Device
  BY ONLY d \in Device, WithField, Zenon
<1>3. ASSUME NEW r \in 0 .. 15, NEW o \in 0 .. 7
      PROVE  [d EXCEPT !.rx2DataRate = r, !.rx1DrOffset = o, !.rx2Frequency = "Hz"] \in Device
  <2> DEFINE e == [d EXCEPT !.rx2DataRate = r]
             f == [e EXCEPT !.rx1DrOffset = o]
             g == [f EXCEPT !.rx2Frequency = "Hz"]
  <2>1. e \in Device
    BY ONLY d \in Device, r \in 0 .. 15, WithField, Zenon
  <2>2. g = [d EXCEPT !.rx2DataRate = r, !.rx1DrOffset = o, !.rx2Frequency = "Hz"]
    OBVIOUS
  <2> HIDE DEF e
  <2>3. f \in Device
    BY ONLY <2>1, o \in 0 .. 7, WithField, Zenon
  <2> HIDE DEF f
  <2>4. g \in Device
    <3>1. "Hz" \in {"869.525", "Hz"}
      OBVIOUS
    <3> QED
      BY ONLY <2>3, <3>1, WithField, Zenon
  <2> QED
    BY <2>2, <2>4
<1> QED
  BY <1>1, <1>2, <1>3, Zenon

\* The class of a command follows from its name.
LEMMA ByItsName ==
  ASSUME NEW c \in Replies
  PROVE  /\ c.cmd = "LinkCheckAns" => c \in LinkCheckAns
         /\ c.cmd = "LinkAdrReq" => c \in LinkAdrReq
         /\ c.cmd = "DutyCycleReq" => c \in DutyCycleReq
         /\ c.cmd = "RxParamSetupReq" => c \in RxParamSetupReq /\ c \in Requests
         /\ c.cmd = "NewChannelReq" => c \in NewChannelReq /\ c \in Requests
<1>1. c \in Downlinks
  BY RepliesAreDownlinks
<1>2. /\ \A x \in [cmd: PlainDown] : x.cmd \in {"DevStatusReq", "TxParamSetupReq"}
      /\ \A x \in LinkCheckAns : x.cmd = "LinkCheckAns"
      /\ \A x \in LinkAdrReq : x.cmd = "LinkAdrReq"
      /\ \A x \in DutyCycleReq : x.cmd = "DutyCycleReq"
      /\ \A x \in RxParamSetupReq : x.cmd = "RxParamSetupReq"
      /\ \A x \in NewChannelReq : x.cmd = "NewChannelReq"
      /\ \A x \in RxTimingSetupReq : x.cmd = "RxTimingSetupReq"
  BY DEF PlainDown, LinkCheckAns, LinkAdrReq, DutyCycleReq, RxParamSetupReq, NewChannelReq, RxTimingSetupReq
<1>3. c.cmd \notin {"LinkCheckAns", "LinkAdrReq"} => c \in Requests
  BY <1>2 DEF Replies
<1> QED
  BY <1>1, <1>2, <1>3, Zenon DEF Downlinks

LEMMA ExecuteIsDevice ==
  ASSUME NEW d \in Device, NEW c \in Replies
  PROVE  Execute(d, c) \in Device
<1>1. ASSUME c.cmd = "LinkCheckAns" PROVE OnLinkCheckAns(d, c) \in Device
  <2>1. c.gwCnt \in Byte
    BY <1>1, ByItsName DEF LinkCheckAns
  <2> QED
    BY <2>1, WithParameters DEF OnLinkCheckAns
<1>2. ASSUME c.cmd = "LinkAdrReq" PROVE OnLinkAdrReq(d, c) \in Device
  <2>1. c \in LinkAdrReq
    BY <1>2, ByItsName
  <2> QED
    BY <2>1, LinkAdrOutcome, ThrowIsDevice, AnswerIsDevice, AdaptedIsDevice
<1>3. ASSUME c.cmd = "DutyCycleReq" PROVE OnDutyCycleReq(d, c) \in Device
  <2> DEFINE e == [d EXCEPT !.aggregatedDutyCycle = GetMaximumAllowedDutyCycle(c)]
  <2>1. c.maxDCycle \in Byte /\ 0 \in Byte
    BY <1>3, ByItsName DEF DutyCycleReq, Byte
  <2>2. GetMaximumAllowedDutyCycle(c) \in {0, 1} \X Byte
    BY <2>1 DEF GetMaximumAllowedDutyCycle
  <2>3. e \in Device
    BY <2>2, WithParameters
  <2> HIDE DEF e
  <2>4. DutyCycleAns \in Answers
    BY DEF Answers
  <2> QED
    BY <2>3, <2>4, ThrowIsDevice, AnswerIsDevice DEF OnDutyCycleReq, e
<1>4. ASSUME c.cmd = "RxParamSetupReq" PROVE OnRxClassParamSetupReq(d, c) \in Device
  <2> DEFINE e == [d EXCEPT !.rx2DataRate = c.rx2DataRate, !.rx1DrOffset = c.rx1DrOffset, !.rx2Frequency = "Hz"]
             a == [cmd |-> "RxParamSetupAns", rx1DrOffsetAck |-> c.rx1DrOffset <= 5,
                   rx2DataRateAck |-> GetSfFromDataRate(c.rx2DataRate) # 0, channelAck |-> TRUE]
  <2>1. c.rx2DataRate \in 0 .. 15 /\ c.rx1DrOffset \in 0 .. 7
    <3>1. c \in RxParamSetupReq /\ FitsItsBits(c)
      BY <1>4, ByItsName, RequestsAssumption
    <3> QED
      BY <1>4, <3>1 DEF RxParamSetupReq, Byte, FitsItsBits
  <2>3. e \in Device
    BY <2>1, WithParameters
  <2>4. \A x, y, z \in BOOLEAN :
          [cmd |-> "RxParamSetupAns", rx1DrOffsetAck |-> x, rx2DataRateAck |-> y, channelAck |-> z] \in Answers
    BY DEF Answers, RxParamSetupAns
  <2>5. (c.rx1DrOffset <= 5) \in BOOLEAN /\ (GetSfFromDataRate(c.rx2DataRate) # 0) \in BOOLEAN /\ TRUE \in BOOLEAN
    BY <2>1
  <2>6. a \in Answers
    BY <2>4, <2>5, Zenon
  <2> HIDE DEF e, a
  <2> QED
    BY <2>3, <2>6, AnswerIsDevice DEF OnRxClassParamSetupReq, e, a
<1>5. OnDevStatusReq(d) \in Device
  <2>1. [cmd |-> "DevStatusAns", battery |-> 10, margin |-> 10] \in Answers
    BY DEF Answers
  <2> QED
    BY <2>1, AnswerIsDevice DEF OnDevStatusReq
<1>6. ASSUME c.cmd = "NewChannelReq" PROVE OnNewChannelReq(d, c) \in Device
  <2> DEFINE n == [lo |-> c.minDataRate, hi |-> c.maxDataRate, on |-> TRUE, known |-> FALSE]
             h == [d.channels EXCEPT ![c.chIndex] = n]
             e == [d EXCEPT !.channels = h]
             a == [cmd |-> "NewChannelAns", dataRateRangeOk |-> TRUE, channelFrequencyOk |-> TRUE]
  <2>1. n \in Channel
    <3>1. c \in NewChannelReq /\ FitsItsBits(c)
      BY <1>6, ByItsName, RequestsAssumption
    <3>2. c.minDataRate \in 0 .. 15 /\ c.maxDataRate \in 0 .. 15
      BY <1>6, <3>1 DEF NewChannelReq, Byte, FitsItsBits
    <3> QED
      BY <3>2 DEF Channel
  <2> HIDE DEF n
  <2>2. h \in [DOMAIN Channels -> Channel]
    BY <2>1, FieldsOfADevice
  <2>3. e = [d EXCEPT !.channels[c.chIndex] = n]
    OBVIOUS
  <2> HIDE DEF h
  <2>4. e \in Device
    BY <2>2, WithChannels
  <2>5. a \in Answers
    BY DEF Answers, NewChannelAns
  <2>6. OnNewChannelReq(d, c) = IF c.chIndex \notin DOMAIN d.channels THEN Throw(d) ELSE Answer(e, a)
    BY <2>3 DEF OnNewChannelReq, n
  <2> HIDE DEF e, a
  <2> QED
    BY <2>4, <2>5, <2>6, ThrowIsDevice, AnswerIsDevice
<1>7. \/ Execute(d, c) = d
      \/ Execute(d, c) = OnDevStatusReq(d)
      \/ c.cmd = "LinkCheckAns" /\ Execute(d, c) = OnLinkCheckAns(d, c)
      \/ c.cmd = "LinkAdrReq" /\ Execute(d, c) = OnLinkAdrReq(d, c)
      \/ c.cmd = "DutyCycleReq" /\ Execute(d, c) = OnDutyCycleReq(d, c)
      \/ c.cmd = "RxParamSetupReq" /\ Execute(d, c) = OnRxClassParamSetupReq(d, c)
      \/ c.cmd = "NewChannelReq" /\ Execute(d, c) = OnNewChannelReq(d, c)
  BY DEF Execute
<1> QED
  BY <1>1, <1>2, <1>3, <1>4, <1>5, <1>6, <1>7

-----------------------------------------------------------------------------
(* What the components write *)

LEMMA ImageIsFinite ==
  ASSUME NEW S, IsFiniteSet(S), NEW f
  PROVE  IsFiniteSet({f[x] : x \in S})
<1> DEFINE T == {f[x] : x \in S}
           g == [x \in S |-> f[x]]
<1>1. g \in Surjection(S, T)
  BY DEF Surjection
<1> HIDE DEF T, g
<1>2. IsFiniteSet(T)
  BY <1>1, FS_Surjection
<1> QED
  BY <1>2 DEF T

LEMMA ReceivedPowerIsInt ==
  ASSUME NEW gw \in Packets
  PROVE  GetReceivedPower(gw) \in Int /\ IsFiniteSet(DOMAIN gw) /\ Cardinality(DOMAIN gw) \in Nat
<1>1. PICK S \in (SUBSET Gateways) \ {{}} : gw \in [S -> Int]
  BY DEF Packets
<1>2. IsFiniteSet(S) /\ Cardinality(S) \in Nat /\ Cardinality(S) # 0 /\ DOMAIN gw = S
  <2>1. IsFiniteSet(S)
    BY GatewaysAssumption, FS_Subset
  <2>2. S # {} /\ DOMAIN gw = S
    BY <1>1
  <2> QED
    BY <2>1, <2>2, FS_CardinalityType, FS_EmptySet
<1>3. Min({gw[g] : g \in S}) \in Int /\ Max({gw[g] : g \in S}) \in Int
  <2> DEFINE T == {gw[g] : g \in S}
  <2>1. T \in SUBSET Int /\ T # {} /\ IsFiniteSet(T)
    BY <1>1, <1>2, ImageIsFinite
  <2> HIDE DEF T
  <2>2. Min(T) \in Int /\ Max(T) \in Int
    BY <2>1, MinMaxAreInts
  <2> QED
    BY <2>2 DEF T
<1>4. GetAverageTxFromGateways(gw) \in Int
  <2> DEFINE val(g) == gw[g]
             sum == MapThenSumSet(val, S)
             rhs(f) == [s \in SUBSET S |-> IF s = {} THEN 0 ELSE val(Chosen(s)) + f[s \ {Chosen(s)}]]
  <2>1. sum = (CHOOSE f : f = rhs(f))[S]
    BY Zenon DEF MapThenSumSet, MapThenFoldSet, Chosen
  <2>2. \A f : f = rhs(f) <=> Sums(f, gw, S)
    BY DEF Sums
  <2>3. GetAverageTxFromGateways(gw) = sum \div Cardinality(S)
    BY <1>2 DEF GetAverageTxFromGateways
  <2> HIDE DEF rhs, sum
  <2>4. (CHOOSE f : f = rhs(f)) = (CHOOSE f : Sums(f, gw, S))
    BY <2>2
  <2>5. (CHOOSE f : Sums(f, gw, S))[S] \in Int
    BY <1>1, <1>2, ChosenSum DEF Closed
  <2>6. sum \in Int
    BY <2>1, <2>4, <2>5
  <2> QED
    BY <1>2, <2>3, <2>6
<1>5. TpAveraging \in {"AVERAGE", "MAXIMUM", "MINIMUM"}
  BY AttributesAssumption DEF Methods
<1> QED
  BY <1>2, <1>3, <1>4, <1>5 DEF GetReceivedPower, GetMinTxFromGateways, GetMaxTxFromGateways

LEMMA SNRIsInt ==
  ASSUME NEW h \in Seq(Packets), h # <<>>
  PROVE  SNR(h) \in Int
<1> DEFINE S == DOMAIN h
           snr(i) == RxPowerToSNR(GetReceivedPower(h[i]))
           w == [i \in S |-> snr(i)]
<1>1. S = 1 .. Len(h) /\ Len(h) \in Nat \ {0} /\ \A i \in S : h[i] \in Packets
  OBVIOUS
<1>2. \A i \in S : snr(i) \in Int
  BY <1>1, ReceivedPowerIsInt DEF RxPowerToSNR
<1>3. IsFiniteSet(S) /\ S # {}
  <2>1. S = 1 .. Len(h) /\ 1 \in 1 .. Len(h) /\ Len(h) \in Int
    BY <1>1
  <2>2. IsFiniteSet(1 .. Len(h))
    BY <2>1, FS_Interval
  <2> HIDE DEF S
  <2> QED
    BY <2>1, <2>2
<1> HIDE DEF S
<1>4. Min(SNRs(h)) \in Int /\ Max(SNRs(h)) \in Int
  <2> DEFINE T == {snr(i) : i \in S}
  <2>1. SNRs(h) = T
    BY DEF SNRs, S
  <2> HIDE DEF snr
  <2>2. T \in SUBSET Int /\ T # {} /\ IsFiniteSet(T)
    <3>1. T = {w[i] : i \in S}
      OBVIOUS
    <3> HIDE DEF w
    <3>2. IsFiniteSet(T)
      BY <1>3, <3>1, ImageIsFinite
    <3> QED
      BY <1>2, <1>3, <3>2
  <2> HIDE DEF T
  <2>3. Min(T) \in Int /\ Max(T) \in Int
    BY <2>2, MinMaxAreInts
  <2> QED
    BY <2>1, <2>3
<1>5. GetAverageSNR(h) \in Int
  <2> DEFINE sum == MapThenSumSet(snr, S)
             rhs(f) == [s \in SUBSET S |-> IF s = {} THEN 0 ELSE snr(Chosen(s)) + f[s \ {Chosen(s)}]]
  <2>1. sum = (CHOOSE f : f = rhs(f))[S]
    BY Zenon DEF MapThenSumSet, MapThenFoldSet, Chosen
  <2>3. GetAverageSNR(h) = sum \div HistoryRange
    BY Zenon DEF GetAverageSNR, S
  <2> HIDE DEF snr
  <2>4. w \in [S -> Int] /\ \A i \in S : w[i] = snr(i)
    BY <1>2
  <2>5. ASSUME NEW s \in SUBSET S, s # {} PROVE Chosen(s) \in S
    BY <2>5 DEF Chosen
  <2>2. \A f : f = rhs(f) <=> Sums(f, w, S)
    BY <2>4, <2>5 DEF Sums
  <2> HIDE DEF rhs, sum, w
  <2>6. (CHOOSE f : f = rhs(f)) = (CHOOSE f : Sums(f, w, S))
    BY <2>2
  <2>7. (CHOOSE f : Sums(f, w, S))[S] \in Int
    BY <1>3, <2>4, ChosenSum DEF Closed
  <2>8. sum \in Int /\ HistoryRange \in Nat \ {0}
    BY <2>1, <2>6, <2>7, AttributesAssumption
  <2> QED
    BY <2>3, <2>8
<1>6. HistoryAveraging \in {"AVERAGE", "MAXIMUM", "MINIMUM"}
  BY AttributesAssumption DEF Methods
<1> QED
  BY <1>4, <1>5, <1>6 DEF SNR, GetMinSNR, GetMaxSNR

LEMMA AdrIsInRange ==
  ASSUME NEW sf \in 7 .. 12, NEW txPower \in 0 .. 16, NEW h \in Seq(Packets), h # <<>>
  PROVE  /\ AdrImplementation(sf, txPower, h).dataRate \in 0 .. 5
         /\ AdrImplementation(sf, txPower, h).txPower \in Int
<1> DEFINE steps == (SNR(h) - Treshold[SfToDr(sf)]) \div 300
           faster == IF steps > 0 THEN AtMost(steps, sf - 7) ELSE 0
           weaker == IF steps > faster /\ txPower > 2
                     THEN AtMost(steps - faster, (txPower - 1) \div 2) ELSE 0
           stronger == IF steps < 0 /\ txPower < 14 THEN AtMost(-steps, (15 - txPower) \div 2) ELSE 0
<1>1. \A n : SfToDr(n) \in 0 .. 5
  BY DEF SfToDr
<1>2. steps \in Int
  <2>1. \A dr \in 0 .. 5 : Treshold[dr] \in Int
    BY DEF Treshold
  <2>2. SNR(h) \in Int /\ Treshold[SfToDr(sf)] \in Int
    BY <1>1, <2>1, SNRIsInt
  <2> QED
    BY <2>2
<1> HIDE DEF steps
<1>3. \A a, b \in Int : AtMost(a, b) \in Int
  BY DEF AtMost
<1>4. faster \in Int
  BY <1>2, <1>3
<1> HIDE DEF faster
<1>5. weaker \in Int /\ stronger \in Int
  <2> DEFINE a == (txPower - 1) \div 2
             b == (15 - txPower) \div 2
  <2>1. a \in Int /\ b \in Int /\ -steps \in Int /\ steps - faster \in Int
    BY <1>2, <1>4
  <2> HIDE DEF a, b
  <2>2. AtMost(steps - faster, a) \in Int /\ AtMost(-steps, b) \in Int
    BY <1>3, <2>1
  <2> QED
    BY <2>2 DEF a, b
<1>6. AdrImplementation(sf, txPower, h) = [dataRate |-> SfToDr(sf - faster), txPower |-> txPower - 2 * weaker + 2 * stronger]
  BY DEF AdrImplementation, steps, faster
<1> HIDE DEF weaker, stronger
<1> QED
  BY <1>1, <1>5, <1>6

LEMMA AdrCommandTyped ==
  ASSUME Typed
  PROVE  AdrCommand \in Seq(LinkAdrReq) /\ Len(AdrCommand) <= 1
<1> DEFINE sf == SfForDataRate[device.dataRate]
           adr == AdrImplementation(sf, device.txPower, history)
           p == IF ToggleTxPower THEN adr.txPower ELSE device.txPower
           c == [cmd |-> "LinkAdrReq", dataRate |-> adr.dataRate, txPower |-> GetTxPowerIndex(p),
                 channelMask |-> 7, chMaskCntl |-> 0, nbRep |-> 1]
<1>1. AdrCommand = <<>> \/ (Len(history) >= HistoryRange /\ AdrCommand = <<c>>)
  BY DEF AdrCommand
<1>2. ASSUME Len(history) >= HistoryRange PROVE c \in LinkAdrReq
  <2>1. history \in Seq(Packets) /\ history # <<>>
    BY <1>2, AttributesAssumption DEF Typed
  <2>2. sf \in 7 .. 12 /\ device.txPower \in 0 .. 16
    <3>1. device.dataRate \in 0 .. 6 /\ device.txPower \in 0 .. 16
      BY FieldsOfADevice DEF Typed
    <3> QED
      BY <3>1 DEF SfForDataRate
  <2> HIDE DEF sf
  <2>3. adr.dataRate \in 0 .. 5 /\ adr.txPower \in Int
    BY <2>1, <2>2, AdrIsInRange
  <2> HIDE DEF adr
  <2>4. p \in Int
    BY <2>2, <2>3
  <2> HIDE DEF p
  <2>5. GetTxPowerIndex(p) \in 0 .. 7
    BY <2>4 DEF GetTxPowerIndex
  <2> QED
    BY <2>3, <2>5 DEF LinkAdrReq, Byte, U16
<1> HIDE DEF c
<1>3. \A x \in LinkAdrReq : <<x>> \in Seq(LinkAdrReq) /\ Len(<<x>>) <= 1
  OBVIOUS
<1>4. <<>> \in Seq(LinkAdrReq) /\ Len(<<>>) <= 1
  OBVIOUS
<1> QED
  BY <1>1, <1>2, <1>3, <1>4, Zenon

LEMMA LinkCheckCommandTyped ==
  ASSUME Typed, phase = "window"
  PROVE  LinkCheckCommand \in Seq(LinkCheckAns) /\ Len(LinkCheckCommand) <= 1
<1> DEFINE n == Cardinality(DOMAIN history[Len(history)]) % 256
           c == [cmd |-> "LinkCheckAns", margin |-> 0, gwCnt |-> n]
<1>1. history[Len(history)] \in Packets
  BY DEF Typed
<1>2. n \in Byte
  <2> DEFINE m == Cardinality(DOMAIN history[Len(history)])
  <2>1. m \in Nat
    BY <1>1, ReceivedPowerIsInt
  <2> HIDE DEF m
  <2>2. m % 256 \in Byte
    BY <2>1 DEF Byte
  <2> QED
    BY <2>2 DEF m
<1> HIDE DEF n
<1>3. c \in LinkCheckAns
  BY <1>2 DEF LinkCheckAns, Byte
<1>4. LinkCheckCommand = <<>> \/ LinkCheckCommand = <<c>>
  BY DEF LinkCheckCommand, n
<1> HIDE DEF c
<1>5. \A x \in LinkCheckAns : <<x>> \in Seq(LinkCheckAns) /\ Len(<<x>>) <= 1
  OBVIOUS
<1>6. <<>> \in Seq(LinkCheckAns) /\ Len(<<>>) <= 1
  OBVIOUS
<1> QED
  BY <1>3, <1>4, <1>5, <1>6, Zenon

-----------------------------------------------------------------------------
(* The steps keep the types *)

LEMMA ResetIsDevice ==
  ASSUME NEW d \in Device
  PROVE  resetRetransmissionParameters(d) \in Device /\ ReceiveAck(d) \in Device
<1>1. FALSE \in BOOLEAN /\ MaxNumbTx \in 0 .. 255 /\ <<>> \in Seq(Answers)
  BY AttributesAssumption
<1>2. resetRetransmissionParameters(d) \in Device
  BY <1>1, WithRetries DEF resetRetransmissionParameters
<1> QED
  BY <1>2 DEF ReceiveAck

LEMMA OpenSecondIsDevice ==
  ASSUME NEW d \in Device
  PROVE  OpenSecondReceiveWindow(d) \in Device
  BY ThrowIsDevice DEF OpenSecondReceiveWindow

LEMMA AdaptIsDevice ==
  ASSUME NEW d \in Device
  PROVE  AdaptDataRate(d) \in Device
<1>1. CASE d.dataRate > 0
  <2> DEFINE r == d.dataRate - 1
  <2>1. r \in 0 .. 6 /\ 14 \in 0 .. 16
    BY <1>1, FieldsOfADevice
  <2>2. AdaptDataRate(d) \in {d, [d EXCEPT !.dataRate = r, !.txPower = 14]}
    BY DEF AdaptDataRate
  <2> HIDE DEF r
  <2>3. [d EXCEPT !.dataRate = r, !.txPower = 14] \in Device
    BY <2>1, WithRate, Zenon
  <2> QED
    BY <2>2, <2>3
<1>2. CASE ~(d.dataRate > 0)
  BY <1>2 DEF AdaptDataRate
<1> QED
  BY <1>1, <1>2

LEMMA DoSendIsDevice ==
  ASSUME Typed, NEW isNew \in BOOLEAN, isNew \/ MayRetransmit
  PROVE  DoSend(isNew) \in Device
<1>1. device \in Device /\ device.retxLeft \in 0 .. 255
  BY FieldsOfADevice DEF Typed
<1>2. CASE isNew
  <2> DEFINE n == IF Confirmed THEN MaxNumbTx - 1 ELSE MaxNumbTx
  <2>1. n \in 0 .. 255 /\ Confirmed \in BOOLEAN /\ <<>> \in Seq(Answers)
    BY AttributesAssumption
  <2>2. DoSend(isNew) = [device EXCEPT !.commands = <<>>, !.waitingAck = Confirmed, !.retxLeft = n]
    BY <1>2 DEF DoSend
  <2> HIDE DEF n
  <2>3. [device EXCEPT !.commands = <<>>, !.waitingAck = Confirmed, !.retxLeft = n] \in Device
    BY <1>1, <2>1, WithRetries, Zenon
  <2> QED
    BY <2>2, <2>3
<1>3. CASE ~isNew
  <2> DEFINE n == device.retxLeft - 1
  <2>1. n \in 0 .. 255
    BY <1>1, <1>3 DEF MayRetransmit
  <2>2. DoSend(isNew) = [device EXCEPT !.retxLeft = n]
    BY <1>3 DEF DoSend
  <2> HIDE DEF n
  <2> QED
    BY <1>1, <2>1, <2>2, WithOther
<1> QED
  BY <1>2, <1>3

LEMMA HistoryTyped ==
  ASSUME Typed, NEW d \in Device, NEW heard \in SUBSET Gateways, heard # {}
  PROVE  LET h == InsertReceivedPacket(d, heard)
         IN  h \in Seq(Packets) /\ Len(h) <= HistoryRange /\ h # <<>>
<1> DEFINE p == [g \in heard |-> RxPower(d, g)]
           all == Append(history, p)
<1>1. p \in Packets
  <2>1. \A g \in heard : RxPower(d, g) \in Int
    <3>1. d.txPower \in Int
      BY FieldsOfADevice
    <3>2. \A g \in heard : Loss[g] \in Int
      BY GatewaysAssumption
    <3> QED
      BY ONLY <3>1, <3>2 DEF RxPower
  <2>2. p \in [heard -> Int]
    BY <2>1
  <2> HIDE DEF p
  <2> QED
    BY <2>2 DEF Packets
<1> HIDE DEF p
<1>2. history \in Seq(Packets) /\ Len(history) <= HistoryRange /\ HistoryRange \in Nat \ {0}
  BY AttributesAssumption DEF Typed
<1>3. all \in Seq(Packets) /\ Len(all) = Len(history) + 1 /\ Len(history) \in Nat
  BY <1>1, <1>2
<1>4. InsertReceivedPacket(d, heard) = IF Len(all) > HistoryRange THEN SubSeq(all, 2, Len(all)) ELSE all
  BY DEF InsertReceivedPacket, p
<1> HIDE DEF all
<1>5. CASE Len(all) > HistoryRange
  <2>1. Len(all) = HistoryRange + 1
    BY <1>2, <1>3, <1>5
  <2> DEFINE t == SubSeq(all, 2, Len(all))
  <2>2. t \in Seq(Packets) /\ Len(t) = HistoryRange
    BY <1>2, <1>3, <2>1
  <2>3. InsertReceivedPacket(d, heard) = t
    BY <1>4, <1>5
  <2> HIDE DEF t
  <2>4. t # <<>> /\ Len(t) <= HistoryRange
    BY <1>2, <2>2
  <2> QED
    BY <2>2, <2>3, <2>4
<1>6. CASE ~(Len(all) > HistoryRange)
  <2>1. all # <<>>
    BY <1>3
  <2> QED
    BY <1>2, <1>3, <1>4, <1>6, <2>1
<1> QED
  BY <1>5, <1>6

LEMMA TypedInit == Init => Typed
<1> SUFFICES ASSUME Init PROVE Typed
  OBVIOUS
<1>1. PICK dr \in 0 .. 5 :
        device = [dataRate |-> dr, txPower |-> 14, channels |-> Channels, rx1DrOffset |-> 0,
                  rx2DataRate |-> 0, rx2Frequency |-> "869.525", aggregatedDutyCycle |-> <<1, 0>>,
                  gatewayCount |-> 0, commands |-> <<>>, waitingAck |-> FALSE, retxLeft |-> MaxNumbTx,
                  alive |-> TRUE]
  BY DEF Init
<1>2. Channels \in [DOMAIN Channels -> Channel]
  BY DEF Channels, Channel
<1>3. MaxNumbTx \in 0 .. 255 /\ HistoryRange \in Nat /\ <<1, 0>> \in {0, 1} \X Byte /\ 0 \in Byte
  BY AttributesAssumption DEF Byte
<1>4. device \in Device
  BY <1>1, <1>2, <1>3 DEF Device
<1>5. requested \in 0 .. MaxRequests
  BY RequestsAssumption DEF Init
<1>6. /\ history = <<>> /\ uplink = <<>> /\ inbox = <<>> /\ phase = "idle" /\ calm = FALSE
  BY DEF Init
<1>7. history \in Seq(Packets) /\ Len(history) <= HistoryRange /\ uplink \in Seq(Answers) /\ inbox \in Seq(Replies)
  BY <1>3, <1>6
<1> QED
  BY <1>4, <1>5, <1>6, <1>7 DEF Typed

LEMMA TransmitTyped ==
  ASSUME Typed, NEW isNew \in BOOLEAN, Transmit(isNew)
  PROVE  Typed'
<1> DEFINE sent == AdaptDataRate(DoSend(isNew))
<1>1. device \in Device /\ sent \in Device
  BY DoSendIsDevice, AdaptIsDevice DEF Transmit, Typed
<1>2. /\ UNCHANGED <<inbox, calm, requested>> /\ phase = "idle"
      /\ \/ device' = Throw(device) /\ UNCHANGED <<history, uplink, phase>>
         \/ device' = OpenSecondReceiveWindow(sent) /\ UNCHANGED <<history, uplink, phase>>
         \/ \E heard \in SUBSET Hearing(sent) :
              /\ heard # {} /\ device' = sent /\ phase' = "window"
              /\ history' = InsertReceivedPacket(sent, heard)
              /\ uplink' = OnTheAir(device.commands)
  <2> HIDE DEF sent
  <2>1. Hearing(sent) \in SUBSET Hearing(sent)
    OBVIOUS
  <2> QED
    BY <2>1 DEF Transmit, sent
<1> HIDE DEF sent
<1>3. CASE device' = Throw(device) /\ UNCHANGED <<history, uplink, phase>>
  BY <1>1, <1>2, <1>3, ThrowIsDevice DEF Typed
<1>4. CASE device' = OpenSecondReceiveWindow(sent) /\ UNCHANGED <<history, uplink, phase>>
  BY <1>1, <1>2, <1>4, OpenSecondIsDevice DEF Typed
<1>5. ASSUME NEW heard \in SUBSET Hearing(sent), heard # {}, device' = sent, phase' = "window",
             history' = InsertReceivedPacket(sent, heard), uplink' = OnTheAir(device.commands)
      PROVE  Typed'
  <2>1. heard \in SUBSET Gateways
    BY DEF Hearing
  <2>2. history' \in Seq(Packets) /\ Len(history') <= HistoryRange /\ history' # <<>>
    BY <1>1, <1>5, <2>1, HistoryTyped
  <2>3. uplink' \in Seq(Answers)
    BY <1>1, <1>5, FieldsOfADevice, OnTheAirOf
  <2> QED
    BY <1>1, <1>2, <1>5, <2>2, <2>3 DEF Typed
<1> QED
  BY <1>2, <1>3, <1>4, <1>5

LEMMA ReplyTyped ==
  ASSUME Typed, NEW window, NEW request \in Seq(Replies), Len(request) + requested <= MaxRequests,
         Reply(window, request)
  PROVE  Typed'
<1> DEFINE commands == LinkCheckCommand \o AdrCommand \o request
<1>1. /\ phase = "window" /\ requested' = requested + Len(request) /\ UNCHANGED <<history, uplink, calm>>
      /\ \/ device' = ReceiveAck(device) /\ inbox' = OnTheAir(commands) /\ phase' = "parsing"
         \/ device' = OpenSecondReceiveWindow(device) /\ phase' = "idle" /\ UNCHANGED inbox
  BY DEF Reply
<1>2. commands \in Seq(Replies)
  <2>1. LinkCheckCommand \in Seq(LinkCheckAns) /\ AdrCommand \in Seq(LinkAdrReq)
    BY <1>1, LinkCheckCommandTyped, AdrCommandTyped
  <2>2. LinkCheckCommand \in Seq(Replies) /\ AdrCommand \in Seq(Replies)
    BY <2>1 DEF Replies
  <2> QED
    BY <2>2
<1>3. OnTheAir(commands) \in Seq(Replies)
  BY <1>2, OnTheAirOf
<1> HIDE DEF commands
<1>4. device' \in Device /\ inbox' \in Seq(Replies) /\ phase' \in {"idle", "parsing"}
  BY <1>1, <1>3, ResetIsDevice, OpenSecondIsDevice DEF Typed
<1>5. requested' \in 0 .. MaxRequests
  <2>1. Len(request) \in Nat /\ requested \in 0 .. MaxRequests /\ MaxRequests \in Nat
    BY RequestsAssumption DEF Typed
  <2> QED
    BY <1>1, <2>1
<1> QED
  BY <1>1, <1>4, <1>5 DEF Typed

LEMMA TypedStep == Typed /\ [Next]_vars => Typed'
<1> SUFFICES ASSUME Typed, [Next]_vars PROVE Typed'
  OBVIOUS
<1>1. ASSUME NEW isNew \in BOOLEAN, Transmit(isNew) PROVE Typed'
  BY <1>1, TransmitTyped
<1>2. CASE GiveUp
  BY <1>2, ResetIsDevice DEF GiveUp, Typed
<1>3. CASE AddMacCommand
  <2>1. LinkCheckReq \in Answers
    BY DEF Answers
  <2>2. device' \in Device /\ requested' \in 0 .. MaxRequests
    BY <1>3, <2>1, AnswerIsDevice, RequestsAssumption DEF AddMacCommand, Typed
  <2> QED
    BY <1>3, <2>2 DEF AddMacCommand, Typed
<1>4. ASSUME NEW window \in 1 .. 2, BeforeSendingReply(window) PROVE Typed'
  <2>1. requested \in 0 .. MaxRequests /\ MaxRequests \in Nat
    BY RequestsAssumption DEF Typed
  <2>2. <<>> \in Seq(Replies) /\ Len(<<>>) = 0
    OBVIOUS
  <2>3. CASE Reply(window, <<>>)
    <3>1. 0 + requested <= MaxRequests
      BY <2>1
    <3> QED
      BY <2>2, <2>3, <3>1, ReplyTyped
  <2>4. ASSUME requested < MaxRequests, NEW c \in Requests, Reply(window, <<c>>) PROVE Typed'
    <3>1. c \in Replies
      BY DEF Replies
    <3>2. <<c>> \in Seq(Replies) /\ Len(<<c>>) = 1
      BY <3>1
    <3>3. 1 + requested <= MaxRequests
      BY <2>1, <2>4
    <3> QED
      BY <2>4, <3>2, <3>3, ReplyTyped
  <2> QED
    BY <1>4, <2>3, <2>4 DEF BeforeSendingReply
<1>5. CASE InitializeReply
  BY <1>5, OpenSecondIsDevice DEF InitializeReply, Typed
<1>6. CASE ParseCommand
  <2>1. CASE inbox = <<>>
    BY <1>6, <2>1 DEF ParseCommand, Typed
  <2>2. CASE inbox # <<>>
    <3>1. Head(inbox) \in Replies /\ Tail(inbox) \in Seq(Replies)
      BY <2>2 DEF Typed
    <3>2. /\ device' = Execute(device, Head(inbox)) /\ inbox' = Tail(inbox)
          /\ UNCHANGED <<history, uplink, calm, requested, phase>> /\ phase = "parsing"
      BY <1>6, <2>2 DEF ParseCommand
    <3>3. device' \in Device
      BY <3>1, <3>2, ExecuteIsDevice DEF Typed
    <3> QED
      BY <3>1, <3>2, <3>3 DEF Typed
  <2> QED
    BY <2>1, <2>2
<1>7. CASE CalmDown
  BY <1>7 DEF CalmDown, Typed
<1>8. CASE UNCHANGED vars
  BY <1>8 DEF vars, Typed
<1> QED
  BY <1>1, <1>2, <1>3, <1>4, <1>5, <1>6, <1>7, <1>8 DEF Next

\* The registers of the device stay within the tables they index, the components
\* write commands the device can read, and the server keeps as many receptions as
\* it wants to.
THEOREM TypeCorrect == Spec => []TypeOK
<1>1. Typed => TypeOK
  <2> SUFFICES ASSUME Typed PROVE TypeOK
    OBVIOUS
  <2>1. inbox \in Seq(Downlinks)
    BY RepliesAreDownlinks DEF Typed
  <2>2. ASSUME NEW i \in DOMAIN history
        PROVE  DOMAIN history[i] \subseteq Gateways /\ DOMAIN history[i] # {}
    <3>1. history[i] \in Packets
      BY DEF Typed
    <3> QED
      BY <3>1 DEF Packets
  <2> QED
    BY <2>1, <2>2 DEF Typed, TypeOK
<1> QED
  BY <1>1, TypedInit, TypedStep, PTL DEF Spec

-----------------------------------------------------------------------------
(* Data rates and channels *)

\* No component of the user's own defines channels: OnNewChannelReq checks nothing,
\* and takes over a channel whatever its data rates.
NoNewChannels == \A c \in Requests : c.cmd # "NewChannelReq"

\* The channels are those the device was set up with, one of them is enabled, and the
\* data rate is one they have.
WellTuned(d) ==
  /\ d.dataRate \in 0 .. 5
  /\ \A i \in DOMAIN d.channels : d.channels[i].lo = 0 /\ d.channels[i].hi = 5
  /\ \E i \in DOMAIN d.channels : d.channels[i].on

\* Two devices with the same channels and data rate.
SameRadio(d, e) == e.dataRate = d.dataRate /\ e.channels = d.channels

LEMMA SameIsWellTuned == ASSUME NEW d, NEW e, WellTuned(d), SameRadio(d, e) PROVE WellTuned(e)
  BY DEF WellTuned, SameRadio

LEMMA AnswerKeepsRadio == ASSUME NEW d \in Device, NEW c PROVE SameRadio(d, Answer(d, c))
  BY DEF Device, SameRadio, Answer

LEMMA ThrowKeepsRadio == ASSUME NEW d \in Device PROVE SameRadio(d, Throw(d))
  BY DEF Device, SameRadio, Throw

\* An accepted LinkAdrReq leaves a channel for its data rate.
LEMMA AdaptedWellTuned ==
  ASSUME NEW d \in Device, NEW c \in LinkAdrReq, WellTuned(d), NEW size, size = Cardinality(DOMAIN d.channels),
         \A i \in GetEnabledChannelsList(c.channelMask) : i <= size,
         \E i \in GetEnabledChannelsList(c.channelMask) \ {size} : Admits(d.channels[i], c.dataRate)
  PROVE  WellTuned(Adapted(d, c))
<1> DEFINE enabled == GetEnabledChannelsList(c.channelMask)
           h == [i \in DOMAIN d.channels |-> [d.channels[i] EXCEPT !.on = i \in enabled]]
           e == Adapted(d, c)
<1>1. DOMAIN d.channels = 0 .. NbChannels - 1 /\ NbChannels \in 1 .. 16
  BY FieldsOfADevice, ChannelsAssumption DEF Channels
<1>2. size = NbChannels
  <2>1. 0 \in Int /\ NbChannels - 1 \in Int /\ ~(0 > NbChannels - 1) /\ NbChannels - 1 - 0 + 1 = NbChannels
    BY <1>1
  <2>2. Cardinality(0 .. NbChannels - 1) = NbChannels
    BY <2>1, FS_Interval
  <2> QED
    BY <1>1, <2>2
<1>3. PICK i \in enabled \ {size} : Admits(d.channels[i], c.dataRate)
  OBVIOUS
<1>4. i \in DOMAIN d.channels
  <2>1. i \in 0 .. 15 /\ i <= NbChannels /\ i # NbChannels
    BY <1>2 DEF GetEnabledChannelsList
  <2> QED
    BY <1>1, <2>1
<1>5. e.dataRate = c.dataRate /\ e.channels = h
  BY DEF Adapted, Device
<1>6. \A k \in DOMAIN d.channels : h[k].lo = 0 /\ h[k].hi = 5 /\ (h[k].on <=> k \in enabled)
  <2> SUFFICES ASSUME NEW k \in DOMAIN d.channels PROVE h[k].lo = 0 /\ h[k].hi = 5 /\ (h[k].on <=> k \in enabled)
    OBVIOUS
  <2>1. d.channels[k] \in Channel /\ d.channels[k].lo = 0 /\ d.channels[k].hi = 5
    BY FieldsOfADevice DEF WellTuned
  <2>2. h[k] = [d.channels[k] EXCEPT !.on = k \in enabled]
    OBVIOUS
  <2> HIDE DEF enabled, h
  <2> QED
    BY <2>1, <2>2 DEF Channel
<1>7. c.dataRate \in 0 .. 5
  <2>1. c.dataRate \in Nat
    BY DEF LinkAdrReq, Byte
  <2> QED
    BY <1>3, <1>4, <2>1 DEF Admits, WellTuned
<1>8. DOMAIN h = DOMAIN d.channels /\ i \in enabled
  OBVIOUS
<1> HIDE DEF e, h, enabled
<1>9. WellTuned(e)
  BY <1>4, <1>5, <1>6, <1>7, <1>8 DEF WellTuned
<1> QED
  BY <1>9 DEF e

LEMMA ExecuteWellTuned ==
  ASSUME NoNewChannels, NEW d \in Device, WellTuned(d), NEW c \in Replies
  PROVE  WellTuned(Execute(d, c))
<1>1. SameRadio(d, OnLinkCheckAns(d, c))
  BY DEF Device, SameRadio, OnLinkCheckAns
<1>2. ASSUME c.cmd = "LinkAdrReq" PROVE WellTuned(OnLinkAdrReq(d, c))
  <2>1. c \in LinkAdrReq
    BY <1>2, ByItsName
  <2>2. ASSUME NEW a \in Answers
        PROVE  Answer(d, a) \in Device /\ WellTuned(Answer(d, a)) /\ Answer(d, a).channels = d.channels
    BY AnswerIsDevice, AnswerKeepsRadio, SameIsWellTuned DEF SameRadio
  <2>3. CASE OnLinkAdrReq(d, c) = Throw(d) \/ \E a \in Answers : OnLinkAdrReq(d, c) = Answer(d, a)
    BY <2>2, <2>3, ThrowKeepsRadio, SameIsWellTuned
  <2>4. ASSUME NEW a \in Answers, OnLinkAdrReq(d, c) = Adapted(Answer(d, a), c),
               LET size == Cardinality(DOMAIN d.channels)
               IN  /\ \A i \in GetEnabledChannelsList(c.channelMask) : i <= size
                   /\ \E i \in GetEnabledChannelsList(c.channelMask) \ {size} : Admits(d.channels[i], c.dataRate)
        PROVE  WellTuned(OnLinkAdrReq(d, c))
    <3> DEFINE e == Answer(d, a)
    <3>1. e \in Device /\ WellTuned(e) /\ e.channels = d.channels
      BY <2>2
    <3> HIDE DEF e
    <3>2. WellTuned(Adapted(e, c))
      BY <2>1, <2>4, <3>1, AdaptedWellTuned
    <3> QED
      BY <2>4, <3>2 DEF e
  <2> QED
    BY <2>1, <2>3, <2>4, LinkAdrOutcome
<1>3. WellTuned(OnDutyCycleReq(d, c))
  <2> DEFINE e == [d EXCEPT !.aggregatedDutyCycle = GetMaximumAllowedDutyCycle(c)]
  <2>1. OnDutyCycleReq(d, c) = Throw(d) \/ OnDutyCycleReq(d, c) = Answer(e, DutyCycleAns)
    BY DEF OnDutyCycleReq
  <2>2. SameRadio(d, Answer(e, DutyCycleAns))
    BY DEF Device, SameRadio, Answer
  <2> QED
    BY <2>1, <2>2, ThrowKeepsRadio, SameIsWellTuned
<1>4. WellTuned(OnRxClassParamSetupReq(d, c))
  <2> DEFINE e == [d EXCEPT !.rx2DataRate = c.rx2DataRate, !.rx1DrOffset = c.rx1DrOffset, !.rx2Frequency = "Hz"]
  <2>1. \A a : SameRadio(d, Answer(e, a))
    BY DEF Device, SameRadio, Answer
  <2> HIDE DEF e
  <2>2. \E a : OnRxClassParamSetupReq(d, c) = Answer(e, a)
    BY DEF OnRxClassParamSetupReq, e
  <2> QED
    BY <2>1, <2>2, SameIsWellTuned
<1>5. WellTuned(OnDevStatusReq(d))
  BY AnswerKeepsRadio, SameIsWellTuned DEF OnDevStatusReq
<1>6. c.cmd # "NewChannelReq"
  BY ByItsName DEF NoNewChannels
<1>7. \/ Execute(d, c) = d
      \/ Execute(d, c) = OnDevStatusReq(d)
      \/ Execute(d, c) = OnLinkCheckAns(d, c)
      \/ c.cmd = "LinkAdrReq" /\ Execute(d, c) = OnLinkAdrReq(d, c)
      \/ Execute(d, c) = OnDutyCycleReq(d, c)
      \/ Execute(d, c) = OnRxClassParamSetupReq(d, c)
  BY <1>6 DEF Execute
<1> QED
  BY <1>1, <1>2, <1>3, <1>4, <1>5, <1>7, SameIsWellTuned

LEMMA OthersKeepTuned ==
  ASSUME NEW d \in Device, WellTuned(d)
  PROVE  /\ WellTuned(Throw(d)) /\ WellTuned(OpenSecondReceiveWindow(d)) /\ WellTuned(ReceiveAck(d))
         /\ WellTuned(resetRetransmissionParameters(d)) /\ WellTuned(AdaptDataRate(d))
<1>1. SameRadio(d, Throw(d)) /\ SameRadio(d, resetRetransmissionParameters(d))
  BY ThrowKeepsRadio DEF Device, SameRadio, resetRetransmissionParameters
<1>2. WellTuned(Throw(d)) /\ WellTuned(resetRetransmissionParameters(d))
  BY <1>1, SameIsWellTuned
<1>3. WellTuned(AdaptDataRate(d))
  <2> DEFINE r == d.dataRate - 1
             e == [d EXCEPT !.dataRate = r, !.txPower = 14]
  <2>1. AdaptDataRate(d) = d \/ (d.dataRate > 0 /\ AdaptDataRate(d) = e)
    BY DEF AdaptDataRate
  <2>2. ASSUME d.dataRate > 0 PROVE r \in 0 .. 5
    BY <2>2 DEF WellTuned
  <2>3. e.dataRate = r /\ e.channels = d.channels
    BY DEF Device
  <2> HIDE DEF r, e
  <2> QED
    BY <2>1, <2>2, <2>3 DEF WellTuned
<1> QED
  BY <1>2, <1>3 DEF OpenSecondReceiveWindow, ReceiveAck

LEMMA DoSendWellTuned ==
  ASSUME Typed, WellTuned(device), NEW isNew \in BOOLEAN
  PROVE  WellTuned(DoSend(isNew))
<1>1. device \in Device
  BY DEF Typed
<1>2. SameRadio(device, DoSend(isNew))
  BY <1>1 DEF Device, SameRadio, DoSend
<1> QED
  BY <1>2, SameIsWellTuned

LEMMA TunedInit == Init => WellTuned(device)
<1> SUFFICES ASSUME Init PROVE WellTuned(device)
  OBVIOUS
<1>1. PICK dr \in 0 .. 5 :
        device = [dataRate |-> dr, txPower |-> 14, channels |-> Channels, rx1DrOffset |-> 0,
                  rx2DataRate |-> 0, rx2Frequency |-> "869.525", aggregatedDutyCycle |-> <<1, 0>>,
                  gatewayCount |-> 0, commands |-> <<>>, waitingAck |-> FALSE, retxLeft |-> MaxNumbTx,
                  alive |-> TRUE]
  BY DEF Init
<1>2. device.dataRate = dr /\ device.channels = Channels
  BY <1>1
<1>3. 0 \in DOMAIN Channels /\ \A i \in DOMAIN Channels : Channels[i].lo = 0 /\ Channels[i].hi = 5 /\ Channels[i].on
  BY ChannelsAssumption DEF Channels
<1> QED
  BY <1>2, <1>3 DEF WellTuned

LEMMA TunedStep == ASSUME NoNewChannels PROVE Typed /\ WellTuned(device) /\ [Next]_vars => WellTuned(device')
<1> SUFFICES ASSUME Typed, WellTuned(device), [Next]_vars PROVE WellTuned(device')
  OBVIOUS
<1>0. device \in Device
  BY DEF Typed
<1>1. ASSUME NEW isNew \in BOOLEAN, Transmit(isNew) PROVE WellTuned(device')
  <2> DEFINE sent == AdaptDataRate(DoSend(isNew))
  <2>1. sent \in Device /\ WellTuned(sent)
    BY <1>1, DoSendIsDevice, DoSendWellTuned, AdaptIsDevice, OthersKeepTuned DEF Transmit
  <2>2. device' \in {Throw(device), OpenSecondReceiveWindow(sent), sent}
    BY <1>1 DEF Transmit, sent
  <2> HIDE DEF sent
  <2> QED
    BY <1>0, <2>1, <2>2, OthersKeepTuned
<1>2. CASE GiveUp
  BY <1>0, <1>2, OthersKeepTuned DEF GiveUp
<1>3. CASE AddMacCommand
  BY <1>0, <1>3, AnswerKeepsRadio, SameIsWellTuned DEF AddMacCommand
<1>4. ASSUME NEW window \in 1 .. 2, BeforeSendingReply(window) PROVE WellTuned(device')
  <2>1. \E request : Reply(window, request)
    BY <1>4 DEF BeforeSendingReply
  <2>2. device' \in {ReceiveAck(device), OpenSecondReceiveWindow(device)}
    BY <2>1 DEF Reply
  <2> QED
    BY <1>0, <2>2, OthersKeepTuned
<1>5. CASE InitializeReply
  BY <1>0, <1>5, OthersKeepTuned DEF InitializeReply
<1>6. CASE ParseCommand
  <2>1. device' = device \/ (inbox # <<>> /\ device' = Execute(device, Head(inbox)))
    BY <1>6 DEF ParseCommand
  <2>2. inbox # <<>> => Head(inbox) \in Replies
    BY DEF Typed
  <2> QED
    BY <1>0, <2>1, <2>2, ExecuteWellTuned
<1>7. CASE CalmDown
  BY <1>7 DEF CalmDown
<1>8. CASE UNCHANGED vars
  BY <1>8 DEF vars
<1> QED
  BY <1>1, <1>2, <1>3, <1>4, <1>5, <1>6, <1>7, <1>8 DEF Next

\* As long as nobody sends a NewChannelReq, there is an enabled channel for the data
\* rate of the device, whatever masks and data rates it is asked for.
THEOREM ChannelForEveryRate == ASSUME NoNewChannels PROVE Spec => []AlwaysAChannel
<1>1. Typed /\ WellTuned(device) => AlwaysAChannel
  <2> SUFFICES ASSUME Typed, WellTuned(device)
               PROVE  \E i \in DOMAIN device.channels : device.channels[i].on /\ Admits(device.channels[i], device.dataRate)
    BY DEF AlwaysAChannel
  <2> QED
    BY DEF WellTuned, Admits
<1>2. Typed /\ WellTuned(device) /\ [Next]_vars => WellTuned(device)'
  BY TunedStep
<1> QED
  BY <1>1, <1>2, TypedInit, TypedStep, TunedInit, PTL DEF Spec

-----------------------------------------------------------------------------
(* More about sums *)

\* The sum over a set is that over the set without one of its elements, and that element.
LEMMA SumWithout ==
  ASSUME NEW S, IsFiniteSet(S), NEW w \in [S -> Int], NEW sum, Sums(sum, w, S),
         NEW r \in SUBSET S, NEW x \in r
  PROVE  sum[r] = w[x] + sum[r \ {x}]
<1> DEFINE Good == {n \in Nat : \A s \in SUBSET S : Cardinality(s) <= n =>
                      \A y \in s : sum[s] = w[y] + sum[s \ {y}]}
<1>0. \A s \in SUBSET S : IsFiniteSet(s)
  BY FS_Subset
<1>1. \A s \in SUBSET S : sum[s] = IF s = {} THEN 0 ELSE w[Chosen(s)] + sum[s \ {Chosen(s)}]
  BY Zenon DEF Sums
<1>2. \A s \in SUBSET S : sum[s] \in Int
  <2> SUFFICES ASSUME NEW s \in SUBSET S PROVE sum[s] \in Int
    OBVIOUS
  <2> DEFINE part == [u \in SUBSET s |-> sum[u]]
             v == [y \in s |-> w[y]]
  <2>1. \A u \in SUBSET s : u \in SUBSET S /\ u \ {Chosen(u)} \in SUBSET s /\ (u # {} => Chosen(u) \in s)
    BY DEF Chosen
  <2>2. ASSUME NEW u \in SUBSET s
        PROVE  part[u] = IF u = {} THEN 0 ELSE v[Chosen(u)] + part[u \ {Chosen(u)}]
    BY <1>1, <2>1
  <2>3. v \in [s -> Int] /\ IsFiniteSet(s) /\ Closed(Int)
    BY <1>0 DEF Closed
  <2>4. part[s] = sum[s] /\ part = [u \in SUBSET s |-> part[u]]
    OBVIOUS
  <2> HIDE DEF part, v
  <2>5. Sums(part, v, s)
    BY <2>2, <2>4 DEF Sums
  <2> QED
    BY <2>3, <2>4, <2>5, SumIsANumber
<1>3. 0 \in Good
  <2>1. \A s \in SUBSET S : Cardinality(s) <= 0 => s = {}
    BY <1>0, NoneLeft
  <2> QED
    BY <2>1
<1>4. ASSUME NEW n \in Good
      PROVE  n + 1 \in Good
  <2>1. n \in Nat
    OBVIOUS
  <2>2. ASSUME NEW s \in SUBSET S, Cardinality(s) <= n + 1, NEW y \in s
        PROVE  sum[s] = w[y] + sum[s \ {y}]
    <3> DEFINE c == Chosen(s)
    <3>1. c \in s /\ sum[s] = w[c] + sum[s \ {c}]
      BY <1>1 DEF Chosen
    <3> HIDE DEF c
    <3>2. CASE y = c
      BY <3>1, <3>2
    <3>3. CASE y # c
      <4> DEFINE t == s \ {c}
                 u == s \ {y}
                 rest == t \ {y}
      <4>1. t \in SUBSET S /\ Cardinality(t) <= n /\ u \in SUBSET S /\ Cardinality(u) <= n
        BY <1>0, <2>1, <2>2, <3>1, OneLess
      <4>2. y \in t /\ c \in u /\ rest = u \ {c} /\ rest \in SUBSET S
        BY <3>1, <3>3
      <4> HIDE DEF t, u, rest
      <4>3. sum[t] = w[y] + sum[rest] /\ sum[u] = w[c] + sum[rest]
        BY <4>1, <4>2 DEF rest
      <4>4. w[y] \in Int /\ w[c] \in Int /\ sum[rest] \in Int
        BY <1>2, <3>1, <4>2
      <4>5. sum[s] = w[c] + sum[t]
        BY <3>1 DEF t
      <4>6. sum[s] = w[y] + sum[u]
        BY <4>3, <4>4, <4>5
      <4> QED
        BY <4>6 DEF u
    <3> QED
      BY <3>2, <3>3
  <2> QED
    BY <2>1, <2>2
<1>5. Good = Nat
  <2>1. Good \in SUBSET Nat
    OBVIOUS
  <2> HIDE DEF Good
  <2> QED
    BY <1>3, <1>4, <2>1, EveryNumber
<1>6. Cardinality(r) \in Nat /\ Cardinality(r) <= Cardinality(r)
  BY <1>0, FS_CardinalityType
<1> QED
  BY <1>5, <1>6

\* A sum of numbers none of which is above a bound.
LEMMA SumIsBounded ==
  ASSUME NEW S, IsFiniteSet(S), NEW w \in [S -> Int], NEW sum, Sums(sum, w, S),
         NEW bound \in Int, \A x \in S : w[x] <= bound
  PROVE  sum[S] \in Int /\ sum[S] <= Cardinality(S) * bound
<1> DEFINE Good == {n \in Nat : \A s \in SUBSET S : Cardinality(s) = n =>
                      sum[s] \in Int /\ sum[s] <= n * bound}
<1>0. \A s \in SUBSET S : IsFiniteSet(s)
  BY FS_Subset
<1>1. \A s \in SUBSET S : sum[s] = IF s = {} THEN 0 ELSE w[Chosen(s)] + sum[s \ {Chosen(s)}]
  BY Zenon DEF Sums
<1>2. 0 \in Good
  <2>1. \A s \in SUBSET S : Cardinality(s) = 0 => s = {}
    BY <1>0, FS_EmptySet
  <2>2. 0 * bound = 0
    OBVIOUS
  <2>3. \A s \in SUBSET S : Cardinality(s) = 0 => sum[s] = 0
    BY <1>1, <2>1
  <2> QED
    BY <2>2, <2>3
<1>3. ASSUME NEW n \in Good
      PROVE  n + 1 \in Good
  <2>1. n \in Nat
    OBVIOUS
  <2>2. ASSUME NEW s \in SUBSET S, Cardinality(s) = n + 1
        PROVE  sum[s] \in Int /\ sum[s] <= (n + 1) * bound
    <3> DEFINE c == Chosen(s)
               t == s \ {c}
    <3>1. s # {}
      <4>1. Cardinality({}) = 0
        BY FS_EmptySet
      <4> QED
        BY <2>1, <2>2, <4>1
    <3>2. c \in s
      BY <3>1 DEF Chosen
    <3>3. t \in SUBSET S /\ Cardinality(t) = n
      <4>1. IsFiniteSet(s)
        BY <1>0
      <4>2. Cardinality(t) = Cardinality(s) - 1
        BY <3>2, <4>1, FS_RemoveElement
      <4> QED
        BY <2>1, <2>2, <4>2
    <3>4. sum[s] = w[c] + sum[t] /\ w[c] \in Int /\ w[c] <= bound
      BY <1>1, <3>1, <3>2
    <3> HIDE DEF c, t
    <3>5. sum[t] \in Int /\ sum[t] <= n * bound
      BY <3>3
    <3>6. n * bound \in Int /\ (n + 1) * bound = n * bound + bound
      BY <2>1
    <3> QED
      BY <3>4, <3>5, <3>6
  <2> QED
    BY <2>1, <2>2
<1>4. Good = Nat
  <2>1. Good \in SUBSET Nat
    OBVIOUS
  <2> HIDE DEF Good
  <2> QED
    BY <1>2, <1>3, <2>1, EveryNumber
<1>5. Cardinality(S) \in Nat
  BY FS_CardinalityType
<1> QED
  BY <1>4, <1>5

-----------------------------------------------------------------------------
(* Power and what the gateways hear *)

Powers == {2, 4, 6, 8, 10, 12, 14}

\* No component of the user's own sets the power.
NoPowerRequests == \A c \in Requests : c.cmd # "LinkAdrReq"

\* How the history of receptions is condensed: the default of AdrComponent is the
\* average of four packets.  With the maximum of four, or with the average of eight, a
\* device may be turned down too far on account of packets it sent with more power.
Cautious == HistoryAveraging = "MINIMUM" \/ (HistoryAveraging = "AVERAGE" /\ HistoryRange <= 5)

\* The gateway with the least loss, and by how much more than what data rate 5 needs
\* to be demodulated it receives at full power.
Nearest == CHOOSE b \in Gateways : \A g \in Gateways : Loss[b] <= Loss[g]
Margin == 13853 - Loss[Nearest]

\* The nearest gateway is in range; power is only reduced with the fastest data rate.
Audible(dr, p) ==
  /\ dr \in 0 .. 5 /\ p \in Powers /\ (p < 14 => dr = 5)
  /\ 100 * p - Loss[Nearest] >= -13000 - 250 * (5 - dr)

\* A reduction of power by no more than the margin at full power gives reason to.
Gentle(from, to) == to < from => 150 * (from - to) <= Margin

\* Packets that were sent with these powers, one after the other.
SentWith(gw, p) == \A g \in DOMAIN gw : gw[g] <= 100 * p - Loss[Nearest]
Recorded(h, sent) ==
  /\ sent \in [DOMAIN h -> Powers]
  /\ \A i \in DOMAIN h : SentWith(h[i], sent[i])
  /\ \A i \in DOMAIN h : i + 1 \in DOMAIN h => Gentle(sent[i], sent[i + 1])

LEMMA NearestIsNearest ==
  /\ Nearest \in Gateways /\ Loss[Nearest] \in Nat /\ Margin \in Int
  /\ \A g \in Gateways : Loss[g] \in Nat /\ Loss[Nearest] <= Loss[g]
<1> DEFINE T == {Loss[g] : g \in Gateways}
<1>1. IsFiniteSet(Gateways) /\ Gateways # {} /\ \A g \in Gateways : Loss[g] \in Nat
  BY GatewaysAssumption
<1>2. T \in SUBSET Int /\ T # {} /\ IsFiniteSet(T)
  BY <1>1, ImageIsFinite
<1>3. PICK n \in T : \A m \in T : n <= m
  <2> HIDE DEF T
  <2>1. HasEnds(T)
    BY <1>2, FiniteHasEnds
  <2> QED
    BY <2>1 DEF HasEnds
<1>4. \E b \in Gateways : \A g \in Gateways : Loss[b] <= Loss[g]
  BY <1>3
<1>5. Nearest \in Gateways /\ \A g \in Gateways : Loss[Nearest] <= Loss[g]
  BY <1>4 DEF Nearest
<1> QED
  BY <1>1, <1>5 DEF Margin

\* An audible device is heard, and one that is heard is audible.
LEMMA AudibleIsHeard ==
  ASSUME NEW d \in Device, d.dataRate \in 0 .. 5
  PROVE  /\ Audible(d.dataRate, d.txPower) => Hearing(d) # {}
         /\ d.txPower = 14 /\ Hearing(d) # {} => Audible(d.dataRate, d.txPower)
<1>1. GatewaySensitivity[SfForDataRate[d.dataRate]] = -13000 - 250 * (5 - d.dataRate)
  <2>1. SfForDataRate[d.dataRate] = 12 - d.dataRate /\ 12 - d.dataRate \in 7 .. 12
    BY DEF SfForDataRate
  <2> QED
    BY <2>1 DEF GatewaySensitivity
<1>2. d.txPower \in 0 .. 16
  BY FieldsOfADevice
<1>3. ASSUME Audible(d.dataRate, d.txPower) PROVE Nearest \in Hearing(d)
  BY <1>1, <1>3, NearestIsNearest DEF Audible, Hearing, RxPower
<1>4. ASSUME d.txPower = 14, NEW g \in Hearing(d) PROVE Audible(d.dataRate, d.txPower)
  <2>1. g \in Gateways /\ 1400 - Loss[g] >= -13000 - 250 * (5 - d.dataRate)
    BY <1>1, <1>4 DEF Hearing, RxPower
  <2>2. Loss[g] \in Nat /\ Loss[Nearest] \in Nat /\ Loss[Nearest] <= Loss[g]
    BY <2>1, NearestIsNearest
  <2> QED
    BY <1>4, <2>1, <2>2 DEF Audible, Powers
<1> QED
  BY <1>3, <1>4

\* However the gateways are condensed, the result is not above what the nearest one
\* receives.
LEMMA ReceivedPowerIsBounded ==
  ASSUME NEW gw \in Packets, NEW p \in Powers, SentWith(gw, p)
  PROVE  GetReceivedPower(gw) \in Int /\ GetReceivedPower(gw) <= 100 * p - Loss[Nearest]
<1> DEFINE bound == 100 * p - Loss[Nearest]
<1>0. bound \in Int
  BY NearestIsNearest DEF Powers
<1>1. PICK S \in (SUBSET Gateways) \ {{}} : gw \in [S -> Int]
  BY DEF Packets
<1>2. IsFiniteSet(S) /\ Cardinality(S) \in Nat /\ Cardinality(S) # 0 /\ DOMAIN gw = S /\ S # {}
  <2>1. IsFiniteSet(S)
    BY GatewaysAssumption, FS_Subset
  <2>2. S # {} /\ DOMAIN gw = S
    BY <1>1
  <2> QED
    BY <2>1, <2>2, FS_CardinalityType, FS_EmptySet
<1>3. \A g \in S : gw[g] \in Int /\ gw[g] <= bound
  BY <1>1, <1>2 DEF SentWith
<1> HIDE DEF bound
<1>4. Min({gw[g] : g \in S}) <= bound /\ Max({gw[g] : g \in S}) <= bound
  <2> DEFINE T == {gw[g] : g \in S}
  <2>1. T \in SUBSET Int /\ T # {} /\ IsFiniteSet(T) /\ \A n \in T : n <= bound
    BY <1>1, <1>2, <1>3, ImageIsFinite
  <2> HIDE DEF T
  <2>2. Min(T) \in T /\ Max(T) \in T
    BY <2>1, MinMaxAreInts
  <2>3. Min(T) <= bound /\ Max(T) <= bound
    BY <2>1, <2>2
  <2> QED
    BY <2>3 DEF T
<1>5. GetAverageTxFromGateways(gw) <= bound
  <2> DEFINE val(g) == gw[g]
             sum == MapThenSumSet(val, S)
             rhs(f) == [s \in SUBSET S |-> IF s = {} THEN 0 ELSE val(Chosen(s)) + f[s \ {Chosen(s)}]]
             h == CHOOSE f : Sums(f, gw, S)
             n == Cardinality(S)
  <2>1. sum = (CHOOSE f : f = rhs(f))[S]
    BY Zenon DEF MapThenSumSet, MapThenFoldSet, Chosen
  <2>2. \A f : f = rhs(f) <=> Sums(f, gw, S)
    BY DEF Sums
  <2>3. GetAverageTxFromGateways(gw) = sum \div n
    BY <1>2 DEF GetAverageTxFromGateways
  <2> HIDE DEF rhs, sum
  <2>4. (CHOOSE f : f = rhs(f)) = h
    BY <2>2
  <2>5. Sums(h, gw, S)
    <3>1. \E f : Sums(f, gw, S)
      BY <1>1, <1>2, SumExists
    <3> QED
      BY <3>1
  <2> HIDE DEF h
  <2>6. h[S] \in Int /\ h[S] <= n * bound
    BY <1>0, <1>1, <1>2, <1>3, <2>5, SumIsBounded
  <2>7. sum \in Int /\ sum <= n * bound
    BY <2>1, <2>4, <2>6
  <2> HIDE DEF n
  <2>8. n \in Nat /\ n # 0
    BY <1>2 DEF n
  <2>9. \A q \in Int : n * q <= n * bound => q <= bound
    BY <1>0, <2>8
  <2>10. sum \div n \in Int /\ n * (sum \div n) <= sum
    BY <2>7, <2>8
  <2>11. n * (sum \div n) \in Int /\ n * bound \in Int
    BY <1>0, <2>8, <2>10
  <2>12. n * (sum \div n) <= n * bound
    BY <2>7, <2>10, <2>11
  <2> QED
    BY <2>3, <2>9, <2>10, <2>12
<1>6. TpAveraging \in {"AVERAGE", "MAXIMUM", "MINIMUM"}
  BY AttributesAssumption DEF Methods
<1>7. GetReceivedPower(gw) \in Int
  BY ReceivedPowerIsInt
<1>8. GetReceivedPower(gw) <= bound
  BY <1>2, <1>4, <1>5, <1>6 DEF GetReceivedPower, GetMinTxFromGateways, GetMaxTxFromGateways
<1> QED
  BY <1>7, <1>8 DEF bound

\* What there is room for: with the last packet sent with power p and an SNR of s.
Room(p, s) ==
  /\ s <= Margin - 750
  /\ \A w \in Nat \ {0} : 300 * w <= s + 750 /\ 2 <= p - 2 * w => 200 * w <= 100 * p + Margin - 853

LEMMA LastLeavesRoom ==
  ASSUME NEW p \in Powers, NEW s \in Int, s <= 100 * p + Margin - 2150
  PROVE  Room(p, s)
<1>1. Margin \in Int /\ p \in Int /\ p <= 14
  BY NearestIsNearest DEF Powers
<1>2. s <= Margin - 750
  BY <1>1
<1>3. ASSUME NEW w \in Nat \ {0}, 300 * w <= s + 750 PROVE 200 * w <= 100 * p + Margin - 853
  BY <1>1, <1>3
<1> QED
  BY <1>2, <1>3 DEF Room

\* The average of up to five packets, in the order they were sent: x are the powers of
\* all but the last three.  A margin of 653 is enough for the least power; with a
\* smaller one a step reduces the power by 4 dBm at most, and the packets before the
\* last one keep the average down.  Six packets dilute them too much.
LEMMA AverageLeavesRoom ==
  ASSUME NEW c \in Powers, NEW d \in Powers, NEW e \in Powers, NEW x \in Int,
         Gentle(c, d), Gentle(d, e), NEW s \in Int, NEW n \in 3 .. 5, x <= 14 * (n - 3),
         n * s <= 100 * (x + c + d + e) + n * (Margin - 2150)
  PROVE  Room(e, s)
<1>1. Margin \in Int /\ (d < c => 150 * (c - d) <= Margin) /\ (e < d => 150 * (d - e) <= Margin)
  BY NearestIsNearest DEF Gentle
<1>2. /\ c \in Int /\ d \in Int /\ e \in Int
      /\ 2 <= c /\ c <= 14 /\ 2 <= d /\ d <= 14 /\ 2 <= e /\ e <= 14
  BY DEF Powers
<1> DEFINE m == Margin
<1>3. s <= m - 750 /\ \/ 3 * s <= 100 * (c + d + e) + 3 * (m - 2150)
                      \/ 4 * s <= 100 * (14 + c + d + e) + 4 * (m - 2150)
                      \/ 5 * s <= 100 * (28 + c + d + e) + 5 * (m - 2150)
  BY <1>1, <1>2
<1> HIDE DEF m
<1>4. ASSUME NEW w \in Nat \ {0}, 300 * w <= s + 750, 2 <= e - 2 * w
      PROVE  200 * w <= 100 * e + m - 853
  <2>0. m \in Int
    BY <1>1 DEF m
  <2>1. CASE m >= 653
    BY <1>2, <1>4, <2>0, <2>1
  <2>2. CASE m < 653
    <3>1. /\ (d < c => 150 * (c - d) < 653) /\ (e < d => 150 * (d - e) < 653)
          /\ (m < 600 => (d < c => 150 * (c - d) < 600) /\ (e < d => 150 * (d - e) < 600))
      BY <1>1, <1>2, <2>0, <2>2 DEF m
    <3>2. /\ c <= d + 4 /\ d <= e + 4
          /\ m < 600 => c < d + 4 /\ d < e + 4
      BY <1>2, <2>0, <3>1
    <3> QED
      BY <1>2, <1>3, <1>4, <2>0, <2>2, <3>2 DEF Powers
  <2> QED
    BY <2>0, <2>1, <2>2
<1> QED
  BY <1>3, <1>4 DEF m, Room

LEMMA TwoLeaveRoom ==
  ASSUME NEW d \in Powers, NEW e \in Powers, Gentle(d, e), NEW s \in Int,
         2 * s <= 100 * (d + e) + 2 * (Margin - 2150)
  PROVE  Room(e, s)
<1>1. Margin \in Int /\ (e < d => 150 * (d - e) <= Margin)
  BY NearestIsNearest DEF Gentle
<1>2. d \in Int /\ e \in Int /\ 2 <= d /\ d <= 14 /\ 2 <= e /\ e <= 14
  BY DEF Powers
<1>3. s <= Margin - 750
  BY <1>1, <1>2
<1>4. ASSUME NEW w \in Nat \ {0}, 300 * w <= s + 750, 2 <= e - 2 * w
      PROVE  200 * w <= 100 * e + Margin - 853
  BY <1>1, <1>2, <1>4
<1> QED
  BY <1>3, <1>4 DEF Room

\* The sum of the first n numbers.
LEMMA SumOfFirst ==
  ASSUME NEW n \in Nat, NEW w \in [1 .. n -> Int], NEW f, Sums(f, w, 1 .. n)
  PROVE  f[{}] = 0 /\ \A k \in 1 .. n : f[1 .. k] = w[k] + f[1 .. (k - 1)]
<1>1. IsFiniteSet(1 .. n)
  BY FS_Interval
<1>2. f[{}] = 0
  <2>1. {} \in SUBSET (1 .. n)
    OBVIOUS
  <2> QED
    BY <2>1, Zenon DEF Sums
<1>3. ASSUME NEW k \in 1 .. n PROVE f[1 .. k] = w[k] + f[1 .. (k - 1)]
  <2> DEFINE S == 1 .. n
             r == 1 .. k
  <2>1. r \in SUBSET S /\ k \in r /\ r \ {k} = 1 .. (k - 1)
    OBVIOUS
  <2>2. IsFiniteSet(S) /\ w \in [S -> Int] /\ Sums(f, w, S)
    BY <1>1
  <2> HIDE DEF S, r
  <2>3. f[r] = w[k] + f[r \ {k}]
    BY ONLY <2>1, <2>2, SumWithout
  <2> QED
    BY <2>1, <2>3 DEF r
<1> QED
  BY <1>2, <1>3

LEMMA HistoryLeavesRoom ==
  ASSUME Cautious, NEW h \in Seq(Packets), Len(h) = HistoryRange, NEW sent, Recorded(h, sent)
  PROVE  SNR(h) \in Int /\ Room(sent[Len(h)], SNR(h))
<1> DEFINE N == Len(h)
           S == DOMAIN h
           snr(i) == RxPowerToSNR(GetReceivedPower(h[i]))
           w == [i \in S |-> snr(i)]
<1>1. /\ S = 1 .. N /\ N \in Nat \ {0} /\ N = HistoryRange /\ N \in S /\ h # <<>>
      /\ \A i \in S : h[i] \in Packets /\ i \in Nat
  BY AttributesAssumption
<1>2. \A i \in S : snr(i) \in Int /\ snr(i) <= 100 * sent[i] + Margin - 2150 /\ sent[i] \in Powers
  <2> SUFFICES ASSUME NEW i \in S
               PROVE  snr(i) \in Int /\ snr(i) <= 100 * sent[i] + Margin - 2150 /\ sent[i] \in Powers
    OBVIOUS
  <2>1. sent[i] \in Powers /\ SentWith(h[i], sent[i]) /\ h[i] \in Packets
    BY <1>1 DEF Recorded
  <2>2. GetReceivedPower(h[i]) \in Int /\ GetReceivedPower(h[i]) <= 100 * sent[i] - Loss[Nearest]
    BY <2>1, ReceivedPowerIsBounded
  <2> QED
    <3>1. snr(i) = GetReceivedPower(h[i]) + 11703 /\ Margin = 13853 - Loss[Nearest] /\ Loss[Nearest] \in Nat
      BY NearestIsNearest DEF RxPowerToSNR, Margin
    <3>2. sent[i] \in Int
      BY <2>1 DEF Powers
    <3>3. snr(i) \in Int /\ snr(i) <= 100 * sent[i] + Margin - 2150
      <4> DEFINE x == GetReceivedPower(h[i])
                 p == sent[i]
                 l == Loss[Nearest]
      <4>1. x \in Int /\ p \in Int /\ l \in Nat /\ x <= 100 * p - l /\ snr(i) = x + 11703 /\ Margin = 13853 - l
        BY <2>2, <3>1, <3>2
      <4> HIDE DEF x, p, l, snr
      <4>2. snr(i) \in Int /\ snr(i) <= 100 * p + Margin - 2150
        BY <4>1
      <4> QED
        BY <4>2 DEF p
    <3> QED
      BY <2>1, <3>3
<1>3. SNR(h) \in Int
  BY <1>1, SNRIsInt
<1>4. IsFiniteSet(S) /\ S # {}
  <2>1. S = 1 .. N /\ 1 \in Int /\ N \in Int /\ N \in S
    BY <1>1
  <2>2. IsFiniteSet(1 .. N)
    BY <2>1, FS_Interval
  <2> HIDE DEF S, N
  <2> QED
    BY <2>1, <2>2
<1> HIDE DEF N, S
<1>5. CASE HistoryAveraging = "MINIMUM"
  <2> DEFINE T == {snr(i) : i \in S}
  <2>1. SNRs(h) = T
    BY DEF SNRs, S
  <2> HIDE DEF snr
  <2>2. T \in SUBSET Int /\ T # {} /\ IsFiniteSet(T)
    <3>1. T = {w[i] : i \in S}
      OBVIOUS
    <3> HIDE DEF w
    <3>2. IsFiniteSet(T)
      BY <1>4, <3>1, ImageIsFinite
    <3> QED
      BY <1>2, <1>4, <3>2
  <2>3. snr(N) \in T
    BY <1>1
  <2>4. snr(N) \in Int /\ snr(N) <= 100 * sent[N] + Margin - 2150 /\ sent[N] \in Powers
    BY <1>1, <1>2
  <2> HIDE DEF T
  <2>5. HasEnds(T)
    BY <2>2, FiniteHasEnds
  <2>6. Min(T) \in Int /\ Min(T) <= snr(N)
    BY <2>2, <2>3, <2>5, MinMaxAreInts DEF HasEnds, Min
  <2>7. SNR(h) = Min(T)
    BY <1>5, <2>1 DEF SNR, GetMinSNR
  <2>8. Min(T) <= 100 * sent[N] + Margin - 2150
    <3> DEFINE x == 100 * sent[N] + Margin - 2150
    <3>1. x \in Int
      <4>1. Margin \in Int
        BY NearestIsNearest
      <4>2. sent[N] \in Int
        BY ONLY <2>4 DEF Powers
      <4> QED
        BY ONLY <4>1, <4>2
    <3>2. snr(N) <= x
      BY <2>4
    <3> DEFINE y == snr(N)
    <3>3. y \in Int /\ Min(T) \in Int /\ Min(T) <= y
      BY <2>4, <2>6
    <3> HIDE DEF x, y
    <3>4. y <= x
      BY <3>2 DEF y
    <3>5. Min(T) <= x
      BY ONLY <3>1, <3>3, <3>4
    <3> QED
      BY <3>5 DEF x
  <2> QED
    BY <1>3, <2>4, <2>7, <2>8, LastLeavesRoom DEF N
<1>6. CASE HistoryAveraging = "AVERAGE" /\ HistoryRange <= 5
  <2> DEFINE sum == MapThenSumSet(snr, S)
             rhs(f) == [s \in SUBSET S |-> IF s = {} THEN 0 ELSE snr(Chosen(s)) + f[s \ {Chosen(s)}]]
             f == CHOOSE g : Sums(g, w, S)
  <2>1. sum = (CHOOSE g : g = rhs(g))[S]
    BY Zenon DEF MapThenSumSet, MapThenFoldSet, Chosen
  <2>2. SNR(h) = sum \div N
    <3>1. GetAverageSNR(h) = sum \div HistoryRange
      BY Zenon DEF GetAverageSNR, S
    <3>2. SNR(h) = GetAverageSNR(h)
      BY <1>6 DEF SNR
    <3> QED
      BY <1>1, <3>1, <3>2
  <2> HIDE DEF snr
  <2>3. w \in [S -> Int] /\ \A i \in S : w[i] = snr(i)
    BY <1>2
  <2>4. ASSUME NEW s \in SUBSET S, s # {} PROVE Chosen(s) \in S
    BY <2>4 DEF Chosen
  <2>5. \A g : g = rhs(g) <=> Sums(g, w, S)
    BY <2>3, <2>4 DEF Sums
  <2> HIDE DEF rhs, sum, w
  <2>6. (CHOOSE g : g = rhs(g)) = f
    BY <2>5
  <2>7. Sums(f, w, S)
    BY <1>4, <2>3, SumExists
  <2> HIDE DEF f
  <2>8. f[S] = sum /\ Sums(f, w, 1 .. N) /\ w \in [1 .. N -> Int]
    BY <1>1, <2>1, <2>3, <2>6, <2>7
  <2>9. f[1 .. 0] = 0 /\ \A k \in 1 .. N : f[1 .. k] = w[k] + f[1 .. (k - 1)]
    <3>1. 1 .. 0 = {}
      OBVIOUS
    <3>2. N \in Nat
      BY <1>1
    <3>3. f[{}] = 0 /\ \A k \in 1 .. N : f[1 .. k] = w[k] + f[1 .. (k - 1)]
      BY ONLY <2>8, <3>2, SumOfFirst
    <3> QED
      BY <3>1, <3>3
  <2> DEFINE first(k) == f[1 .. k]
  <2>10. first(0) = 0 /\ first(N) = sum /\ \A k \in 1 .. N : first(k) = w[k] + first(k - 1)
    BY <1>1, <2>8, <2>9
  <2> HIDE DEF first
  <2>11. \A k \in 1 .. N : w[k] \in Int /\ w[k] <= 100 * sent[k] + Margin - 2150 /\ sent[k] \in Powers
    BY <1>1, <1>2, <2>3
  <2>12. \A k \in 1 .. N : k + 1 \in 1 .. N => Gentle(sent[k], sent[k + 1])
    BY <1>1 DEF Recorded, S
  <2>13. N \in 1 .. 5 /\ Margin \in Int
    BY <1>1, <1>6, NearestIsNearest
  <2>14. sum \in Int => N * SNR(h) <= sum
    BY <1>1, <2>2
  <2>15. CASE N = 1
    <3>1. sum = w[1] /\ w[1] \in Int /\ w[1] <= 100 * sent[1] + Margin - 2150 /\ sent[1] \in Powers
      <4>1. 1 \in 1 .. N
        BY <2>15
      <4> QED
        BY <2>10, <2>11, <2>15, <4>1
    <3>2. SNR(h) <= 100 * sent[N] + Margin - 2150
      BY <1>3, <2>13, <2>14, <2>15, <3>1 DEF Powers
    <3> QED
      BY <1>3, <2>15, <3>1, <3>2, LastLeavesRoom DEF N
  <2>16. CASE N = 2
    <3>1. /\ sum = w[1] + w[2] /\ Gentle(sent[1], sent[2])
          /\ w[1] \in Int /\ w[1] <= 100 * sent[1] + Margin - 2150 /\ sent[1] \in Powers
          /\ w[2] \in Int /\ w[2] <= 100 * sent[2] + Margin - 2150 /\ sent[2] \in Powers
      <4>1. 1 \in 1 .. N /\ 2 \in 1 .. N
        BY <2>16
      <4>2. first(1) = w[1] + 0 /\ first(2) = w[2] + first(1)
        BY <2>10, <4>1
      <4> QED
        BY <2>10, <2>11, <2>12, <2>16, <4>1, <4>2
    <3>2. 2 * SNR(h) <= 100 * (sent[1] + sent[2]) + 2 * (Margin - 2150)
      <4> DEFINE x == w[1]
                 y == w[2]
                 p == sent[1]
                 q == sent[2]
      <4>1. /\ sum = x + y /\ x \in Int /\ y \in Int /\ p \in Int /\ q \in Int
            /\ x <= 100 * p + Margin - 2150 /\ y <= 100 * q + Margin - 2150
        BY <3>1 DEF Powers
      <4> HIDE DEF x, y, p, q
      <4>2. 2 * SNR(h) <= 100 * (p + q) + 2 * (Margin - 2150)
        BY <1>3, <2>13, <2>14, <2>16, <4>1
      <4> QED
        BY <4>2 DEF p, q
    <3> QED
      BY <1>3, <2>16, <3>1, <3>2, TwoLeaveRoom DEF N
  <2>17. CASE N >= 3
    <3> DEFINE c == sent[N - 2]
               d == sent[N - 1]
               e == sent[N]
               m == Margin - 2150
    <3>1. N \in 1 .. N /\ N - 1 \in 1 .. N /\ N - 2 \in 1 .. N /\ N - 1 = N - 2 + 1 /\ N = N - 1 + 1 /\ N \in 3 .. 5
      BY <2>13, <2>17
    <3>2. c \in Powers /\ d \in Powers /\ e \in Powers /\ Gentle(c, d) /\ Gentle(d, e)
      BY <2>11, <2>12, <3>1
    <3> HIDE DEF c, d, e
    <3>3. m \in Int /\ c \in Int /\ d \in Int /\ e \in Int
      BY <2>13, <3>2 DEF Powers
    <3>4. /\ first(N) = w[N] + first(N - 1) /\ first(N - 1) = w[N - 1] + first(N - 2)
          /\ first(N - 2) = w[N - 2] + first(N - 3)
      <4>1. first(N) = w[N] + first(N - 1)
        BY <2>10, <3>1
      <4>2. first(N - 1) = w[N - 1] + first(N - 1 - 1) /\ N - 1 - 1 = N - 2
        BY <2>10, <3>1
      <4>3. first(N - 2) = w[N - 2] + first(N - 2 - 1) /\ N - 2 - 1 = N - 3
        BY <2>10, <3>1
      <4> QED
        BY <4>1, <4>2, <4>3
    <3>5. /\ w[N] \in Int /\ w[N] <= 100 * e + m /\ w[N - 1] \in Int /\ w[N - 1] <= 100 * d + m
          /\ w[N - 2] \in Int /\ w[N - 2] <= 100 * c + m
      <4>1. \A k \in 1 .. N : w[k] \in Int /\ w[k] <= 100 * sent[k] + m
        BY <2>11, <2>13 DEF Powers
      <4> HIDE DEF m
      <4> QED
        BY <3>1, <4>1 DEF c, d, e
    <3> HIDE DEF m
    <3>6. first(N - 3) \in Int /\ first(N - 3) <= (N - 3) * (1400 + m)
      <4>1. first(0) = 0 /\ 0 * (1400 + m) = 0
        BY <2>10, <3>3
      <4>2. ASSUME NEW k \in 1 .. 2, k <= N - 3
            PROVE  first(k) = w[k] + first(k - 1) /\ w[k] \in Int /\ w[k] <= 1400 + m
        <5>1. k \in 1 .. N
          BY <3>1, <4>2
        <5>2. w[k] \in Int /\ w[k] <= 100 * sent[k] + m /\ sent[k] \in Powers
          BY <2>11, <2>13, <5>1 DEF m, Powers
        <5> QED
          BY <2>10, <3>3, <5>1, <5>2 DEF Powers
      <4>3. CASE N = 3
        BY <3>3, <4>1, <4>3
      <4>4. CASE N = 4
        <5>1. first(1) = w[1] + first(0) /\ w[1] \in Int /\ w[1] <= 1400 + m
          BY <4>2, <4>4
        <5> QED
          BY <3>3, <4>1, <4>4, <5>1
      <4>5. CASE N = 5
        <5>1. first(1) = w[1] + first(0) /\ w[1] \in Int /\ w[1] <= 1400 + m
          BY <4>2, <4>5
        <5>2. first(2) = w[2] + first(1) /\ w[2] \in Int /\ w[2] <= 1400 + m
          BY <4>2, <4>5
        <5> QED
          BY <3>3, <4>1, <4>5, <5>1, <5>2
      <4> QED
        BY <3>1, <4>3, <4>4, <4>5
    <3>7. N * SNR(h) <= 100 * (14 * (N - 3) + c + d + e) + N * m
      <4>1. sum \in Int /\ sum <= (N - 3) * (1400 + m) + 100 * (c + d + e) + 3 * m
        <5> DEFINE x == first(N - 3)
                   y == (N - 3) * (1400 + m)
                   wc == w[N - 2]
                   wd == w[N - 1]
                   we == w[N]
        <5>1. sum = we + (wd + (wc + x))
          BY <2>10, <3>4
        <5>2. x \in Int /\ x <= y
          BY <3>6
        <5>3. y \in Int
          BY <3>1, <3>3
        <5>4. /\ we \in Int /\ we <= 100 * e + m /\ wd \in Int /\ wd <= 100 * d + m
              /\ wc \in Int /\ wc <= 100 * c + m
          BY <3>5
        <5> HIDE DEF x, y, wc, wd, we
        <5>5. sum \in Int /\ sum <= y + 100 * (c + d + e) + 3 * m
          BY ONLY <3>3, <5>1, <5>2, <5>3, <5>4
        <5> QED
          BY <5>5 DEF y
      <4>2. (N - 3) * (1400 + m) + 100 * (c + d + e) + 3 * m = 100 * (14 * (N - 3) + c + d + e) + N * m
        BY <3>1, <3>3
      <4>3. N * SNR(h) \in Int /\ N * SNR(h) <= sum
        BY <1>3, <2>14, <3>1, <4>1
      <4> QED
        BY <3>1, <3>3, <4>1, <4>2, <4>3
    <3>8. Room(e, SNR(h))
      <4>1. 14 * (N - 3) \in Int /\ 14 * (N - 3) <= 14 * (N - 3)
        BY <3>1
      <4> QED
        BY <1>3, <3>1, <3>2, <3>7, <4>1, AverageLeavesRoom DEF m
    <3> QED
      BY <1>3, <3>8 DEF e, N
  <2> QED
    BY <2>13, <2>15, <2>16, <2>17
<1> QED
  BY <1>5, <1>6 DEF Cautious

\* What AdrComponent asks for keeps the device in range, and is only gently less.
LEMMA AdrKeepsAudible ==
  ASSUME NEW dr, NEW p, Audible(dr, p), NEW h \in Seq(Packets), h # <<>>, SNR(h) \in Int, Room(p, SNR(h))
  PROVE  LET adr == AdrImplementation(SfForDataRate[dr], p, h)
         IN  \A q \in {p, adr.txPower} : Audible(adr.dataRate, q) /\ Gentle(p, q)
<1> DEFINE s == SNR(h)
           sf == SfForDataRate[dr]
           steps == (s - Treshold[SfToDr(sf)]) \div 300
           faster == IF steps > 0 THEN AtMost(steps, sf - 7) ELSE 0
           weaker == IF steps > faster /\ p > 2 THEN AtMost(steps - faster, (p - 1) \div 2) ELSE 0
           stronger == IF steps < 0 /\ p < 14 THEN AtMost(-steps, (15 - p) \div 2) ELSE 0
           r == SfToDr(sf - faster)
           q == p - 2 * weaker + 2 * stronger
           m == Margin
<1>1. AdrImplementation(sf, p, h) = [dataRate |-> r, txPower |-> q]
  BY DEF AdrImplementation
<1>2. /\ dr \in 0 .. 5 /\ p \in Powers /\ (p < 14 => dr = 5) /\ p \in Int /\ 2 <= p /\ p <= 14
      /\ 100 * p + m - 13853 >= -13000 - 250 * (5 - dr) /\ m \in Int /\ Loss[Nearest] = 13853 - m
  BY NearestIsNearest DEF Audible, Margin, Powers
<1>3. sf = 12 - dr /\ SfToDr(sf) = dr /\ Treshold[SfToDr(sf)] = -2000 + 250 * dr
  <2>1. dr \in 0 .. 5
    BY ONLY <1>2
  <2>2. \A e \in 0 .. 5 : SfForDataRate[e] = 12 - e
    BY DEF SfForDataRate
  <2>3. \A e \in 0 .. 5 : SfToDr(12 - e) = e
    BY DEF SfToDr
  <2>4. \A e \in 0 .. 5 : Treshold[e] = -2000 + 250 * e
    BY DEF Treshold
  <2> HIDE DEF sf
  <2>5. sf = SfForDataRate[dr]
    BY DEF sf
  <2>6. sf = 12 - dr
    BY ONLY <2>1, <2>2, <2>5
  <2>7. SfToDr(sf) = dr
    BY ONLY <2>1, <2>3, <2>6
  <2> QED
    BY ONLY <2>1, <2>4, <2>6, <2>7
<1>4. /\ s \in Int /\ s <= m - 750
      /\ \A w \in Nat \ {0} : 300 * w <= s + 750 /\ 2 <= p - 2 * w => 200 * w <= 100 * p + m - 853
  BY DEF Room
<1> HIDE DEF s, m
<1>5. steps \in Int /\ 300 * steps <= s + 2000 - 250 * dr
  BY <1>2, <1>3, <1>4
<1> HIDE DEF steps
<1>6. /\ faster \in 0 .. (5 - dr) /\ (steps > 0 => faster <= steps) /\ (steps > faster => faster = 5 - dr)
      /\ (steps <= 0 => faster = 0) /\ r = dr + faster /\ r \in 0 .. 5
  <2>1. /\ faster \in 0 .. (5 - dr) /\ (steps > 0 => faster <= steps) /\ (steps > faster => faster = 5 - dr)
        /\ (steps <= 0 => faster = 0)
    BY <1>2, <1>3, <1>5 DEF AtMost
  <2> HIDE DEF faster
  <2>2. r = dr + faster /\ r \in 0 .. 5
    BY <1>2, <1>3, <2>1 DEF SfToDr
  <2> QED
    BY <2>1, <2>2
<1> HIDE DEF r, faster, sf
<1>7. /\ weaker \in Nat /\ (weaker > 0 => weaker <= steps - faster /\ 2 <= p - 2 * weaker)
      /\ stronger \in Nat /\ (stronger > 0 => steps < 0 /\ p + 2 * stronger <= 14)
  <2>1. weaker \in Nat /\ (weaker > 0 => weaker <= steps - faster /\ weaker <= (p - 1) \div 2)
    <3>1. (p - 1) \div 2 \in Int /\ (p > 2 => (p - 1) \div 2 >= 1)
      BY <1>2
    <3> DEFINE a == (p - 1) \div 2
    <3> HIDE DEF a
    <3>2. weaker = IF steps > faster /\ p > 2 THEN AtMost(steps - faster, a) ELSE 0
      BY DEF a
    <3>3. a \in Int /\ (p > 2 => a >= 1)
      BY <3>1 DEF a
    <3>4. weaker \in Nat /\ (weaker > 0 => weaker <= steps - faster /\ weaker <= a)
      BY <1>2, <1>5, <1>6, <3>2, <3>3 DEF AtMost
    <3> QED
      BY <3>4 DEF a
  <2>2. stronger \in Nat /\ (stronger > 0 => steps < 0 /\ stronger <= (15 - p) \div 2)
    <3> DEFINE a == (15 - p) \div 2
    <3>1. a \in Int /\ (p < 14 => a >= 1)
      BY <1>2
    <3> HIDE DEF a
    <3>2. stronger = IF steps < 0 /\ p < 14 THEN AtMost(-steps, a) ELSE 0
      BY DEF a
    <3>4. stronger \in Nat /\ (stronger > 0 => steps < 0 /\ stronger <= a)
      BY <1>2, <1>5, <3>1, <3>2 DEF AtMost
    <3> QED
      BY <3>4 DEF a
  <2>3. 2 * ((p - 1) \div 2) <= p - 1 /\ 2 * ((15 - p) \div 2) <= 15 - p /\ p % 2 = 0
        /\ (p - 1) \div 2 \in Int /\ (15 - p) \div 2 \in Int
    BY <1>2 DEF Powers
  <2> HIDE DEF weaker, stronger
  <2>4. weaker > 0 => 2 * weaker <= p - 1
    BY <1>2, <2>1, <2>3
  <2>5. stronger > 0 => 2 * stronger <= 15 - p
    BY <1>2, <2>2, <2>3
  <2>6. p \in {2, 4, 6, 8, 10, 12, 14}
    BY <1>2 DEF Powers
  <2> QED
    BY <2>1, <2>2, <2>4, <2>5, <2>6
<1> HIDE DEF weaker, stronger
<1>8. q \in Powers
  <2>1. q \in Int /\ 2 <= q /\ q <= 14
    BY <1>2, <1>5, <1>6, <1>7
  <2>2. \E k \in Int : q = 2 * k
    <3>1. \E j \in Int : p = 2 * j
      <4>1. p \div 2 \in Int /\ p = 2 * (p \div 2)
        BY <1>2 DEF Powers
      <4> QED
        BY <4>1
    <3>2. PICK j \in Int : p = 2 * j
      BY <3>1
    <3>3. j - weaker + stronger \in Int /\ q = 2 * (j - weaker + stronger)
      BY <1>7, <3>2
    <3> QED
      BY <3>3
  <2> HIDE DEF q
  <2> QED
    BY <2>1, <2>2 DEF Powers
<1>9. \A x \in {p, q} : x < 14 => r = 5
  <2>1. p < 14 => r = 5
    BY <1>2, <1>6
  <2>2. q < 14 => r = 5
    <3>1. CASE weaker > 0
      BY <1>2, <1>5, <1>6, <1>7, <3>1
    <3>2. CASE weaker = 0
      BY <1>2, <1>7, <2>1, <3>2
    <3> QED
      BY <1>7, <3>1, <3>2
  <2> QED
    BY <2>1, <2>2
<1>10. \A x \in {p, q} : 100 * x + m - 13853 >= -13000 - 250 * (5 - r) /\ (x < p => 150 * (p - x) <= m)
  <2>1. 100 * p + m - 13853 >= -13000 - 250 * (5 - r)
    <3>1. CASE faster = 0
      BY <1>2, <1>6, <3>1
    <3>2. CASE faster > 0
      <4>1. p = 14 /\ faster <= steps
        BY <1>2, <1>5, <1>6, <3>2 DEF Powers
      <4> QED
        BY <1>2, <1>4, <1>5, <1>6, <4>1
    <3> QED
      BY <1>6, <3>1, <3>2
  <2>2. CASE weaker = 0
    BY <1>2, <1>6, <1>7, <2>1, <2>2
  <2>3. CASE weaker > 0
    <3>1. stronger = 0 /\ r = 5 /\ faster = 5 - dr /\ q = p - 2 * weaker
      BY <1>2, <1>5, <1>6, <1>7, <2>3
    <3>2. 300 * weaker <= s + 750
      BY <1>2, <1>4, <1>5, <1>6, <1>7, <2>3, <3>1
    <3>3. 200 * weaker <= 100 * p + m - 853
      <4>1. weaker \in Nat \ {0} /\ 2 <= p - 2 * weaker
        BY <1>7, <2>3
      <4> QED
        BY <1>4, <3>2, <4>1
    <3> QED
      BY <1>2, <1>4, <1>7, <2>1, <3>1, <3>2, <3>3
  <2> QED
    BY <1>7, <2>2, <2>3
<1> HIDE DEF q
<1>11. \A x \in {p, q} : Audible(r, x) /\ Gentle(p, x)
  <2> SUFFICES ASSUME NEW x \in {p, q} PROVE Audible(r, x) /\ Gentle(p, x)
    OBVIOUS
  <2>1. x \in Powers /\ x \in Int /\ (x < 14 => r = 5)
    BY <1>2, <1>8, <1>9 DEF Powers
  <2>2. Gentle(p, x)
    BY <1>10 DEF Gentle, m
  <2>3. 100 * x - Loss[Nearest] >= -13000 - 250 * (5 - r)
    BY <1>2, <1>6, <1>10, <2>1
  <2> QED
    BY <1>6, <2>1, <2>2, <2>3 DEF Audible
<1>12. sf = SfForDataRate[dr]
  BY DEF sf
<1> QED
  BY <1>1, <1>11, <1>12

-----------------------------------------------------------------------------
(* The invariant *)

\* A command that sets the power, after a packet that was sent with the power last.
AskedFor(c, last) ==
  c.cmd = "LinkAdrReq" =>
    Audible(c.dataRate, GetDbmForTxPower(c.txPower)) /\ Gentle(last, GetDbmForTxPower(c.txPower))

\* A device d in range, whose packets in h were sent with powers that were only gently
\* reduced, as is its own since; the commands of box will keep it so.
InRange(d, h, ph, box) ==
  /\ Audible(d.dataRate, d.txPower)
  /\ \E sent :
       /\ Recorded(h, sent)
       /\ h # <<>> => Gentle(sent[Len(h)], d.txPower)
       /\ ph = "window" => d.txPower = sent[Len(h)]
       /\ ph = "parsing" => h # <<>> /\ \A i \in DOMAIN box : AskedFor(box[i], sent[Len(h)])

SamePower(d, e) == e.dataRate = d.dataRate /\ e.txPower = d.txPower

LEMMA SameIsInRange ==
  ASSUME NEW d, NEW e, NEW h, NEW ph, NEW box, InRange(d, h, ph, box), SamePower(d, e)
  PROVE  InRange(e, h, ph, box) /\ InRange(e, h, "idle", box)
  BY DEF InRange, SamePower

LEMMA OthersKeepPower ==
  ASSUME NEW d \in Device
  PROVE  /\ SamePower(d, Throw(d)) /\ SamePower(d, OpenSecondReceiveWindow(d)) /\ SamePower(d, ReceiveAck(d))
         /\ SamePower(d, resetRetransmissionParameters(d)) /\ \A c : SamePower(d, Answer(d, c))
<1>1. SamePower(d, Throw(d))
  BY DEF Device, SamePower, Throw
<1>2. SamePower(d, resetRetransmissionParameters(d))
  BY DEF Device, SamePower, resetRetransmissionParameters
<1>3. \A c : SamePower(d, Answer(d, c))
  BY DEF Device, SamePower, Answer
<1>4. SamePower(d, d)
  BY DEF SamePower
<1> QED
  BY <1>1, <1>2, <1>3, <1>4 DEF OpenSecondReceiveWindow, ReceiveAck

LEMMA DoSendKeepsPower ==
  ASSUME device \in Device, NEW isNew \in BOOLEAN
  PROVE  SamePower(device, DoSend(isNew))
  BY DEF Device, SamePower, DoSend

\* Only LinkAdrReq sets data rate and power.
LEMMA ExecuteKeepsPower ==
  ASSUME NEW d \in Device, NEW c \in Replies
  PROVE  \/ SamePower(d, Execute(d, c))
         \/ /\ c.cmd = "LinkAdrReq" /\ Execute(d, c).dataRate = c.dataRate
            /\ Execute(d, c).txPower = GetDbmForTxPower(c.txPower)
<1>1. SamePower(d, OnLinkCheckAns(d, c)) /\ SamePower(d, d)
  BY DEF Device, SamePower, OnLinkCheckAns
<1>2. ASSUME c.cmd = "LinkAdrReq"
      PROVE  LET e == OnLinkAdrReq(d, c)
             IN  SamePower(d, e) \/ (e.dataRate = c.dataRate /\ e.txPower = GetDbmForTxPower(c.txPower))
  <2>1. c \in LinkAdrReq
    BY <1>2, ByItsName
  <2>2. ASSUME NEW a \in Answers, OnLinkAdrReq(d, c) = Adapted(Answer(d, a), c)
        PROVE  OnLinkAdrReq(d, c).dataRate = c.dataRate /\ OnLinkAdrReq(d, c).txPower = GetDbmForTxPower(c.txPower)
    <3>1. Answer(d, a) \in Device
      BY AnswerIsDevice
    <3>2. \A e \in Device : Adapted(e, c).dataRate = c.dataRate /\ Adapted(e, c).txPower = GetDbmForTxPower(c.txPower)
      BY DEF Adapted, Device
    <3> QED
      BY <2>2, <3>1, <3>2
  <2>3. CASE OnLinkAdrReq(d, c) = Throw(d) \/ \E a \in Answers : OnLinkAdrReq(d, c) = Answer(d, a)
    BY <2>3, OthersKeepPower
  <2> QED
    BY <2>1, <2>2, <2>3, LinkAdrOutcome
<1>3. SamePower(d, OnDutyCycleReq(d, c))
  <2> DEFINE e == [d EXCEPT !.aggregatedDutyCycle = GetMaximumAllowedDutyCycle(c)]
  <2>1. OnDutyCycleReq(d, c) = Throw(d) \/ OnDutyCycleReq(d, c) = Answer(e, DutyCycleAns)
    BY DEF OnDutyCycleReq
  <2>2. SamePower(d, Answer(e, DutyCycleAns))
    BY DEF Device, SamePower, Answer
  <2> QED
    BY <2>1, <2>2, OthersKeepPower
<1>4. SamePower(d, OnRxClassParamSetupReq(d, c))
  <2> DEFINE e == [d EXCEPT !.rx2DataRate = c.rx2DataRate, !.rx1DrOffset = c.rx1DrOffset, !.rx2Frequency = "Hz"]
  <2>1. \A a : SamePower(d, Answer(e, a))
    BY DEF Device, SamePower, Answer
  <2> HIDE DEF e
  <2>2. \E a : OnRxClassParamSetupReq(d, c) = Answer(e, a)
    BY DEF OnRxClassParamSetupReq, e
  <2> QED
    BY <2>1, <2>2
<1>5. SamePower(d, OnDevStatusReq(d))
  BY OthersKeepPower DEF OnDevStatusReq
<1>6. SamePower(d, OnNewChannelReq(d, c))
  <2> DEFINE h == [d.channels EXCEPT ![c.chIndex] = [lo |-> c.minDataRate, hi |-> c.maxDataRate, on |-> TRUE, known |-> FALSE]]
             e == [d EXCEPT !.channels = h]
  <2>1. \A a : SamePower(d, Answer(e, a))
    BY DEF Device, SamePower, Answer
  <2>2. e = [d EXCEPT !.channels[c.chIndex] = [lo |-> c.minDataRate, hi |-> c.maxDataRate, on |-> TRUE, known |-> FALSE]]
    OBVIOUS
  <2> HIDE DEF e, h
  <2>3. OnNewChannelReq(d, c) = Throw(d) \/ \E a : OnNewChannelReq(d, c) = Answer(e, a)
    BY <2>2 DEF OnNewChannelReq
  <2> QED
    BY <2>1, <2>3, OthersKeepPower
<1>7. \/ Execute(d, c) = d
      \/ Execute(d, c) = OnDevStatusReq(d)
      \/ Execute(d, c) = OnLinkCheckAns(d, c)
      \/ c.cmd = "LinkAdrReq" /\ Execute(d, c) = OnLinkAdrReq(d, c)
      \/ Execute(d, c) = OnDutyCycleReq(d, c)
      \/ Execute(d, c) = OnRxClassParamSetupReq(d, c)
      \/ Execute(d, c) = OnNewChannelReq(d, c)
  BY DEF Execute
<1> QED
  BY <1>1, <1>2, <1>3, <1>4, <1>5, <1>6, <1>7

\* Sending again, at a lower data rate and with full power, keeps the device in range.
LEMMA AdaptKeepsInRange ==
  ASSUME NEW d \in Device, NEW h \in Seq(Packets), InRange(d, h, "idle", <<>>)
  PROVE  InRange(AdaptDataRate(d), h, "idle", <<>>)
<1> DEFINE r == d.dataRate - 1
           e == [d EXCEPT !.dataRate = r, !.txPower = 14]
<1>1. AdaptDataRate(d) = d \/ (d.dataRate > 0 /\ AdaptDataRate(d) = e)
  BY DEF AdaptDataRate
<1>2. e.dataRate = r /\ e.txPower = 14
  BY DEF Device
<1>3. Audible(d.dataRate, d.txPower) /\ \A x \in Powers : Gentle(x, 14)
  BY DEF InRange, Gentle, Powers
<1>4. ASSUME d.dataRate > 0 PROVE Audible(r, 14)
  <2>1. /\ d.dataRate \in 0 .. 5 /\ d.txPower \in Int /\ d.txPower <= 14 /\ Loss[Nearest] \in Nat
        /\ 100 * d.txPower - Loss[Nearest] >= -13000 - 250 * (5 - d.dataRate)
    BY <1>3, NearestIsNearest DEF Audible, Powers
  <2>2. r \in 0 .. 5 /\ 1400 - Loss[Nearest] >= -13000 - 250 * (5 - r)
    <3> DEFINE k == d.dataRate
               p == d.txPower
               l == Loss[Nearest]
    <3>1. /\ k \in 0 .. 5 /\ p \in Int /\ p <= 14 /\ l \in Nat /\ k > 0
          /\ 100 * p - l >= -13000 - 250 * (5 - k) /\ r = k - 1
      BY <1>4, <2>1
    <3> HIDE DEF k, p, l, r
    <3> QED
      BY <3>1 DEF l
  <2> HIDE DEF r, e
  <2> QED
    BY <2>2 DEF Audible, Powers
<1> HIDE DEF e, r
<1>5. ASSUME d.dataRate > 0 PROVE InRange(e, h, "idle", <<>>)
  <2>1. PICK sent : Recorded(h, sent) /\ (h # <<>> => Gentle(sent[Len(h)], d.txPower))
    BY DEF InRange
  <2>2. h # <<>> => Gentle(sent[Len(h)], 14)
    <3>1. h # <<>> => Len(h) \in DOMAIN h
      OBVIOUS
    <3> QED
      BY <1>3, <2>1, <3>1 DEF Recorded
  <2> QED
    BY <1>2, <1>4, <1>5, <2>1, <2>2 DEF InRange
<1> QED
  BY <1>1, <1>5

\* A packet that is heard is recorded with the power it was sent with.
LEMMA InsertKeepsInRange ==
  ASSUME NEW d \in Device, NEW heard \in SUBSET Gateways, Typed, InRange(d, history, "idle", <<>>)
  PROVE  InRange(d, InsertReceivedPacket(d, heard), "window", <<>>)
<1> DEFINE n == Len(history)
           p == [g \in heard |-> RxPower(d, g)]
           all == Append(history, p)
           h == InsertReceivedPacket(d, heard)
<1>1. PICK old : Recorded(history, old) /\ (history # <<>> => Gentle(old[n], d.txPower))
  BY DEF InRange
<1> DEFINE new == [i \in 1 .. n + 1 |-> IF i <= n THEN old[i] ELSE d.txPower]
<1>2. Audible(d.dataRate, d.txPower) /\ d.txPower \in Powers
  BY DEF InRange, Audible
<1>3. history \in Seq(Packets) /\ n \in Nat /\ n <= HistoryRange /\ HistoryRange \in Nat \ {0}
  BY AttributesAssumption DEF Typed
<1>4. /\ Len(all) = n + 1 /\ DOMAIN all = 1 .. n + 1 /\ all[n + 1] = p
      /\ \A i \in 1 .. n : all[i] = history[i]
  BY <1>3
<1>5. h = IF Len(all) > HistoryRange THEN SubSeq(all, 2, Len(all)) ELSE all
  BY DEF InsertReceivedPacket
<1>6. SentWith(p, d.txPower)
  <2> SUFFICES ASSUME NEW g \in heard PROVE p[g] <= 100 * d.txPower - Loss[Nearest]
    BY DEF SentWith
  <2>1. p[g] = 100 * d.txPower - Loss[g] /\ d.txPower \in Int
    BY <1>2 DEF RxPower, Powers
  <2>2. Loss[g] \in Nat /\ Loss[Nearest] \in Nat /\ Loss[Nearest] <= Loss[g]
    BY NearestIsNearest
  <2> HIDE DEF p
  <2> QED
    BY <2>1, <2>2
<1> HIDE DEF p, all, h
<1>7. DOMAIN history = 1 .. n /\ (n >= 1 => history # <<>>)
  BY <1>3
<1> HIDE DEF n
<1>8. /\ new \in [1 .. n + 1 -> Powers] /\ new[n + 1] = d.txPower
      /\ \A i \in 1 .. n : new[i] = old[i]
  BY <1>1, <1>2, <1>3, <1>7 DEF Recorded
<1> HIDE DEF new
<1>9. Recorded(all, new)
  <2>1. \A i \in 1 .. n + 1 : SentWith(all[i], new[i])
    <3>1. \A i \in 1 .. n : SentWith(all[i], new[i])
      BY <1>1, <1>4, <1>7, <1>8 DEF Recorded
    <3>2. SentWith(all[n + 1], new[n + 1])
      BY <1>4, <1>6, <1>8
    <3>3. \A i \in 1 .. n + 1 : i \in 1 .. n \/ i = n + 1
      BY <1>3
    <3> QED
      BY <3>1, <3>2, <3>3
  <2>2. ASSUME NEW i \in 1 .. n + 1, i + 1 \in 1 .. n + 1 PROVE Gentle(new[i], new[i + 1])
    <3>1. CASE i + 1 \in 1 .. n
      <4>1. i \in 1 .. n
        BY <1>3, <2>2
      <4> QED
        BY <1>1, <1>7, <1>8, <3>1, <4>1 DEF Recorded
    <3>2. CASE i + 1 \notin 1 .. n
      <4>1. i = n /\ n >= 1 /\ n \in 1 .. n
        BY <1>3, <2>2, <3>2
      <4> QED
        BY <1>1, <1>7, <1>8, <4>1
    <3> QED
      BY <3>1, <3>2
  <2> QED
    BY <1>4, <1>8, <2>1, <2>2 DEF Recorded
<1>10. \E sent : Recorded(h, sent) /\ h # <<>> /\ sent[Len(h)] = d.txPower
  <2>1. CASE Len(all) > HistoryRange
    <3> DEFINE t == SubSeq(all, 2, Len(all))
               late == [i \in 1 .. n |-> new[i + 1]]
    <3>0. all \in Seq(Packets \union {p})
      BY <1>3 DEF all
    <3>1. /\ h = t /\ Len(t) = n /\ DOMAIN t = 1 .. n /\ n >= 1
          /\ \A i \in 1 .. n : t[i] = all[i + 1]
      BY <1>3, <1>4, <1>5, <2>1, <3>0
    <3> HIDE DEF t
    <3>2. \A i \in 1 .. n : i + 1 \in 1 .. n + 1
      BY <1>3
    <3>3. late \in [1 .. n -> Powers] /\ late[n] = d.txPower /\ \A i \in 1 .. n : late[i] = new[i + 1]
      BY <1>3, <1>8, <3>1, <3>2
    <3> HIDE DEF late
    <3>4. \A i \in 1 .. n : SentWith(t[i], late[i])
      BY <1>4, <1>9, <3>1, <3>2, <3>3 DEF Recorded
    <3>5. ASSUME NEW i \in 1 .. n, i + 1 \in 1 .. n PROVE Gentle(late[i], late[i + 1])
      BY <1>4, <1>9, <3>2, <3>3, <3>5 DEF Recorded
    <3>6. Recorded(t, late)
      BY <3>1, <3>3, <3>4, <3>5 DEF Recorded
    <3>7. t # <<>>
      BY <3>1
    <3> QED
      BY <3>1, <3>3, <3>6, <3>7
  <2>2. CASE ~(Len(all) > HistoryRange)
    <3>1. h = all /\ all # <<>>
      BY <1>3, <1>4, <1>5, <2>2
    <3> QED
      BY <1>4, <1>8, <1>9, <3>1
  <2> QED
    BY <2>1, <2>2
<1>11. PICK sent : Recorded(h, sent) /\ h # <<>> /\ sent[Len(h)] = d.txPower
  BY <1>10
<1>12. Gentle(sent[Len(h)], d.txPower)
  BY <1>2, <1>11 DEF Gentle, Powers
<1>13. InRange(d, h, "window", <<>>)
  BY <1>2, <1>11, <1>12 DEF InRange
<1> QED
  BY <1>13 DEF h

\* The command of AdrComponent.
LEMMA AdrAsks ==
  ASSUME Cautious, Typed, NEW sent, Recorded(history, sent), NEW last, last = sent[Len(history)],
         Audible(device.dataRate, device.txPower), device.txPower = last, NEW c, AdrCommand = <<c>>
  PROVE  AskedFor(c, last)
<1> DEFINE dr == device.dataRate
           adr == AdrImplementation(SfForDataRate[dr], device.txPower, history)
           q == IF ToggleTxPower THEN adr.txPower ELSE device.txPower
           a == [cmd |-> "LinkAdrReq", dataRate |-> adr.dataRate, txPower |-> GetTxPowerIndex(q),
                 channelMask |-> 7, chMaskCntl |-> 0, nbRep |-> 1]
<1>1. Len(history) >= HistoryRange /\ c = a
  BY DEF AdrCommand
<1>2. history \in Seq(Packets) /\ history # <<>> /\ Len(history) = HistoryRange
  BY <1>1, AttributesAssumption DEF Typed
<1>3. SNR(history) \in Int /\ Room(last, SNR(history))
  BY <1>2, HistoryLeavesRoom
<1>4. \A x \in {device.txPower, adr.txPower} : Audible(adr.dataRate, x) /\ Gentle(device.txPower, x)
  BY <1>2, <1>3, AdrKeepsAudible
<1> HIDE DEF adr
<1>5. Audible(adr.dataRate, q) /\ Gentle(last, q)
  BY <1>4
<1>6. c.dataRate = adr.dataRate /\ c.txPower = GetTxPowerIndex(q)
  BY <1>1
<1> HIDE DEF q, a
<1>7. \A x \in Powers : GetDbmForTxPower(GetTxPowerIndex(x)) = x
  <2>1. /\ GetTxPowerIndex(2) = 7 /\ GetTxPowerIndex(4) = 6 /\ GetTxPowerIndex(6) = 5 /\ GetTxPowerIndex(8) = 4
        /\ GetTxPowerIndex(10) = 3 /\ GetTxPowerIndex(12) = 2 /\ GetTxPowerIndex(14) = 1
    BY DEF GetTxPowerIndex
  <2>2. \A i \in 1 .. 7 : GetDbmForTxPower(i) = 16 - 2 * i
    BY DEF GetDbmForTxPower, TxDbmForTxPower
  <2> QED
    BY <2>1, <2>2 DEF Powers
<1>8. q \in Powers
  BY <1>5 DEF Audible
<1> QED
  BY <1>5, <1>6, <1>7, <1>8 DEF AskedFor

LEMMA ReplyKeepsInRange ==
  ASSUME NoPowerRequests, Cautious, Typed, InRange(device, history, phase, inbox),
         NEW window, NEW request \in Seq(Requests), Reply(window, request)
  PROVE  InRange(device', history', phase', inbox')
<1> DEFINE commands == LinkCheckCommand \o AdrCommand \o request
<1>1. /\ phase = "window" /\ history' = history
      /\ \/ device' = ReceiveAck(device) /\ inbox' = OnTheAir(commands) /\ phase' = "parsing"
         \/ device' = OpenSecondReceiveWindow(device) /\ phase' = "idle" /\ UNCHANGED inbox
  BY DEF Reply
<1>2. device \in Device /\ history # <<>>
  BY <1>1 DEF Typed
<1>3. CASE phase' = "idle"
  BY <1>1, <1>2, <1>3, OthersKeepPower, SameIsInRange
<1>4. CASE device' = ReceiveAck(device) /\ inbox' = OnTheAir(commands) /\ phase' = "parsing"
  <2>1. PICK sent : /\ Recorded(history, sent) /\ Gentle(sent[Len(history)], device.txPower)
                    /\ device.txPower = sent[Len(history)]
    BY <1>1, <1>2 DEF InRange
  <2> DEFINE last == sent[Len(history)]
             All == {c \in Replies : AskedFor(c, last)}
  <2>2. Audible(device.dataRate, device.txPower)
    BY DEF InRange
  <2>3. LinkCheckCommand \in Seq(All)
    <3>1. LinkCheckCommand \in Seq(LinkCheckAns)
      BY <1>1, LinkCheckCommandTyped
    <3>2. LinkCheckAns \subseteq All
      BY DEF LinkCheckAns, Replies, AskedFor
    <3> HIDE DEF All
    <3> QED
      BY <3>1, <3>2
  <2>4. request \in Seq(All)
    <3>1. Requests \subseteq All
      BY DEF NoPowerRequests, Replies, AskedFor
    <3> HIDE DEF All
    <3> QED
      BY <3>1
  <2>5. AdrCommand \in Seq(All)
    <3>1. AdrCommand \in Seq(LinkAdrReq) /\ Len(AdrCommand) <= 1
      BY AdrCommandTyped
    <3>2. CASE AdrCommand = <<>>
      BY <3>2
    <3>3. CASE AdrCommand # <<>>
      <4>1. PICK c \in LinkAdrReq : AdrCommand = <<c>>
        <5> DEFINE q == AdrCommand
        <5>1. q \in Seq(LinkAdrReq) /\ Len(q) <= 1 /\ q # <<>>
          BY <3>1, <3>3
        <5> HIDE DEF q
        <5>2. Len(q) = 1 /\ q[1] \in LinkAdrReq
          <6>1. Len(q) \in Nat /\ Len(q) # 0
            BY ONLY <5>1
          <6>2. \A l \in Nat : l # 0 /\ l <= 1 => l = 1
            OBVIOUS
          <6>3. Len(q) = 1
            BY ONLY <5>1, <6>1, <6>2
          <6> QED
            BY <5>1, <6>3
        <5>3. q = <<q[1]>>
          BY <5>1, <5>2
        <5> QED
          BY <5>2, <5>3 DEF q
      <4>2. AskedFor(c, last)
        BY <2>1, <2>2, <4>1, AdrAsks
      <4>3. c \in All
        BY <4>1, <4>2 DEF Replies
      <4> HIDE DEF All
      <4> QED
        BY <4>1, <4>3
    <3> QED
      BY <3>2, <3>3
  <2> HIDE DEF All
  <2>6. commands \in Seq(All)
    BY <2>3, <2>4, <2>5
  <2> HIDE DEF commands
  <2>7. \A i \in DOMAIN inbox' : inbox'[i] \in All
    BY <1>4, <2>6, OnTheAirOf
  <2>8. \A i \in DOMAIN inbox' : AskedFor(inbox'[i], last)
    BY <2>7 DEF All
  <2>9. SamePower(device, device')
    BY <1>2, <1>4, OthersKeepPower
  <2> QED
    BY <1>1, <1>2, <1>4, <2>1, <2>2, <2>8, <2>9 DEF InRange, SamePower
<1> QED
  BY <1>1, <1>3, <1>4

LEMMA TransmitKeepsInRange ==
  ASSUME Typed, InRange(device, history, phase, inbox), NEW isNew \in BOOLEAN, Transmit(isNew)
  PROVE  InRange(device', history', phase', inbox')
<1> DEFINE sent == AdaptDataRate(DoSend(isNew))
<1>1. device \in Device /\ sent \in Device /\ DoSend(isNew) \in Device /\ history \in Seq(Packets)
  BY DoSendIsDevice, AdaptIsDevice DEF Transmit, Typed
<1>2. /\ phase = "idle"
      /\ \/ device' = Throw(device) /\ UNCHANGED <<history, phase>>
         \/ device' = OpenSecondReceiveWindow(sent) /\ UNCHANGED <<history, phase>>
         \/ \E heard \in SUBSET Hearing(sent) :
              device' = sent /\ phase' = "window" /\ history' = InsertReceivedPacket(sent, heard)
  <2> HIDE DEF sent
  <2>1. Hearing(sent) \in SUBSET Hearing(sent)
    OBVIOUS
  <2> QED
    BY <2>1 DEF Transmit, sent
<1>3. InRange(sent, history, "idle", <<>>)
  <2>1. InRange(device, history, "idle", <<>>)
    BY <1>2 DEF InRange
  <2>2. InRange(DoSend(isNew), history, "idle", <<>>)
    BY <1>1, <2>1, DoSendKeepsPower, SameIsInRange
  <2> QED
    BY <1>1, <2>2, AdaptKeepsInRange
<1> HIDE DEF sent
<1>4. \A e, h, b : InRange(e, h, "idle", <<>>) => InRange(e, h, "idle", b)
  BY DEF InRange
<1>5. \A e, h, b : InRange(e, h, "window", <<>>) => InRange(e, h, "window", b)
  BY DEF InRange
<1>6. CASE device' = Throw(device) /\ UNCHANGED <<history, phase>>
  <2>1. InRange(device', history, "idle", inbox)
    BY <1>1, <1>2, <1>6, OthersKeepPower, SameIsInRange
  <2>2. InRange(device', history, "idle", <<>>)
    BY <2>1 DEF InRange
  <2> QED
    BY <1>2, <1>4, <1>6, <2>2
<1>7. CASE device' = OpenSecondReceiveWindow(sent) /\ UNCHANGED <<history, phase>>
  <2>1. InRange(device', history, "idle", <<>>)
    BY <1>1, <1>3, <1>7, OthersKeepPower, SameIsInRange
  <2> QED
    BY <1>2, <1>4, <1>7, <2>1
<1>8. ASSUME NEW heard \in SUBSET Hearing(sent), device' = sent, phase' = "window",
             history' = InsertReceivedPacket(sent, heard)
      PROVE  InRange(device', history', phase', inbox')
  <2>1. heard \in SUBSET Gateways
    BY DEF Hearing
  <2>2. InRange(sent, InsertReceivedPacket(sent, heard), "window", <<>>)
    BY <1>1, <1>3, <2>1, InsertKeepsInRange
  <2> QED
    BY <1>5, <1>8, <2>2
<1> QED
  BY <1>2, <1>6, <1>7, <1>8

LEMMA ParseKeepsInRange ==
  ASSUME Typed, InRange(device, history, phase, inbox), ParseCommand
  PROVE  InRange(device', history', phase', inbox')
<1>1. phase = "parsing" /\ history' = history /\ device \in Device /\ inbox \in Seq(Replies)
  BY DEF ParseCommand, Typed
<1>2. CASE inbox = <<>>
  <2>1. device' = device /\ phase' = "idle" /\ inbox' = inbox
    BY <1>2 DEF ParseCommand
  <2> QED
    BY <1>1, <2>1 DEF InRange
<1>3. CASE inbox # <<>>
  <2> DEFINE c == Head(inbox)
  <2>1. device' = Execute(device, c) /\ inbox' = Tail(inbox) /\ phase' = phase /\ c \in Replies /\ c = inbox[1]
    BY <1>1, <1>3 DEF ParseCommand
  <2> HIDE DEF c
  <2>2. PICK sent : /\ Recorded(history, sent) /\ Gentle(sent[Len(history)], device.txPower) /\ history # <<>>
                    /\ \A i \in DOMAIN inbox : AskedFor(inbox[i], sent[Len(history)])
    BY <1>1 DEF InRange
  <2>3. AskedFor(c, sent[Len(history)]) /\ \A i \in DOMAIN inbox' : AskedFor(inbox'[i], sent[Len(history)])
    <3>1. 1 \in DOMAIN inbox /\ \A i \in DOMAIN Tail(inbox) : i + 1 \in DOMAIN inbox /\ Tail(inbox)[i] = inbox[i + 1]
      BY <1>1, <1>3
    <3> QED
      BY <2>1, <2>2, <3>1
  <2>4. Audible(device'.dataRate, device'.txPower) /\ Gentle(sent[Len(history)], device'.txPower)
    <3>1. CASE SamePower(device, device')
      BY <2>2, <3>1 DEF SamePower, InRange
    <3>2. CASE c.cmd = "LinkAdrReq" /\ device'.dataRate = c.dataRate /\ device'.txPower = GetDbmForTxPower(c.txPower)
      BY <2>3, <3>2 DEF AskedFor
    <3> QED
      BY <1>1, <2>1, <3>1, <3>2, ExecuteKeepsPower
  <2> QED
    BY <1>1, <2>1, <2>2, <2>3, <2>4 DEF InRange
<1> QED
  BY <1>2, <1>3

InRangeNow == InRange(device, history, phase, inbox)

LEMMA InRangeInit == Init => InRangeNow
<1> SUFFICES ASSUME Init PROVE InRange(device, history, phase, inbox)
  BY DEF InRangeNow
<1>1. device \in Device
  BY TypedInit DEF Typed
<1>2. device.dataRate \in 0 .. 5 /\ device.txPower = 14 /\ Hearing(device) # {}
  <2>1. PICK dr \in 0 .. 5 :
          device = [dataRate |-> dr, txPower |-> 14, channels |-> Channels, rx1DrOffset |-> 0,
                    rx2DataRate |-> 0, rx2Frequency |-> "869.525", aggregatedDutyCycle |-> <<1, 0>>,
                    gatewayCount |-> 0, commands |-> <<>>, waitingAck |-> FALSE, retxLeft |-> MaxNumbTx,
                    alive |-> TRUE]
    BY DEF Init
  <2>2. device.dataRate = dr /\ device.txPower = 14
    BY <2>1
  <2> QED
    BY <2>2 DEF Init
<1>3. Audible(device.dataRate, device.txPower)
  BY <1>1, <1>2, AudibleIsHeard
<1>4. history = <<>> /\ phase = "idle"
  BY DEF Init
<1>5. Recorded(<<>>, <<>>)
  BY DEF Recorded
<1> QED
  BY <1>3, <1>4, <1>5 DEF InRange

LEMMA InRangeStep ==
  ASSUME NoPowerRequests, Cautious
  PROVE  Typed /\ InRangeNow /\ [Next]_vars => InRangeNow'
<1> SUFFICES ASSUME Typed, InRange(device, history, phase, inbox), [Next]_vars
             PROVE  InRange(device', history', phase', inbox')
  BY DEF InRangeNow
<1>0. device \in Device
  BY DEF Typed
<1>1. ASSUME NEW isNew \in BOOLEAN, Transmit(isNew) PROVE InRange(device', history', phase', inbox')
  BY <1>1, TransmitKeepsInRange
<1>2. CASE GiveUp
  BY <1>0, <1>2, OthersKeepPower, SameIsInRange DEF GiveUp
<1>3. CASE AddMacCommand
  BY <1>0, <1>3, OthersKeepPower, SameIsInRange DEF AddMacCommand
<1>4. ASSUME NEW window \in 1 .. 2, BeforeSendingReply(window) PROVE InRange(device', history', phase', inbox')
  <2>1. <<>> \in Seq(Requests) /\ \A c \in Requests : <<c>> \in Seq(Requests)
    OBVIOUS
  <2>2. \E request \in Seq(Requests) : Reply(window, request)
    BY <1>4, <2>1 DEF BeforeSendingReply
  <2> QED
    BY <2>2, ReplyKeepsInRange
<1>5. CASE InitializeReply
  BY <1>0, <1>5, OthersKeepPower, SameIsInRange DEF InitializeReply
<1>6. CASE ParseCommand
  BY <1>6, ParseKeepsInRange
<1>7. CASE CalmDown
  BY <1>7 DEF CalmDown
<1>8. CASE UNCHANGED vars
  BY <1>8 DEF vars
<1> QED
  BY <1>1, <1>2, <1>3, <1>4, <1>5, <1>6, <1>7, <1>8 DEF Next

\* A device that some gateway hears at the start is heard for ever, wherever the gateways
\* are and whatever is lost: with a cautious average, and as long as no component of the
\* user's own sets the power, AdrComponent never turns it down too far.
THEOREM HeardForEver == ASSUME NoPowerRequests, Cautious PROVE Spec => []StaysHeard
<1>1. Typed /\ InRangeNow => StaysHeard
  BY AudibleIsHeard DEF Typed, InRangeNow, InRange, Audible, StaysHeard
<1>2. Typed /\ InRangeNow /\ [Next]_vars => InRangeNow'
  BY InRangeStep
<1> QED
  BY <1>1, <1>2, TypedInit, TypedStep, InRangeInit, PTL DEF Spec

-----------------------------------------------------------------------------
(* Bytes, and the bits in them *)

LEMMA SmallPowers == 2^0 = 1 /\ 2^1 = 2 /\ 2^2 = 4 /\ 2^3 = 8 /\ 2^4 = 16 /\ 2^5 = 32 /\ 2^6 = 64
  BY SMT

LEMMA LargePowers == 2^16 = 65536 /\ 2^24 = 16777216 /\ 2^25 = 33554432
  BY SMT

LEMMA Interval == \A a, b \in Int : \A x : x \in a .. b <=> x \in Int /\ a <= x /\ x <= b
  BY SMT

LEMMA BytesAre == \A x : x \in Byte <=> x \in Nat /\ x < 256
<1>1. 0 \in Int /\ 255 \in Int
  BY SMT
<1>2. \A x : x \in Nat /\ x < 256 <=> x \in Int /\ 0 <= x /\ x <= 255
  BY SMT
<1>3. \A x : x \in 0 .. 255 <=> x \in Int /\ 0 <= x /\ x <= 255
  BY ONLY <1>1, Interval, Zenon
<1> QED
  BY ONLY <1>2, <1>3, Zenon DEF Byte

LEMMA U16Are == \A x : x \in U16 <=> x \in Nat /\ x < 65536
  BY LargePowers, SMT DEF U16

LEMMA BitsAre == \A b \in BOOLEAN : Bit(b) \in Nat /\ Bit(b) <= 1 /\ (Bit(b) = 1) = b
  BY DEF Bit

\* A number of two digits gives its digits back, in every base.
LEMMA Nibbles ==
  ASSUME NEW a \in Byte, NEW b \in Byte
  PROVE  LET n == (a * 16 + (b % 16)) % 256
         IN  n \in Byte /\ (a < 16 /\ b < 16 => n \div 16 = a /\ n % 16 = b)
<1> DEFINE n == (a * 16 + (b % 16)) % 256
<1>1. a \in Nat /\ b \in Nat
  BY BytesAre
<1>2. n \in Nat /\ n < 256 /\ (a < 16 /\ b < 16 => n \div 16 = a /\ n % 16 = b)
  BY <1>1, SMT
<1> QED
  BY <1>2, BytesAre

LEMMA LowAndHigh ==
  ASSUME NEW n \in U16
  PROVE  /\ n % 256 \in Byte /\ n \div 256 \in Byte
         /\ ReadU16(n % 256, n \div 256) = n
<1>1. n \in Nat /\ n < 65536
  BY U16Are
<1>2. n % 256 \in Nat /\ n % 256 < 256 /\ n \div 256 \in Nat /\ n \div 256 < 256
  BY <1>1, SMT
<1>3. (n \div 256) * 256 + (n % 256) = n
  BY <1>1, SMT
<1> QED
  BY <1>2, <1>3, BytesAre DEF ReadU16

LEMMA BitSet ==
  \A n : /\ IsSet(n, 0) = ((n \div 1) % 2 = 1) /\ IsSet(n, 1) = ((n \div 2) % 2 = 1)
        /\ IsSet(n, 2) = ((n \div 4) % 2 = 1) /\ IsSet(n, 3) = ((n \div 8) % 2 = 1)
        /\ IsSet(n, 4) = ((n \div 16) % 2 = 1) /\ IsSet(n, 5) = ((n \div 32) % 2 = 1)
        /\ IsSet(n, 6) = ((n \div 64) % 2 = 1)
  BY ONLY SmallPowers, Zenon DEF IsSet

\* A flag is found again in the byte of up to three it was written into.
LEMMA ThreeFlags ==
  ASSUME NEW p \in BOOLEAN, NEW q \in BOOLEAN, NEW r \in BOOLEAN
  PROVE  LET n == Bit(p) * 4 + Bit(q) * 2 + Bit(r)
         IN  /\ n \in Byte
             /\ IsSet(n, 2) = p /\ IsSet(n, 1) = q /\ IsSet(n, 0) = r
<1> DEFINE n == Bit(p) * 4 + Bit(q) * 2 + Bit(r)
<1>1. n \in Nat /\ n < 256
  BY DEF Bit
<1>2. /\ ((n \div 4) % 2 = 1) = p /\ ((n \div 2) % 2 = 1) = q /\ ((n \div 1) % 2 = 1) = r
  BY SMT DEF Bit
<1>3. n \in Byte
  BY <1>1, BytesAre
<1> QED
  BY ONLY <1>2, <1>3, BitSet, Zenon

\* The byte of four flags and a length of three bits.
LEMMA FCtrlReadsBack ==
  ASSUME NEW h, h.adr \in BOOLEAN, h.adrAckReq \in BOOLEAN, h.ack \in BOOLEAN, h.fPending \in BOOLEAN,
         NEW len \in Byte
  PROVE  LET n == FCtrl(h, len)
         IN  /\ n \in Byte /\ n % 8 = len % 8
             /\ IsSet(n, 6) = h.adr /\ IsSet(n, 5) = h.adrAckReq
             /\ IsSet(n, 4) = h.ack /\ IsSet(n, 3) = h.fPending
<1> DEFINE p == h.adr
           q == h.adrAckReq
           r == h.ack
           t == h.fPending
           n == Bit(p) * 64 + Bit(q) * 32 + Bit(r) * 16 + Bit(t) * 8 + (len % 8)
<1>1. len \in Nat /\ p \in BOOLEAN /\ q \in BOOLEAN /\ r \in BOOLEAN /\ t \in BOOLEAN
  BY BytesAre
<1>2. FCtrl(h, len) = n
  BY DEF FCtrl
<1> HIDE DEF p, q, r, t
<1>3. n \in Nat /\ n < 256 /\ n % 8 = len % 8
  BY ONLY <1>1, SMT DEF Bit
<1>4. /\ ((n \div 64) % 2 = 1) = p /\ ((n \div 32) % 2 = 1) = q /\ ((n \div 16) % 2 = 1) = r
      /\ ((n \div 8) % 2 = 1) = t
  BY ONLY <1>1, SMT DEF Bit
<1> HIDE DEF n
<1>5. n \in Byte
  BY <1>3, BytesAre
<1>6. IsSet(n, 6) = p /\ IsSet(n, 5) = q /\ IsSet(n, 4) = r /\ IsSet(n, 3) = t
  BY ONLY <1>4, BitSet, Zenon
<1> QED
  BY ONLY <1>2, <1>3, <1>5, <1>6, Zenon DEF p, q, r, t

\* The type of a message and the version, in the byte of the outer header.
LEMMA MacHeaderReadsBack ==
  ASSUME NEW i \in Nat, i < 8, NEW j \in Nat, j < 4
  PROVE  LET n == i * 32 + j
         IN  n \in Byte /\ n \div 32 = i /\ n % 4 = j
<1> DEFINE n == i * 32 + j
<1>1. n \in Nat /\ n < 256 /\ n \div 32 = i /\ n % 4 = j
  BY SMT
<1> HIDE DEF n
<1>2. n \in Byte
  BY <1>1, BytesAre
<1> QED
  BY <1>1, <1>2 DEF n

\* LoraDeviceAddress: the number of 32 bits, cut into bytes and joined again.
LEMMA AddressReadsBack ==
  ASSUME NEW a \in Address
  PROVE  LET b == AddressBytes(a)
         IN  b[1] \in Byte /\ b[2] \in Byte /\ b[3] \in Byte /\ b[4] \in Byte /\ AddressOf(b) = a
<1> DEFINE id == a.nwkId
           n == a.nwkAddr
           top == id * 2 + n \div 16777216
<1>1. id \in Nat /\ id < 128 /\ n \in Nat /\ n < 33554432 /\ a = [nwkId |-> id, nwkAddr |-> n]
  <2>1. \A P, Q : \A r \in [nwkId: P, nwkAddr: Q] :
          r.nwkId \in P /\ r.nwkAddr \in Q /\ r = [nwkId |-> r.nwkId, nwkAddr |-> r.nwkAddr]
    OBVIOUS
  <2>2. id \in 0 .. 127 /\ n \in 0 .. 2^25 - 1 /\ a = [nwkId |-> id, nwkAddr |-> n]
    BY ONLY <2>1, a \in Address, Zenon DEF Address
  <2> HIDE DEF id, n
  <2>3. n \in Nat /\ n < 2^25
    BY <2>2, LargePowers, SMT
  <2>4. id \in Nat /\ id < 128
    BY <2>2, SMT
  <2> QED
    BY <2>2, <2>3, <2>4, LargePowers, SMT
<1> HIDE DEF id, n
<1>2. top \in Nat /\ top < 256 /\ top \div 2 = id
  BY <1>1, SMT
<1>3. (((top % 2) * 256 + ((n \div 65536) % 256)) * 256 + ((n \div 256) % 256)) * 256 + (n % 256) = n
  BY <1>1, SMT
<1>4. /\ n % 256 \in Nat /\ n % 256 < 256 /\ (n \div 256) % 256 \in Nat /\ (n \div 256) % 256 < 256
      /\ (n \div 65536) % 256 \in Nat /\ (n \div 65536) % 256 < 256
  BY <1>1, SMT
<1>5. AddressBytes(a) = <<n % 256, (n \div 256) % 256, (n \div 65536) % 256, top>>
  BY DEF AddressBytes, id, n
<1> HIDE DEF top
<1>6. AddressOf(AddressBytes(a)) = [nwkId |-> id, nwkAddr |-> n]
  BY <1>2, <1>3, <1>5, SMT DEF AddressOf
<1> QED
  BY <1>1, <1>2, <1>4, <1>5, <1>6, BytesAre, SMT

-----------------------------------------------------------------------------
(* The bytes of a command, and what is read from them *)

\* A command that fits its fields is read back as it was, whatever follows it.
Survives(c, tail) ==
  /\ Serialized(c) \in Seq(Byte) /\ Len(Serialized(c)) = SerializedSize(c.cmd)
  /\ Serialized(c)[1] = GetCID(c.cmd)
  /\ Readable(c) => Deserialized(c.cmd, Serialized(c) \o tail) = c

LEMMA InFront ==
  ASSUME NEW s \in Seq(Byte), NEW tail \in Seq(Byte)
  PROVE  /\ Len(s) = 2 => (s \o tail)[2] = s[2]
         /\ Len(s) = 3 => (s \o tail)[2] = s[2] /\ (s \o tail)[3] = s[3]
         /\ Len(s) = 5 => /\ (s \o tail)[2] = s[2] /\ (s \o tail)[3] = s[3]
                          /\ (s \o tail)[4] = s[4] /\ (s \o tail)[5] = s[5]
         /\ Len(s) = 6 => /\ (s \o tail)[2] = s[2] /\ (s \o tail)[3] = s[3]
                          /\ (s \o tail)[4] = s[4] /\ (s \o tail)[5] = s[5] /\ (s \o tail)[6] = s[6]
  OBVIOUS

LEMMA TwoBytes ==
  ASSUME NEW a \in Byte, NEW b \in Byte
  PROVE  LET s == <<a>> \o <<b>> IN s \in Seq(Byte) /\ Len(s) = 2 /\ s[1] = a /\ s[2] = b
  OBVIOUS

LEMMA ThreeBytes ==
  ASSUME NEW a \in Byte, NEW b \in Byte, NEW c \in Byte
  PROVE  LET s == <<a>> \o <<b, c>>
         IN  s \in Seq(Byte) /\ Len(s) = 3 /\ s[1] = a /\ s[2] = b /\ s[3] = c
  OBVIOUS

LEMMA FiveBytes ==
  ASSUME NEW a \in Byte, NEW b \in Byte, NEW c \in Byte, NEW d \in Byte, NEW e \in Byte
  PROVE  /\ LET s == <<a>> \o (<<b>> \o <<c, d>> \o <<e>>)
            IN  s \in Seq(Byte) /\ Len(s) = 5 /\ s[1] = a /\ s[2] = b /\ s[3] = c /\ s[4] = d /\ s[5] = e
         /\ LET s == <<a>> \o (<<b>> \o <<c, d, e>>)
            IN  s \in Seq(Byte) /\ Len(s) = 5 /\ s[1] = a /\ s[2] = b /\ s[3] = c /\ s[4] = d /\ s[5] = e
  OBVIOUS

LEMMA SixBytes ==
  ASSUME NEW a \in Byte, NEW b \in Byte, NEW c \in Byte, NEW d \in Byte, NEW e \in Byte, NEW f \in Byte
  PROVE  LET s == <<a>> \o (<<b>> \o <<c, d, e>> \o <<f>>)
         IN  /\ s \in Seq(Byte) /\ Len(s) = 6
             /\ s[1] = a /\ s[2] = b /\ s[3] = c /\ s[4] = d /\ s[5] = e /\ s[6] = f
  OBVIOUS

LEMMA SmallBytes ==
  /\ 1 \in Byte /\ 2 \in Byte /\ 3 \in Byte /\ 4 \in Byte /\ 5 \in Byte /\ 6 \in Byte /\ 7 \in Byte /\ 8 \in Byte
  BY BytesAre

LEMMA PlainSurvives ==
  ASSUME NEW c \in Plain, NEW tail \in Seq(Byte)
  PROVE  Survives(c, tail)
<1>1. c = [cmd |-> c.cmd] /\ c.cmd \in PlainUp \union PlainDown
  BY DEF Plain
<1>2. Serialized(c) = <<GetCID(c.cmd)>> \o <<>> /\ SerializedSize(c.cmd) = 1
  BY <1>1 DEF Serialized, SerializedSize, PlainUp, PlainDown
<1>3. GetCID(c.cmd) \in Byte
  BY <1>1, SmallBytes DEF GetCID, PlainUp, PlainDown
<1>4. \A b : Deserialized(c.cmd, b) = [cmd |-> c.cmd]
  BY <1>1 DEF Deserialized, PlainUp, PlainDown
<1>5. \A g \in Byte : <<g>> \o <<>> \in Seq(Byte) /\ Len(<<g>> \o <<>>) = 1 /\ (<<g>> \o <<>>)[1] = g
  OBVIOUS
<1> QED
  BY ONLY <1>1, <1>2, <1>3, <1>4, <1>5 DEF Survives

LEMMA LinkCheckAnsSurvives ==
  ASSUME NEW c \in LinkCheckAns, NEW tail \in Seq(Byte)
  PROVE  Survives(c, tail)
<1>1. /\ c = [cmd |-> "LinkCheckAns", margin |-> c.margin, gwCnt |-> c.gwCnt] /\ c.cmd = "LinkCheckAns"
      /\ c.margin \in Byte /\ c.gwCnt \in Byte
  BY DEF LinkCheckAns
<1>2. Serialized(c) = <<2>> \o <<c.margin, c.gwCnt>> /\ SerializedSize(c.cmd) = 3 /\ GetCID(c.cmd) = 2
  BY <1>1 DEF Serialized, SerializedSize, GetCID, WriteLinkCheckAns
<1> DEFINE s == Serialized(c)
           margin == c.margin
           gwCnt == c.gwCnt
<1>3. s \in Seq(Byte) /\ Len(s) = 3 /\ s[1] = 2 /\ s[2] = margin /\ s[3] = gwCnt
  BY <1>1, <1>2, SmallBytes, ThreeBytes
<1> HIDE DEF s, margin, gwCnt
<1>4. (s \o tail)[2] = margin /\ (s \o tail)[3] = gwCnt
  BY <1>3, InFront, Zenon
<1>5. Deserialized(c.cmd, s \o tail) = c
  BY <1>1, <1>4 DEF margin, gwCnt, Deserialized, ReadLinkCheckAns
<1> QED
  BY <1>2, <1>3, <1>5 DEF Survives, s

LEMMA DevStatusAnsSurvives ==
  ASSUME NEW c \in DevStatusAns, NEW tail \in Seq(Byte)
  PROVE  Survives(c, tail)
<1>1. /\ c = [cmd |-> "DevStatusAns", battery |-> c.battery, margin |-> c.margin] /\ c.cmd = "DevStatusAns"
      /\ c.battery \in Byte /\ c.margin \in Byte
  BY DEF DevStatusAns
<1>2. Serialized(c) = <<6>> \o <<c.battery, c.margin>> /\ SerializedSize(c.cmd) = 3 /\ GetCID(c.cmd) = 6
  BY <1>1 DEF Serialized, SerializedSize, GetCID, WriteDevStatusAns
<1> DEFINE s == Serialized(c)
           battery == c.battery
           margin == c.margin
<1>3. s \in Seq(Byte) /\ Len(s) = 3 /\ s[1] = 6 /\ s[2] = battery /\ s[3] = margin
  BY <1>1, <1>2, SmallBytes, ThreeBytes
<1> HIDE DEF s, battery, margin
<1>4. (s \o tail)[2] = battery /\ (s \o tail)[3] = margin
  BY <1>3, InFront, Zenon
<1>5. Readable(c) => c.margin % 64 = c.margin
  <2>1. c.margin \in Nat
    BY <1>1, BytesAre
  <2>2. Readable(c) => c.margin < 64
    BY <1>1 DEF Readable
  <2> QED
    BY <2>1, <2>2
<1>6. Readable(c) => Deserialized(c.cmd, s \o tail) = c
  BY <1>1, <1>4, <1>5 DEF battery, margin, Deserialized, ReadDevStatusAns
<1> QED
  BY <1>2, <1>3, <1>6 DEF Survives, s

LEMMA DutyCycleReqSurvives ==
  ASSUME NEW c \in DutyCycleReq, NEW tail \in Seq(Byte)
  PROVE  Survives(c, tail)
<1>1. /\ c = [cmd |-> "DutyCycleReq", maxDCycle |-> c.maxDCycle] /\ c.cmd = "DutyCycleReq"
      /\ c.maxDCycle \in Byte
  BY DEF DutyCycleReq
<1>2. Serialized(c) = <<4>> \o <<c.maxDCycle>> /\ SerializedSize(c.cmd) = 2 /\ GetCID(c.cmd) = 4
  BY <1>1 DEF Serialized, SerializedSize, GetCID, WriteDutyCycleReq
<1> DEFINE s == Serialized(c)
           maxDCycle == c.maxDCycle
<1>3. s \in Seq(Byte) /\ Len(s) = 2 /\ s[1] = 4 /\ s[2] = maxDCycle
  BY <1>1, <1>2, SmallBytes, TwoBytes
<1> HIDE DEF s, maxDCycle
<1>4. (s \o tail)[2] = maxDCycle
  BY <1>3, InFront, Zenon
<1>5. Deserialized(c.cmd, s \o tail) = c
  BY <1>1, <1>4 DEF maxDCycle, Deserialized, ReadDutyCycleReq
<1> QED
  BY <1>2, <1>3, <1>5 DEF Survives, s

LEMMA RxTimingSetupReqSurvives ==
  ASSUME NEW c \in RxTimingSetupReq, NEW tail \in Seq(Byte)
  PROVE  Survives(c, tail)
<1>1. /\ c = [cmd |-> "RxTimingSetupReq", delay |-> c.delay] /\ c.cmd = "RxTimingSetupReq"
      /\ c.delay \in Byte
  BY DEF RxTimingSetupReq
<1>2. Serialized(c) = <<8>> \o <<c.delay % 16>> /\ SerializedSize(c.cmd) = 2 /\ GetCID(c.cmd) = 8
  BY <1>1 DEF Serialized, SerializedSize, GetCID, WriteRxTimingSetupReq
<1> DEFINE s == Serialized(c)
           written == c.delay % 16
<1>3. written \in Byte /\ written % 16 = written /\ (Readable(c) => written = c.delay)
  <2>1. c.delay \in Nat
    BY <1>1, BytesAre
  <2>2. written \in Nat /\ written < 256 /\ written % 16 = written /\ (c.delay < 16 => written = c.delay)
    BY <2>1
  <2>3. Readable(c) => c.delay < 16
    BY <1>1 DEF Readable
  <2> QED
    BY <2>2, <2>3, BytesAre
<1> HIDE DEF written
<1>4. s \in Seq(Byte) /\ Len(s) = 2 /\ s[1] = 8 /\ s[2] = written
  BY <1>2, <1>3, SmallBytes, TwoBytes DEF written
<1> HIDE DEF s
<1>5. (s \o tail)[2] = written
  BY <1>4, InFront, Zenon
<1>6. Readable(c) => Deserialized(c.cmd, s \o tail) = c
  BY <1>1, <1>3, <1>5 DEF Deserialized, ReadRxTimingSetupReq
<1> QED
  BY <1>2, <1>4, <1>6 DEF Survives, s

LEMMA LinkAdrAnsSurvives ==
  ASSUME NEW c \in LinkAdrAns, NEW tail \in Seq(Byte)
  PROVE  Survives(c, tail)
<1>1. /\ c = [cmd |-> "LinkAdrAns", powerAck |-> c.powerAck, dataRateAck |-> c.dataRateAck,
              channelMaskAck |-> c.channelMaskAck]
      /\ c.cmd = "LinkAdrAns"
      /\ c.powerAck \in BOOLEAN /\ c.dataRateAck \in BOOLEAN /\ c.channelMaskAck \in BOOLEAN
  BY DEF LinkAdrAns
<1> DEFINE s == Serialized(c)
           written == Bit(c.powerAck) * 4 + Bit(c.dataRateAck) * 2 + Bit(c.channelMaskAck)
<1>2. s = <<3>> \o <<written>> /\ SerializedSize(c.cmd) = 2 /\ GetCID(c.cmd) = 3
  BY <1>1 DEF Serialized, SerializedSize, GetCID, WriteLinkAdrAns
<1>3. /\ written \in Byte
      /\ IsSet(written, 2) = c.powerAck /\ IsSet(written, 1) = c.dataRateAck
      /\ IsSet(written, 0) = c.channelMaskAck
  BY <1>1, ThreeFlags
<1> HIDE DEF written
<1>4. s \in Seq(Byte) /\ Len(s) = 2 /\ s[1] = 3 /\ s[2] = written
  BY <1>2, <1>3, SmallBytes, TwoBytes
<1> HIDE DEF s
<1>5. (s \o tail)[2] = written
  BY <1>4, InFront, Zenon
<1>6. Deserialized(c.cmd, s \o tail) = c
  BY <1>1, <1>3, <1>5 DEF Deserialized, ReadLinkAdrAns
<1> QED
  BY <1>2, <1>4, <1>6 DEF Survives, s

LEMMA RxParamSetupAnsSurvives ==
  ASSUME NEW c \in RxParamSetupAns, NEW tail \in Seq(Byte)
  PROVE  Survives(c, tail)
<1>1. /\ c = [cmd |-> "RxParamSetupAns", rx1DrOffsetAck |-> c.rx1DrOffsetAck,
              rx2DataRateAck |-> c.rx2DataRateAck, channelAck |-> c.channelAck]
      /\ c.cmd = "RxParamSetupAns"
      /\ c.rx1DrOffsetAck \in BOOLEAN /\ c.rx2DataRateAck \in BOOLEAN /\ c.channelAck \in BOOLEAN
  BY DEF RxParamSetupAns
<1> DEFINE s == Serialized(c)
           written == Bit(c.rx1DrOffsetAck) * 4 + Bit(c.rx2DataRateAck) * 2 + Bit(c.channelAck)
<1>2. s = <<5>> \o <<written>> /\ SerializedSize(c.cmd) = 2 /\ GetCID(c.cmd) = 5
  BY <1>1 DEF Serialized, SerializedSize, GetCID, WriteRxParamSetupAns
<1>3. /\ written \in Byte
      /\ IsSet(written, 2) = c.rx1DrOffsetAck /\ IsSet(written, 1) = c.rx2DataRateAck
      /\ IsSet(written, 0) = c.channelAck
  BY <1>1, ThreeFlags
<1> HIDE DEF written
<1>4. s \in Seq(Byte) /\ Len(s) = 2 /\ s[1] = 5 /\ s[2] = written
  BY <1>2, <1>3, SmallBytes, TwoBytes
<1> HIDE DEF s
<1>5. (s \o tail)[2] = written
  BY <1>4, InFront, Zenon
<1>6. Deserialized(c.cmd, s \o tail) = c
  BY <1>1, <1>3, <1>5 DEF Deserialized, ReadRxParamSetupAns
<1> QED
  BY <1>2, <1>4, <1>6 DEF Survives, s

LEMMA NewChannelAnsSurvives ==
  ASSUME NEW c \in NewChannelAns, NEW tail \in Seq(Byte)
  PROVE  Survives(c, tail)
<1>1. /\ c = [cmd |-> "NewChannelAns", dataRateRangeOk |-> c.dataRateRangeOk,
              channelFrequencyOk |-> c.channelFrequencyOk]
      /\ c.cmd = "NewChannelAns"
      /\ c.dataRateRangeOk \in BOOLEAN /\ c.channelFrequencyOk \in BOOLEAN
  BY DEF NewChannelAns
<1> DEFINE s == Serialized(c)
           written == Bit(c.dataRateRangeOk) * 2 + Bit(c.channelFrequencyOk)
<1>2. s = <<7>> \o <<written>> /\ SerializedSize(c.cmd) = 2 /\ GetCID(c.cmd) = 7
  BY <1>1 DEF Serialized, SerializedSize, GetCID, WriteNewChannelAns
<1>3. /\ written \in Byte
      /\ IsSet(written, 1) = c.dataRateRangeOk /\ IsSet(written, 0) = c.channelFrequencyOk
  <2>1. Bit(FALSE) * 4 + Bit(c.dataRateRangeOk) * 2 + Bit(c.channelFrequencyOk) = written
    BY <1>1 DEF Bit
  <2> HIDE DEF written
  <2> QED
    BY <1>1, <2>1, ThreeFlags
<1> HIDE DEF written
<1>4. s \in Seq(Byte) /\ Len(s) = 2 /\ s[1] = 7 /\ s[2] = written
  BY <1>2, <1>3, SmallBytes, TwoBytes
<1> HIDE DEF s
<1>5. (s \o tail)[2] = written
  BY <1>4, InFront, Zenon
<1>6. Deserialized(c.cmd, s \o tail) = c
  BY <1>1, <1>3, <1>5 DEF Deserialized, ReadNewChannelAns
<1> QED
  BY <1>2, <1>4, <1>6 DEF Survives, s

LEMMA LinkAdrReqSurvives ==
  ASSUME NEW c \in LinkAdrReq, NEW tail \in Seq(Byte)
  PROVE  Survives(c, tail)
<1>1. /\ c = [cmd |-> "LinkAdrReq", dataRate |-> c.dataRate, txPower |-> c.txPower,
              channelMask |-> c.channelMask, chMaskCntl |-> c.chMaskCntl, nbRep |-> c.nbRep]
      /\ c.cmd = "LinkAdrReq" /\ c.dataRate \in Byte /\ c.txPower \in Byte /\ c.channelMask \in U16
      /\ c.chMaskCntl \in Byte /\ c.nbRep \in Byte
  BY DEF LinkAdrReq
<1> DEFINE s == Serialized(c)
           p == (c.dataRate * 16 + (c.txPower % 16)) % 256
           q == (c.chMaskCntl * 16 + (c.nbRep % 16)) % 256
           low == c.channelMask % 256
           high == c.channelMask \div 256
<1>2. s = <<3>> \o (<<p>> \o <<low, high>> \o <<q>>) /\ SerializedSize(c.cmd) = 5 /\ GetCID(c.cmd) = 3
  BY <1>1 DEF Serialized, SerializedSize, GetCID, WriteLinkAdrReq, WriteU16
<1>3. Readable(c) => c.dataRate < 16 /\ c.txPower < 16 /\ c.chMaskCntl < 16 /\ c.nbRep < 16
  BY <1>1 DEF Readable
<1>4. p \in Byte /\ (Readable(c) => p \div 16 = c.dataRate /\ p % 16 = c.txPower)
  BY <1>1, <1>3, Nibbles
<1>5. q \in Byte /\ (Readable(c) => q \div 16 = c.chMaskCntl /\ q % 16 = c.nbRep)
  BY <1>1, <1>3, Nibbles
<1>6. low \in Byte /\ high \in Byte /\ ReadU16(low, high) = c.channelMask
  BY <1>1, LowAndHigh
<1> HIDE DEF p, q, low, high
<1>7. s \in Seq(Byte) /\ Len(s) = 5 /\ s[1] = 3 /\ s[2] = p /\ s[3] = low /\ s[4] = high /\ s[5] = q
  BY ONLY <1>2, <1>4, <1>5, <1>6, SmallBytes, FiveBytes
<1> HIDE DEF s
<1>8. /\ (s \o tail)[2] = p /\ (s \o tail)[3] = low /\ (s \o tail)[4] = high
      /\ (s \o tail)[5] = q
  BY <1>7, InFront, Zenon
<1>9. Readable(c) => Deserialized(c.cmd, s \o tail) = c
  BY <1>1, <1>4, <1>5, <1>6, <1>8 DEF Deserialized, ReadLinkAdrReq
<1> QED
  BY <1>2, <1>7, <1>9 DEF Survives, s

LEMMA FrequencyReadsBack ==
  ASSUME NEW hz \in Nat
  PROVE  \E a, b, c \in Byte :
           /\ WriteFrequency(hz) = <<a, b, c>>
           /\ hz % 100 = 0 /\ hz < 100 * 2^24 => ((a * 256 + b) * 256 + c) * 100 = hz
<1> DEFINE n == hz \div 100
           a == (n \div 65536) % 256
           b == (n \div 256) % 256
           c == n % 256
<1>1. n \in Nat /\ (hz % 100 = 0 => n * 100 = hz) /\ (hz < 1677721600 => n < 16777216)
  BY SMT
<1>2. WriteFrequency(hz) = <<a, b, c>>
  BY DEF WriteFrequency
<1> HIDE DEF n
<1>3. /\ a \in Nat /\ a < 256 /\ b \in Nat /\ b < 256 /\ c \in Nat /\ c < 256
  BY <1>1, SMT
<1>4. n < 16777216 => (a * 256 + b) * 256 + c = n
  BY <1>1, SMT
<1> HIDE DEF a, b, c
<1>5. 100 * 2^24 = 1677721600
  BY LargePowers, SMT
<1>6. hz % 100 = 0 /\ hz < 100 * 2^24 => ((a * 256 + b) * 256 + c) * 100 = hz
  BY <1>1, <1>3, <1>4, <1>5, SMT
<1>7. a \in Byte /\ b \in Byte /\ c \in Byte
  BY <1>3, BytesAre
<1> USE <1>7
<1> WITNESS a \in Byte, b \in Byte, c \in Byte
<1> QED
  BY <1>2, <1>6, Zenon

LEMMA RxParamSetupReqSurvives ==
  ASSUME NEW c \in RxParamSetupReq, NEW tail \in Seq(Byte)
  PROVE  Survives(c, tail)
<1>1. /\ c = [cmd |-> "RxParamSetupReq", rx1DrOffset |-> c.rx1DrOffset, rx2DataRate |-> c.rx2DataRate,
              frequency |-> c.frequency]
      /\ c.cmd = "RxParamSetupReq" /\ c.rx1DrOffset \in Byte /\ c.rx2DataRate \in Byte /\ c.frequency \in Nat
  BY DEF RxParamSetupReq, Hertz
<1> DEFINE s == Serialized(c)
           p == (c.rx1DrOffset % 8) * 16 + (c.rx2DataRate % 16)
<1>2. PICK x, y, z \in Byte :
        /\ WriteFrequency(c.frequency) = <<x, y, z>>
        /\ c.frequency % 100 = 0 /\ c.frequency < 100 * 2^24 => ((x * 256 + y) * 256 + z) * 100 = c.frequency
  BY <1>1, FrequencyReadsBack
<1>3. s = <<5>> \o (<<p>> \o <<x, y, z>>) /\ SerializedSize(c.cmd) = 5 /\ GetCID(c.cmd) = 5
  BY <1>1, <1>2 DEF Serialized, SerializedSize, GetCID, WriteRxParamSetupReq
<1>4. Readable(c) => /\ c.rx1DrOffset < 8 /\ c.rx2DataRate < 16
                     /\ c.frequency % 100 = 0 /\ c.frequency < 100 * 2^24
  BY <1>1, Zenon DEF Readable
<1>5. p \in Byte /\ (Readable(c) => (p \div 16) % 8 = c.rx1DrOffset /\ p % 16 = c.rx2DataRate)
  <2>1. \A i, j \in Nat : LET b == (i % 8) * 16 + (j % 16)
                          IN  /\ b \in Nat /\ b < 256
                              /\ i < 8 /\ j < 16 => (b \div 16) % 8 = i /\ b % 16 = j
    BY SMT
  <2>2. c.rx1DrOffset \in Nat /\ c.rx2DataRate \in Nat
    BY <1>1, BytesAre, Zenon
  <2> QED
    BY <1>4, <2>1, <2>2, BytesAre, Zenon
<1> HIDE DEF p
<1>6. s \in Seq(Byte) /\ Len(s) = 5 /\ s[1] = 5 /\ s[2] = p /\ s[3] = x /\ s[4] = y /\ s[5] = z
  BY ONLY <1>2, <1>3, <1>5, SmallBytes, FiveBytes
<1> HIDE DEF s
<1>7. /\ (s \o tail)[2] = p /\ (s \o tail)[3] = x /\ (s \o tail)[4] = y
      /\ (s \o tail)[5] = z
  BY <1>6, InFront, Zenon
<1>8. Readable(c) => Deserialized(c.cmd, s \o tail) = c
  BY ONLY <1>1, <1>2, <1>4, <1>5, <1>7 DEF Deserialized, ReadRxParamSetupReq
<1> QED
  BY <1>3, <1>6, <1>8 DEF Survives, s

LEMMA NewChannelReqSurvives ==
  ASSUME NEW c \in NewChannelReq, NEW tail \in Seq(Byte)
  PROVE  Survives(c, tail)
<1>1. /\ c = [cmd |-> "NewChannelReq", chIndex |-> c.chIndex, frequency |-> c.frequency,
              minDataRate |-> c.minDataRate, maxDataRate |-> c.maxDataRate]
      /\ c.cmd = "NewChannelReq" /\ c.chIndex \in Byte /\ c.frequency \in Nat
      /\ c.minDataRate \in Byte /\ c.maxDataRate \in Byte
  BY DEF NewChannelReq, Hertz
<1> DEFINE s == Serialized(c)
           i == c.chIndex
           p == (c.maxDataRate * 16 + (c.minDataRate % 16)) % 256
<1>2. PICK x, y, z \in Byte :
        /\ WriteFrequency(c.frequency) = <<x, y, z>>
        /\ c.frequency % 100 = 0 /\ c.frequency < 100 * 2^24 => ((x * 256 + y) * 256 + z) * 100 = c.frequency
  BY <1>1, FrequencyReadsBack
<1>3. s = <<7>> \o (<<i>> \o <<x, y, z>> \o <<p>>) /\ SerializedSize(c.cmd) = 6 /\ GetCID(c.cmd) = 7
  BY <1>1, <1>2 DEF Serialized, SerializedSize, GetCID, WriteNewChannelReq
<1>4. Readable(c) => /\ c.minDataRate < 16 /\ c.maxDataRate < 16
                     /\ c.frequency % 100 = 0 /\ c.frequency < 100 * 2^24
                     /\ WriteFrequency(c.frequency)[1] = WriteFrequency(c.frequency)[2]
  BY <1>1, Zenon DEF Readable
<1>5. p \in Byte /\ (Readable(c) => p \div 16 = c.maxDataRate /\ p % 16 = c.minDataRate)
  <2>1. c.maxDataRate \in Byte /\ c.minDataRate \in Byte
    BY <1>1
  <2>2. p \in Byte /\ (c.maxDataRate < 16 /\ c.minDataRate < 16 => p \div 16 = c.maxDataRate /\ p % 16 = c.minDataRate)
    BY ONLY <2>1, Nibbles
  <2> QED
    BY ONLY <1>4, <2>2, Zenon
<1>6. Readable(c) => x = y
  BY ONLY <1>2, <1>4
<1>7. Readable(c) => (ReadU16(x, y) * 256 + z) * 100 = c.frequency
  BY ONLY <1>2, <1>4, <1>6, Zenon DEF ReadU16
<1> HIDE DEF i, p
<1>8. s \in Seq(Byte) /\ Len(s) = 6 /\ s[1] = 7 /\ s[2] = i /\ s[3] = x /\ s[4] = y /\ s[5] = z /\ s[6] = p
  <2>1. i \in Byte
    BY <1>1 DEF i
  <2> QED
    BY ONLY <1>2, <1>3, <1>5, <2>1, SmallBytes, SixBytes
<1> HIDE DEF s
<1>9. /\ (s \o tail)[2] = i /\ (s \o tail)[3] = x /\ (s \o tail)[4] = y
      /\ (s \o tail)[5] = z /\ (s \o tail)[6] = p
  BY <1>8, InFront, Zenon
<1>10. Readable(c) => Deserialized(c.cmd, s \o tail) = c
  BY ONLY <1>1, <1>5, <1>7, <1>9 DEF Deserialized, ReadNewChannelReq, i
<1> QED
  BY <1>3, <1>8, <1>10 DEF Survives, s

Command == Uplinks \union Downlinks

LEMMA EverySurvives ==
  ASSUME NEW c \in Command, NEW tail \in Seq(Byte)
  PROVE  Survives(c, tail)
<1>1. \/ c \in Plain \/ c \in LinkCheckAns \/ c \in LinkAdrReq \/ c \in LinkAdrAns \/ c \in DutyCycleReq
      \/ c \in RxParamSetupReq \/ c \in RxParamSetupAns \/ c \in DevStatusAns \/ c \in NewChannelReq
      \/ c \in NewChannelAns \/ c \in RxTimingSetupReq
  <2>1. \A r : r \in [cmd: PlainUp] \/ r \in [cmd: PlainDown] => r \in Plain
    BY DEF Plain
  <2> QED
    BY <2>1, Zenon DEF Command, Uplinks, Downlinks
<1> QED
  BY <1>1, PlainSurvives, LinkCheckAnsSurvives, LinkAdrReqSurvives, LinkAdrAnsSurvives, DutyCycleReqSurvives,
     RxParamSetupReqSurvives, RxParamSetupAnsSurvives, DevStatusAnsSurvives, NewChannelReqSurvives,
     NewChannelAnsSurvives, RxTimingSetupReqSurvives, Zenon

\* The names of the classes, by direction.
UplinkNames == PlainUp \union {"LinkAdrAns", "RxParamSetupAns", "DevStatusAns", "NewChannelAns"}
DownlinkNames ==
  PlainDown \union {"LinkCheckAns", "LinkAdrReq", "DutyCycleReq", "RxParamSetupReq", "NewChannelReq",
                    "RxTimingSetupReq"}

LEMMA NamesOfCommands ==
  /\ \A c \in Uplinks : c.cmd \in UplinkNames
  /\ \A c \in Downlinks : c.cmd \in DownlinkNames
  BY DEF Uplinks, Downlinks, UplinkNames, DownlinkNames, LinkAdrAns, RxParamSetupAns, DevStatusAns,
     NewChannelAns, LinkCheckAns, LinkAdrReq, DutyCycleReq, RxParamSetupReq, NewChannelReq, RxTimingSetupReq

\* An identifier announces the class that wrote it, to a reader of its direction.
LEMMA Announces ==
  ASSUME NEW up \in BOOLEAN, NEW c \in IF up THEN Uplinks ELSE Downlinks, Readable(c)
  PROVE  /\ Announced(GetCID(c.cmd), up) = c.cmd
         /\ c.cmd \notin {"none", "beyond"}
<1>1. c.cmd \notin {"RxTimingSetupAns", "TxParamSetupAns", "TxParamSetupReq", "DlChannelAns"}
  BY Zenon DEF Readable
<1>2. CASE up
  <2>1. c.cmd \in UplinkNames
    BY <1>2, NamesOfCommands
  <2> QED
    BY ONLY <1>1, <1>2, <2>1 DEF Announced, GetCID, UplinkNames, PlainUp
<1>3. CASE ~up
  <2>1. c.cmd \in DownlinkNames
    BY <1>3, NamesOfCommands
  <2> QED
    BY ONLY <1>1, <1>3, <2>1 DEF Announced, GetCID, DownlinkNames, PlainDown
<1> QED
  BY <1>2, <1>3

\* A size is small, and it is that of the command's bytes.
LEMMA SizeBounds == \A cmd : SerializedSize(cmd) \in 1 .. 6
  BY DEF SerializedSize

\* Whatever the bytes are, what is read from enough of them is a command.
LEMMA ReadIsCommand ==
  ASSUME NEW b \in Seq(Byte), NEW cmd \in UplinkNames \union DownlinkNames, SerializedSize(cmd) <= Len(b)
  PROVE  Deserialized(cmd, b) \in Command
<1>1. \A i \in Nat : 1 <= i /\ i <= Len(b) => b[i] \in Byte
  OBVIOUS
<1>2. \A x \in Byte : x \div 16 \in Byte /\ x % 16 \in Byte /\ (x \div 16) % 8 \in Byte /\ x % 64 \in Byte
  <2> DEFINE Small(x) == x \in Nat /\ x < 256
  <2>1. \A x : Small(x) => Small(x \div 16) /\ Small(x % 16) /\ Small((x \div 16) % 8) /\ Small(x % 64)
    BY SMT
  <2>2. \A x : x \in Byte <=> Small(x)
    BY BytesAre
  <2> HIDE DEF Small
  <2> QED
    BY ONLY <2>1, <2>2, Zenon
<1>3. \A x, y \in Byte : ReadU16(x, y) \in U16
  <2>1. \A x, y \in Nat : x < 256 /\ y < 256 => y * 256 + x \in Nat /\ y * 256 + x < 65536
    BY SMT
  <2>2. \A x, y \in Byte : x \in Nat /\ x < 256 /\ y \in Nat /\ y < 256
    BY BytesAre, Zenon
  <2> QED
    BY ONLY <2>1, <2>2, U16Are, SMT DEF ReadU16
<1>4. \A x \in Byte : x \in Nat
  BY BytesAre, Zenon
<1>5. \A x, i : IsSet(x, i) \in BOOLEAN
  BY DEF IsSet
<1>6. CASE SerializedSize(cmd) = 1
  <2>1. cmd \in PlainUp \union PlainDown
    BY <1>6 DEF SerializedSize, UplinkNames, DownlinkNames
  <2>2. Deserialized(cmd, b) = [cmd |-> cmd]
    BY <2>1 DEF Deserialized, PlainUp, PlainDown
  <2>3. [cmd |-> cmd] \in [cmd: PlainUp] \/ [cmd |-> cmd] \in [cmd: PlainDown]
    BY <2>1
  <2> QED
    BY <2>2, <2>3, Zenon DEF Command, Uplinks, Downlinks
<1>7. CASE SerializedSize(cmd) = 2
  <2>1. b[2] \in Byte
    BY <1>1, <1>7
  <2>2. CASE cmd = "LinkAdrAns"
    <3>1. Deserialized(cmd, b) \in LinkAdrAns
      BY ONLY <1>5, <2>2 DEF Deserialized, ReadLinkAdrAns, LinkAdrAns
    <3> QED
      BY <3>1, Zenon DEF Command, Uplinks
  <2>3. CASE cmd = "DutyCycleReq"
    <3>1. Deserialized(cmd, b) \in DutyCycleReq
      BY ONLY <2>1, <2>3 DEF Deserialized, ReadDutyCycleReq, DutyCycleReq
    <3> QED
      BY <3>1, Zenon DEF Command, Downlinks
  <2>4. CASE cmd = "RxParamSetupAns"
    <3>1. Deserialized(cmd, b) \in RxParamSetupAns
      BY ONLY <1>5, <2>4 DEF Deserialized, ReadRxParamSetupAns, RxParamSetupAns
    <3> QED
      BY <3>1, Zenon DEF Command, Uplinks
  <2>5. CASE cmd = "NewChannelAns"
    <3>1. Deserialized(cmd, b) \in NewChannelAns
      BY ONLY <1>5, <2>5 DEF Deserialized, ReadNewChannelAns, NewChannelAns
    <3> QED
      BY <3>1, Zenon DEF Command, Uplinks
  <2>6. CASE cmd = "RxTimingSetupReq"
    <3>1. Deserialized(cmd, b) \in RxTimingSetupReq
      BY ONLY <1>2, <2>1, <2>6 DEF Deserialized, ReadRxTimingSetupReq, RxTimingSetupReq
    <3> QED
      BY <3>1, Zenon DEF Command, Downlinks
  <2> QED
    BY <1>7, <2>2, <2>3, <2>4, <2>5, <2>6 DEF SerializedSize
<1>8. CASE SerializedSize(cmd) = 3
  <2>1. b[2] \in Byte /\ b[3] \in Byte
    BY <1>1, <1>8
  <2>2. CASE cmd = "LinkCheckAns"
    <3>1. Deserialized(cmd, b) \in LinkCheckAns
      BY ONLY <2>1, <2>2 DEF Deserialized, ReadLinkCheckAns, LinkCheckAns
    <3> QED
      BY <3>1, Zenon DEF Command, Downlinks
  <2>3. CASE cmd = "DevStatusAns"
    <3>1. Deserialized(cmd, b) \in DevStatusAns
      BY ONLY <1>2, <2>1, <2>3 DEF Deserialized, ReadDevStatusAns, DevStatusAns
    <3> QED
      BY <3>1, Zenon DEF Command, Uplinks
  <2> QED
    BY <1>8, <2>2, <2>3 DEF SerializedSize
<1>9. CASE SerializedSize(cmd) = 5
  <2>1. b[2] \in Byte /\ b[3] \in Byte /\ b[4] \in Byte /\ b[5] \in Byte
    BY <1>1, <1>9
  <2>2. CASE cmd = "LinkAdrReq"
    <3>1. Deserialized(cmd, b) \in LinkAdrReq
      BY ONLY <1>2, <1>3, <2>1, <2>2 DEF Deserialized, ReadLinkAdrReq, LinkAdrReq
    <3> QED
      BY <3>1, Zenon DEF Command, Downlinks
  <2>3. CASE cmd = "RxParamSetupReq"
    <3> DEFINE Number(x, y, z) == ((x * 256 + y) * 256 + z) * 100
               n == Number(b[3], b[4], b[5])
               o == (b[2] \div 16) % 8
               r == b[2] % 16
    <3>1. \A x, y, z \in Nat : Number(x, y, z) \in Nat
      BY SMT
    <3>2. Deserialized(cmd, b) = ReadRxParamSetupReq(b)
      BY ONLY <2>3 DEF Deserialized
    <3>3. ReadRxParamSetupReq(b) =
            [cmd |-> "RxParamSetupReq", rx1DrOffset |-> o, rx2DataRate |-> r, frequency |-> n]
      BY Zenon DEF ReadRxParamSetupReq
    <3> HIDE DEF Number
    <3>4. o \in Byte /\ r \in Byte /\ n \in Nat
      BY ONLY <1>2, <1>4, <2>1, <3>1, Zenon
    <3> HIDE DEF n, o, r
    <3>5. Deserialized(cmd, b) \in RxParamSetupReq
      BY ONLY <3>2, <3>3, <3>4 DEF RxParamSetupReq, Hertz
    <3> QED
      BY <3>5, Zenon DEF Command, Downlinks
  <2> QED
    BY <1>9, <2>2, <2>3 DEF SerializedSize
<1>10. CASE SerializedSize(cmd) = 6
  <2>1. b[2] \in Byte /\ b[3] \in Byte /\ b[4] \in Byte /\ b[5] \in Byte /\ b[6] \in Byte
    BY <1>1, <1>10
  <2>2. cmd = "NewChannelReq"
    BY <1>10 DEF SerializedSize
  <2>3. Deserialized(cmd, b) \in NewChannelReq
    <3> DEFINE Number(x, y, z) == (ReadU16(x, y) * 256 + z) * 100
               i == b[2]
               n == Number(b[3], b[4], b[5])
               high == b[6] \div 16
               low == b[6] % 16
    <3>1. \A x, y, z \in Nat : Number(x, y, z) \in Nat
      BY SMT DEF ReadU16
    <3>2. Deserialized(cmd, b) = ReadNewChannelReq(b)
      BY ONLY <2>2 DEF Deserialized
    <3>3. ReadNewChannelReq(b) =
            [cmd |-> "NewChannelReq", chIndex |-> i, frequency |-> n, maxDataRate |-> high, minDataRate |-> low]
      BY Zenon DEF ReadNewChannelReq
    <3> HIDE DEF Number
    <3>4. i \in Byte /\ n \in Nat /\ high \in Byte /\ low \in Byte
      BY ONLY <1>2, <1>4, <2>1, <3>1, Zenon
    <3> HIDE DEF i, n, high, low
    <3> QED
      BY ONLY <3>2, <3>3, <3>4 DEF NewChannelReq, Hertz
  <2> QED
    BY <2>3, Zenon DEF Command, Downlinks
<1> QED
  BY <1>6, <1>7, <1>8, <1>9, <1>10 DEF SerializedSize

-----------------------------------------------------------------------------
(* The bytes of a list of commands *)

\* f lists the bytes of the first commands of cs, from none up to k.
BytesUpTo(f, cs, k) == f = [n \in 0 .. k |-> IF n = 0 THEN <<>> ELSE f[n - 1] \o Serialized(cs[n])]

LEMMA BytesUpToExist ==
  ASSUME NEW cs, NEW k \in Nat
  PROVE  \E f : BytesUpTo(f, cs, k)
<1> DEFINE Good == {m \in Nat : \E f : BytesUpTo(f, cs, m)}
<1>1. 0 \in Good
  <2> DEFINE f == [n \in 0 .. 0 |-> <<>>]
  <2>1. f = [n \in 0 .. 0 |-> IF n = 0 THEN <<>> ELSE f[n - 1] \o Serialized(cs[n])]
    OBVIOUS
  <2> QED
    BY <2>1 DEF BytesUpTo
<1>2. ASSUME NEW m \in Good
      PROVE  m + 1 \in Good
  <2>1. m \in Nat /\ m + 1 \in Nat
    OBVIOUS
  <2>2. PICK f : BytesUpTo(f, cs, m)
    OBVIOUS
  <2> DEFINE Next1(g, n) == IF n = 0 THEN <<>> ELSE g[n - 1] \o Serialized(cs[n])
             h == [n \in 0 .. m + 1 |-> IF n = m + 1 THEN Next1(f, n) ELSE f[n]]
  <2>3. \A n \in 0 .. m : f[n] = Next1(f, n)
    BY <2>2 DEF BytesUpTo
  <2>4. \A n \in 0 .. m + 1 : Next1(h, n) = Next1(f, n)
    BY <2>1
  <2>5. \A n \in 0 .. m + 1 : h[n] = Next1(f, n)
    BY <2>1, <2>3
  <2>6. h = [n \in 0 .. m + 1 |-> Next1(h, n)]
    <3>1. \A n \in 0 .. m + 1 : h[n] = Next1(h, n)
      BY <2>4, <2>5
    <3>2. h = [n \in 0 .. m + 1 |-> h[n]]
      OBVIOUS
    <3> HIDE DEF h, Next1
    <3> QED
      BY <3>1, <3>2
  <2>7. BytesUpTo(h, cs, m + 1)
    BY <2>6 DEF BytesUpTo
  <2> HIDE DEF h
  <2> QED
    BY <2>1, <2>7
<1>3. Good = Nat
  <2>1. Good \in SUBSET Nat
    OBVIOUS
  <2> HIDE DEF Good
  <2> QED
    BY <1>1, <1>2, <2>1, EveryNumber
<1> QED
  BY <1>3

\* Two lists with the same first commands have the same bytes for them.
LEMMA BytesUpToAgree ==
  ASSUME NEW cs, NEW ds, NEW k \in Nat, NEW m \in Nat, k <= m, \A n \in 1 .. k : cs[n] = ds[n],
         NEW f, BytesUpTo(f, cs, k), NEW g, BytesUpTo(g, ds, m)
  PROVE  f[k] = g[k]
<1> DEFINE Good == {n \in Nat : n <= k => f[n] = g[n]}
<1>1. /\ \A n \in 0 .. k : f[n] = IF n = 0 THEN <<>> ELSE f[n - 1] \o Serialized(cs[n])
      /\ \A n \in 0 .. m : g[n] = IF n = 0 THEN <<>> ELSE g[n - 1] \o Serialized(ds[n])
  BY DEF BytesUpTo
<1>2. 0 \in Good
  BY <1>1
<1>3. ASSUME NEW n \in Good
      PROVE  n + 1 \in Good
  <2>1. n \in Nat /\ (n <= k => f[n] = g[n])
    OBVIOUS
  <2>2. ASSUME n + 1 <= k
        PROVE  f[n + 1] = g[n + 1]
    <3>1. n + 1 \in 0 .. k /\ n + 1 \in 0 .. m /\ n + 1 \in 1 .. k /\ n + 1 # 0 /\ (n + 1) - 1 = n
      BY <2>1, <2>2
    <3>2. f[n + 1] = f[n] \o Serialized(cs[n + 1]) /\ g[n + 1] = g[n] \o Serialized(ds[n + 1])
      BY ONLY <1>1, <3>1, Zenon
    <3>3. f[n] = g[n]
      BY <2>1, <2>2
    <3> QED
      BY <3>1, <3>2, <3>3
  <2> QED
    BY <2>1, <2>2
<1>4. Good = Nat
  <2>1. Good \in SUBSET Nat
    OBVIOUS
  <2> HIDE DEF Good
  <2> QED
    BY <1>2, <1>3, <2>1, EveryNumber
<1> QED
  BY <1>4

LEMMA OptionsAreBytesUpTo ==
  ASSUME NEW cs, Len(cs) \in Nat
  PROVE  \E f : BytesUpTo(f, cs, Len(cs)) /\ Options(cs) = f[Len(cs)]
<1> DEFINE all == CHOOSE f : BytesUpTo(f, cs, Len(cs))
<1>1. BytesUpTo(all, cs, Len(cs))
  BY BytesUpToExist
<1>2. Options(cs) = all[Len(cs)]
  BY Zenon DEF Options, BytesUpTo
<1> QED
  BY <1>1, <1>2

LEMMA NoOptions == Options(<<>>) = <<>>
<1>1. Len(<<>>) = 0
  OBVIOUS
<1>2. PICK f : BytesUpTo(f, <<>>, 0) /\ Options(<<>>) = f[0]
  BY <1>1, OptionsAreBytesUpTo
<1> QED
  BY <1>2 DEF BytesUpTo

\* A command more is its bytes more, at the end.
LEMMA OneMoreOption ==
  ASSUME NEW cs \in Seq(Command), NEW c \in Command
  PROVE  Options(Append(cs, c)) = Options(cs) \o Serialized(c)
<1> DEFINE ds == Append(cs, c)
           k == Len(cs)
<1>1. k \in Nat /\ Len(ds) = k + 1 /\ ds[k + 1] = c /\ \A n \in 1 .. k : cs[n] = ds[n]
  OBVIOUS
<1>2. PICK f : BytesUpTo(f, cs, k) /\ Options(cs) = f[k]
  BY <1>1, OptionsAreBytesUpTo
<1> HIDE DEF ds
<1>3. PICK g : BytesUpTo(g, ds, k + 1) /\ Options(ds) = g[k + 1]
  BY <1>1, OptionsAreBytesUpTo
<1> HIDE DEF k
<1>4. f[k] = g[k]
  <2>1. k + 1 \in Nat /\ k <= k + 1
    BY <1>1
  <2> QED
    BY ONLY <1>1, <1>2, <1>3, <2>1, BytesUpToAgree
<1>5. g[k + 1] = g[k] \o Serialized(ds[k + 1])
  BY <1>1, <1>3 DEF BytesUpTo
<1> QED
  BY <1>1, <1>2, <1>3, <1>4, <1>5 DEF ds

-----------------------------------------------------------------------------
(* The bytes of the headers *)

LEMMA Joined ==
  ASSUME NEW S, NEW s \in Seq(S), NEW t \in Seq(S)
  PROVE  /\ s \o t \in Seq(S) /\ Len(s \o t) = Len(s) + Len(t) /\ Len(s) \in Nat /\ Len(t) \in Nat
         /\ \A i \in 1 .. Len(s) : (s \o t)[i] = s[i]
         /\ \A i \in 1 .. Len(t) : (s \o t)[i + Len(s)] = t[i]
         /\ SubSeq(s \o t, Len(s) + 1, Len(s \o t)) = t
  OBVIOUS

LEMMA JoinedOnTheRight ==
  \A s, t, u \in Seq(Byte) : (s \o t) \o u = s \o (t \o u)
  OBVIOUS

LEMMA EightInFront ==
  ASSUME NEW s \in Seq(Byte), NEW tail \in Seq(Byte), Len(s) = 8
  PROVE  /\ s \o tail \in Seq(Byte) /\ Len(s \o tail) >= 8
         /\ \A i \in 1 .. 8 : (s \o tail)[i] = s[i]
<1>1. /\ s \o tail \in Seq(Byte) /\ Len(s \o tail) = Len(s) + Len(tail) /\ Len(tail) \in Nat
      /\ \A i \in 1 .. Len(s) : (s \o tail)[i] = s[i]
  BY ONLY s \in Seq(Byte), tail \in Seq(Byte), Joined, Zenon
<1>2. \A l \in Nat : 8 + l >= 8
  OBVIOUS
<1> QED
  BY ONLY <1>1, <1>2, Len(s) = 8, Zenon

LEMMA HeaderFields ==
  ASSUME NEW h \in Header
  PROVE  /\ h = [fixed |-> h.fixed, fOptsLen |-> h.fOptsLen, commands |-> h.commands, isUplink |-> h.isUplink]
         /\ h.fixed \in Fixed /\ h.fOptsLen \in Byte /\ h.commands \in Seq(Command) /\ h.isUplink \in BOOLEAN
  BY DEF Header, Command

LEMMA FixedFields ==
  ASSUME NEW h \in Fixed
  PROVE  /\ h = [mtype |-> h.mtype, major |-> h.major, address |-> h.address, adr |-> h.adr,
                 adrAckReq |-> h.adrAckReq, ack |-> h.ack, fPending |-> h.fPending, fCnt |-> h.fCnt,
                 fPort |-> h.fPort]
         /\ h.mtype \in MType /\ h.major \in 0 .. 3 /\ h.address \in Address /\ h.adr \in BOOLEAN
         /\ h.adrAckReq \in BOOLEAN /\ h.ack \in BOOLEAN /\ h.fPending \in BOOLEAN /\ h.fCnt \in U16
         /\ h.fPort \in Byte
<1>1. \A A, B, C, D, E, F : \A r \in [mtype: A, major: B, address: C, adr: D, adrAckReq: D, ack: D,
                                      fPending: D, fCnt: E, fPort: F] :
         /\ r = [mtype |-> r.mtype, major |-> r.major, address |-> r.address, adr |-> r.adr,
                 adrAckReq |-> r.adrAckReq, ack |-> r.ack, fPending |-> r.fPending, fCnt |-> r.fCnt,
                 fPort |-> r.fPort]
         /\ r.mtype \in A /\ r.major \in B /\ r.address \in C /\ r.adr \in D
         /\ r.adrAckReq \in D /\ r.ack \in D /\ r.fPending \in D /\ r.fCnt \in E /\ r.fPort \in F
  OBVIOUS
<1> QED
  BY ONLY h \in Fixed, <1>1, Zenon DEF Fixed

\* Both headers are eight bytes, and a reader finds every field in them again.
LEMMA HeadersReadBack ==
  ASSUME NEW f \in Header, NEW rest \in Seq(Byte), NEW w, w = HeaderBytes(f) \o rest
  PROVE  /\ HeaderBytes(f) \in Seq(Byte) /\ Len(HeaderBytes(f)) = 8
         /\ w[1] \div 32 = f.fixed.mtype /\ w[1] % 4 = f.fixed.major
         /\ AddressOf(SubSeq(w, 2, 5)) = f.fixed.address
         /\ IsSet(w[6], 6) = f.fixed.adr /\ IsSet(w[6], 5) = f.fixed.adrAckReq
         /\ IsSet(w[6], 4) = f.fixed.ack /\ IsSet(w[6], 3) = f.fixed.fPending
         /\ w[6] % 8 = f.fOptsLen % 8
         /\ ReadU16(w[7], w[8]) = f.fixed.fCnt
<1> DEFINE h == f.fixed
           mac == MacHeader(h)
           b == AddressBytes(h.address)
           ctl == FCtrl(h, f.fOptsLen)
           low == h.fCnt % 256
           high == h.fCnt \div 256
           s == HeaderBytes(f)
<1>1. h \in Fixed /\ f.fOptsLen \in Byte
  BY HeaderFields
<1>2. /\ h.mtype \in MType /\ h.major \in 0 .. 3 /\ h.address \in Address /\ h.adr \in BOOLEAN
      /\ h.adrAckReq \in BOOLEAN /\ h.ack \in BOOLEAN /\ h.fPending \in BOOLEAN /\ h.fCnt \in U16
  BY ONLY <1>1, FixedFields
<1>3. mac \in Byte /\ mac \div 32 = h.mtype /\ mac % 4 = h.major
  <2>1. h.mtype \in Nat /\ h.mtype < 8 /\ h.major \in Nat /\ h.major < 4
    BY ONLY <1>2, SMT DEF MType
  <2> QED
    BY ONLY <2>1, MacHeaderReadsBack, Zenon DEF MacHeader
<1>4. b[1] \in Byte /\ b[2] \in Byte /\ b[3] \in Byte /\ b[4] \in Byte /\ AddressOf(b) = h.address
  BY ONLY <1>2, AddressReadsBack, Zenon
<1>5. /\ ctl \in Byte /\ ctl % 8 = f.fOptsLen % 8
      /\ IsSet(ctl, 6) = h.adr /\ IsSet(ctl, 5) = h.adrAckReq /\ IsSet(ctl, 4) = h.ack
      /\ IsSet(ctl, 3) = h.fPending
  <2> DEFINE len == f.fOptsLen
  <2>1. len \in Byte /\ ctl = FCtrl(h, len)
    BY <1>1
  <2> HIDE DEF mac, b, ctl, low, high, s, h, len
  <2>2. /\ h.adr \in BOOLEAN /\ h.adrAckReq \in BOOLEAN /\ h.ack \in BOOLEAN /\ h.fPending \in BOOLEAN
    BY <1>2
  <2>3. LET n == FCtrl(h, len)
        IN  /\ n \in Byte /\ n % 8 = len % 8
            /\ IsSet(n, 6) = h.adr /\ IsSet(n, 5) = h.adrAckReq
            /\ IsSet(n, 4) = h.ack /\ IsSet(n, 3) = h.fPending
    BY ONLY <2>1, <2>2, FCtrlReadsBack
  <2> QED
    BY ONLY <2>1, <2>3, Zenon DEF len
<1>6. low \in Byte /\ high \in Byte /\ ReadU16(low, high) = h.fCnt
  BY ONLY <1>2, LowAndHigh, Zenon
<1>7. s = <<mac>> \o <<b[1], b[2], b[3], b[4]>> \o <<ctl>> \o <<low, high>>
  <2>1. b = <<b[1], b[2], b[3], b[4]>>
    BY DEF AddressBytes
  <2> HIDE DEF b
  <2>2. s = <<mac>> \o b \o <<ctl>> \o <<low, high>>
    BY Zenon DEF HeaderBytes, WriteU16, b
  <2> QED
    BY ONLY <2>1, <2>2, Zenon
<1> HIDE DEF mac, b, ctl, low, high, s
<1>8. /\ s \in Seq(Byte) /\ Len(s) = 8 /\ s[1] = mac /\ s[2] = b[1] /\ s[3] = b[2] /\ s[4] = b[3]
      /\ s[5] = b[4] /\ s[6] = ctl /\ s[7] = low /\ s[8] = high
  <2> DEFINE b1 == b[1]
             b2 == b[2]
             b3 == b[3]
             b4 == b[4]
  <2>1. b1 \in Byte /\ b2 \in Byte /\ b3 \in Byte /\ b4 \in Byte /\ mac \in Byte /\ ctl \in Byte
        /\ low \in Byte /\ high \in Byte
    BY ONLY <1>3, <1>4, <1>5, <1>6
  <2>2. s = <<mac>> \o <<b1, b2, b3, b4>> \o <<ctl>> \o <<low, high>>
    BY <1>7
  <2> HIDE DEF b1, b2, b3, b4
  <2>3. /\ s \in Seq(Byte) /\ Len(s) = 8 /\ s[1] = mac /\ s[2] = b1 /\ s[3] = b2 /\ s[4] = b3
        /\ s[5] = b4 /\ s[6] = ctl /\ s[7] = low /\ s[8] = high
    BY ONLY <2>1, <2>2
  <2> QED
    BY ONLY <2>3, Zenon DEF b1, b2, b3, b4
<1>9. /\ w \in Seq(Byte) /\ Len(w) >= 8
      /\ w[1] = s[1] /\ w[2] = s[2] /\ w[3] = s[3] /\ w[4] = s[4]
      /\ w[5] = s[5] /\ w[6] = s[6] /\ w[7] = s[7] /\ w[8] = s[8]
  <2>1. w = s \o rest
    BY DEF s
  <2>2. QED
    <3>1. w \in Seq(Byte) /\ Len(w) >= 8 /\ \A i \in 1 .. 8 : w[i] = s[i]
      BY ONLY <1>8, <2>1, EightInFront, rest \in Seq(Byte), Zenon
    <3>2. /\ 1 \in 1 .. 8 /\ 2 \in 1 .. 8 /\ 3 \in 1 .. 8 /\ 4 \in 1 .. 8
          /\ 5 \in 1 .. 8 /\ 6 \in 1 .. 8 /\ 7 \in 1 .. 8 /\ 8 \in 1 .. 8
      OBVIOUS
    <3> QED
      BY ONLY <3>1, <3>2, Zenon
<1>10. /\ w[1] = mac /\ w[2] = b[1] /\ w[3] = b[2] /\ w[4] = b[3] /\ w[5] = b[4] /\ w[6] = ctl
       /\ w[7] = low /\ w[8] = high
  BY ONLY <1>8, <1>9, Zenon
<1>11. AddressOf(SubSeq(w, 2, 5)) = h.address
  <2> DEFINE t == SubSeq(w, 2, 5)
  <2>2. \A S : \A x \in Seq(S) : Len(x) >= 8 => LET y == SubSeq(x, 2, 5)
                                                IN  y[1] = x[2] /\ y[2] = x[3] /\ y[3] = x[4] /\ y[4] = x[5]
    OBVIOUS
  <2>3. t[1] = w[2] /\ t[2] = w[3] /\ t[3] = w[4] /\ t[4] = w[5]
    BY ONLY <1>9, <2>2, Zenon
  <2> HIDE DEF t
  <2>4. AddressOf(t) = AddressOf(b)
    BY ONLY <1>10, <2>3, Zenon DEF AddressOf
  <2> QED
    BY ONLY <1>4, <2>4, Zenon DEF t
<1> QED
  BY ONLY <1>3, <1>5, <1>6, <1>8, <1>10, <1>11, Zenon DEF s

-----------------------------------------------------------------------------
(* Every command of a list has its bytes at its place *)

LaidOut(cs) ==
  /\ Options(cs) \in Seq(Byte) /\ Len(Options(cs)) <= 6 * Len(cs)
  /\ \A k \in 1 .. Len(cs) :
       \E rest \in Seq(Byte) :
         Options(cs) = Options(SubSeq(cs, 1, k - 1)) \o (Serialized(cs[k]) \o rest)

LEMMA SerializedBytes ==
  ASSUME NEW c \in Command
  PROVE  /\ Serialized(c) \in Seq(Byte) /\ Len(Serialized(c)) = SerializedSize(c.cmd)
         /\ SerializedSize(c.cmd) \in 1 .. 6
<1>1. <<>> \in Seq(Byte)
  OBVIOUS
<1> QED
  BY <1>1, EverySurvives, SizeBounds, Zenon DEF Survives

LEMMA NoneLaidOut == LaidOut(<<>>)
<1>1. <<>> \in Seq(Byte) /\ Len(<<>>) = 0 /\ 0 <= 6 * 0 /\ 1 .. 0 = {}
  OBVIOUS
<1> QED
  BY ONLY <1>1, NoOptions DEF LaidOut

LEMMA OneMoreLaidOut ==
  ASSUME NEW cs \in Seq(Command), LaidOut(cs), \A k \in 1 .. Len(cs) : Options(SubSeq(cs, 1, k - 1)) \in Seq(Byte),
         NEW c \in Command
  PROVE  LaidOut(Append(cs, c))
<1> DEFINE ds == Append(cs, c)
           n == Len(cs)
           s == Serialized(c)
           all == Options(cs)
<1>1. /\ n \in Nat /\ Len(ds) = n + 1 /\ ds[n + 1] = c /\ SubSeq(ds, 1, n) = cs
      /\ \A k \in 1 .. n : ds[k] = cs[k] /\ SubSeq(ds, 1, k - 1) = SubSeq(cs, 1, k - 1)
  OBVIOUS
<1>2. s \in Seq(Byte) /\ Len(s) <= 6 /\ Len(s) \in Nat
  BY SerializedBytes
<1>3. Options(ds) = all \o s
  BY OneMoreOption
<1>4. all \in Seq(Byte) /\ Len(all) <= 6 * n
  BY DEF LaidOut
<1>5. Options(ds) \in Seq(Byte) /\ Len(Options(ds)) <= 6 * (n + 1)
  <2> HIDE DEF all, s, n, ds
  <2>1. all \o s \in Seq(Byte) /\ Len(all \o s) = Len(all) + Len(s) /\ Len(all) \in Nat
    BY ONLY <1>2, <1>4, Joined, Zenon
  <2> QED
    BY ONLY <1>1, <1>2, <1>3, <1>4, <2>1
<1>6. ASSUME NEW k \in 1 .. n
      PROVE  \E rest \in Seq(Byte) :
               Options(ds) = Options(SubSeq(ds, 1, k - 1)) \o (Serialized(ds[k]) \o rest)
  <2> DEFINE b == Options(SubSeq(cs, 1, k - 1))
             t == Serialized(cs[k])
  <2>1. PICK rest \in Seq(Byte) : all = b \o (t \o rest)
    BY DEF LaidOut
  <2>2. b \in Seq(Byte) /\ t \in Seq(Byte)
    BY SerializedBytes
  <2>3. Options(SubSeq(ds, 1, k - 1)) = b /\ Serialized(ds[k]) = t
    BY <1>1
  <2> HIDE DEF b, t, all, s, ds
  <2>4. rest \o s \in Seq(Byte) /\ t \o rest \in Seq(Byte)
    BY <1>2, <2>1, <2>2
  <2>5. (b \o (t \o rest)) \o s = b \o (t \o (rest \o s))
    <3>1. b \in Seq(Byte) /\ t \in Seq(Byte) /\ rest \in Seq(Byte) /\ s \in Seq(Byte)
      BY ONLY <1>2, <2>2, rest \in Seq(Byte)
    <3>2. (t \o rest) \o s = t \o (rest \o s)
      BY ONLY <3>1, JoinedOnTheRight, Zenon
    <3> DEFINE x == t \o rest
    <3>3. x \in Seq(Byte)
      BY <2>4
    <3> HIDE DEF x
    <3>4. (b \o x) \o s = b \o (x \o s)
      BY ONLY <3>1, <3>3, JoinedOnTheRight, Zenon
    <3> QED
      BY ONLY <3>2, <3>4, Zenon DEF x
  <2> QED
    BY ONLY <1>3, <2>1, <2>3, <2>4, <2>5, Zenon
<1>7. \E rest \in Seq(Byte) : Options(ds) = Options(SubSeq(ds, 1, (n + 1) - 1)) \o (Serialized(ds[n + 1]) \o rest)
  <2>1. (n + 1) - 1 = n
    BY <1>1
  <2>2. s \o <<>> = s /\ <<>> \in Seq(Byte)
    BY <1>2
  <2> HIDE DEF ds, n, all
  <2> QED
    BY ONLY <1>1, <1>3, <2>1, <2>2, Zenon DEF all, s
<1>8. \A k \in 1 .. n + 1 : k \in 1 .. n \/ k = n + 1
  BY <1>1
<1> HIDE DEF ds, n
<1> QED
  BY ONLY <1>1, <1>5, <1>6, <1>7, <1>8, Zenon DEF LaidOut, ds

LEMMA LastOfList ==
  ASSUME NEW cs \in Seq(Command), NEW k \in 1 .. Len(cs)
  PROVE  /\ SubSeq(cs, 1, k - 1) \in Seq(Command) /\ Len(SubSeq(cs, 1, k - 1)) = k - 1
         /\ cs[k] \in Command
         /\ SubSeq(cs, 1, k) = Append(SubSeq(cs, 1, k - 1), cs[k])
         /\ \A j \in 1 .. k - 1 : SubSeq(SubSeq(cs, 1, k - 1), 1, j) = SubSeq(cs, 1, j)
         /\ SubSeq(cs, 1, Len(cs)) = cs
  OBVIOUS

LEMMA EveryListLaidOut ==
  ASSUME NEW cs \in Seq(Command)
  PROVE  LaidOut(cs)
<1> DEFINE Good == {n \in Nat : \A ds \in Seq(Command) : Len(ds) <= n => LaidOut(ds)}
<1>1. 0 \in Good
  <2>1. \A ds \in Seq(Command) : Len(ds) <= 0 => ds = <<>>
    OBVIOUS
  <2> QED
    BY <2>1, NoneLaidOut
<1>2. ASSUME NEW n \in Good
      PROVE  n + 1 \in Good
  <2>1. n \in Nat
    OBVIOUS
  <2>2. ASSUME NEW ds \in Seq(Command), Len(ds) = n + 1
        PROVE  LaidOut(ds)
    <3> DEFINE es == SubSeq(ds, 1, n)
               c == ds[n + 1]
    <3>1. /\ n + 1 \in 1 .. Len(ds) /\ (n + 1) - 1 = n
      BY <2>1, <2>2
    <3>2. es \in Seq(Command) /\ Len(es) = n /\ c \in Command /\ ds = Append(es, c)
      BY <2>2, <3>1, LastOfList
    <3>3. LaidOut(es)
      <4> HIDE DEF es
      <4>1. n <= n /\ \A xs \in Seq(Command) : Len(xs) <= n => LaidOut(xs)
        BY <2>1
      <4> QED
        BY <3>2, <4>1
    <3>4. \A k \in 1 .. Len(es) : Options(SubSeq(es, 1, k - 1)) \in Seq(Byte)
      <4>1. ASSUME NEW k \in 1 .. Len(es)
            PROVE  LaidOut(SubSeq(es, 1, k - 1))
        <5>1. SubSeq(es, 1, k - 1) \in Seq(Command) /\ Len(SubSeq(es, 1, k - 1)) = k - 1
          BY <3>2, LastOfList, Zenon
        <5>2. k - 1 <= n
          BY <3>2, <2>1
        <5> QED
          BY <5>1, <5>2
      <4> QED
        BY <4>1 DEF LaidOut
    <3> HIDE DEF es, c
    <3> QED
      BY <3>2, <3>3, <3>4, OneMoreLaidOut
  <2>3. ASSUME NEW ds \in Seq(Command), Len(ds) <= n + 1
        PROVE  LaidOut(ds)
    <3>1. Len(ds) \in Nat /\ (Len(ds) <= n \/ Len(ds) = n + 1)
      BY <2>1, <2>3
    <3> QED
      BY <2>2, <3>1
  <2> QED
    BY <2>1, <2>3
<1>3. Good = Nat
  <2>1. Good \in SUBSET Nat
    OBVIOUS
  <2> HIDE DEF Good
  <2> QED
    BY <1>1, <1>2, <2>1, EveryNumber
<1>4. Len(cs) \in Nat /\ Len(cs) <= Len(cs)
  OBVIOUS
<1> QED
  BY <1>3, <1>4

-----------------------------------------------------------------------------
(* The invariant of frames *)

\* The length in the header is that of the commands' bytes, in eight bits.
Counted == frame.fOptsLen = Len(Options(frame.commands)) % 256

\* What is on the wire.
Sent ==
  stage # "writing" =>
    wire = HeaderBytes(frame) \o (Options(frame.commands) \o (<<frame.fixed.fPort>> \o Payload))

Unread == stage \in {"writing", "written"} => pos = 0 /\ byteNumber = 0

FrameInv == HeadersOK /\ Counted /\ Sent /\ Unread /\ LeadingFieldsSurvive

LEMMA HeaderOf ==
  ASSUME NEW fx \in Fixed, NEW l \in Byte, NEW cs \in Seq(Command), NEW up \in BOOLEAN
  PROVE  [fixed |-> fx, fOptsLen |-> l, commands |-> cs, isUplink |-> up] \in Header
  BY DEF Header, Command

LEMMA OtherPort ==
  ASSUME NEW h \in Fixed, NEW p \in Byte
  PROVE  [h EXCEPT !.fPort = p] \in Fixed /\ Leading([h EXCEPT !.fPort = p]) = Leading(h)
         /\ [h EXCEPT !.fPort = p].fPort = p
<1>1. \A A, B, C, D, E, F : \A r \in [mtype: A, major: B, address: C, adr: D, adrAckReq: D, ack: D,
                                      fPending: D, fCnt: E, fPort: F] : \A q \in F :
         LET s == [r EXCEPT !.fPort = q]
         IN  /\ s \in [mtype: A, major: B, address: C, adr: D, adrAckReq: D, ack: D,
                       fPending: D, fCnt: E, fPort: F]
             /\ s.mtype = r.mtype /\ s.major = r.major /\ s.address = r.address /\ s.adr = r.adr
             /\ s.adrAckReq = r.adrAckReq /\ s.ack = r.ack /\ s.fPending = r.fPending /\ s.fCnt = r.fCnt
             /\ s.fPort = q
  OBVIOUS
<1>2. LET s == [h EXCEPT !.fPort = p]
      IN  /\ s \in Fixed
          /\ s.mtype = h.mtype /\ s.major = h.major /\ s.address = h.address /\ s.adr = h.adr
          /\ s.adrAckReq = h.adrAckReq /\ s.ack = h.ack /\ s.fPending = h.fPending /\ s.fCnt = h.fCnt
          /\ s.fPort = p
  BY ONLY h \in Fixed, p \in Byte, <1>1, Zenon DEF Fixed
<1> QED
  BY ONLY <1>2, Zenon DEF Leading

LEMMA FrameInitInv == FrameInit => FrameInv
<1> SUFFICES ASSUME FrameInit PROVE FrameInv
  OBVIOUS
<1>1. PICK h \in Headers :
        frame = [fixed |-> h, fOptsLen |-> 0, commands |-> <<>>, isUplink |-> IsUplink(h.mtype)]
  BY DEF FrameInit
<1>2. frame \in Header
  <2>1. h \in Fixed
    BY HeadersAssumption
  <2>2. 0 \in Byte /\ <<>> \in Seq(Command) /\ IsUplink(h.mtype) \in BOOLEAN
    BY BytesAre DEF IsUplink
  <2> QED
    BY <1>1, <2>1, <2>2, HeaderOf
<1>3. reader = frame /\ wire = <<>> /\ pos = 0 /\ byteNumber = 0 /\ stage = "writing"
  BY DEF FrameInit
<1>4. HeadersOK
  <2>1. <<>> \in Seq(Byte) /\ 0 \in 0 .. Len(<<>>) /\ 0 \in Nat
    OBVIOUS
  <2> QED
    BY <1>2, <1>3, <2>1, Zenon DEF HeadersOK
<1>5. Counted
  <2>1. frame.fOptsLen = 0 /\ frame.commands = <<>>
    BY <1>1
  <2>2. Len(<<>>) % 256 = 0
    OBVIOUS
  <2> QED
    BY ONLY <2>1, <2>2, NoOptions, Zenon DEF Counted
<1> QED
  BY ONLY <1>3, <1>4, <1>5 DEF FrameInv, Sent, Unread, LeadingFieldsSurvive

LEMMA AddCommandInv ==
  ASSUME FrameInv, NEW c \in Commands, AddCommand(c)
  PROVE  FrameInv'
<1> USE DEF FrameInv
<1> DEFINE cs == frame.commands
           n == SerializedSize(c.cmd)
           l == frame.fOptsLen
<1>1. /\ frame \in Header /\ reader \in Header /\ wire \in Seq(Byte) /\ pos \in 0 .. Len(wire)
      /\ byteNumber \in Nat
  BY DEF HeadersOK
<1>2. c \in Command /\ cs \in Seq(Command) /\ l \in Byte /\ frame.fixed \in Fixed /\ frame.isUplink \in BOOLEAN
  BY <1>1, CommandsAssumption, HeaderFields DEF Command
<1>3. frame' = [fixed |-> frame.fixed, fOptsLen |-> (l + n) % 256, commands |-> Append(cs, c),
                isUplink |-> frame.isUplink]
  <2>1. frame' = [frame EXCEPT !.commands = Append(@, c), !.fOptsLen = (@ + n) % 256]
    BY DEF AddCommand
  <2>2. frame = [fixed |-> frame.fixed, fOptsLen |-> frame.fOptsLen, commands |-> frame.commands,
                 isUplink |-> frame.isUplink]
    BY <1>1, HeaderFields
  <2> HIDE DEF n
  <2> QED
    BY <2>1, <2>2
<1>4. n \in 1 .. 6 /\ Serialized(c) \in Seq(Byte) /\ Len(Serialized(c)) = n
  BY <1>2, SerializedBytes
<1>5. (l + n) % 256 \in Byte
  <2>1. l \in Nat /\ n \in Nat
    BY <1>2, <1>4, BytesAre
  <2>2. (l + n) % 256 \in Nat /\ (l + n) % 256 < 256
    BY ONLY <2>1, SMT
  <2> QED
    BY ONLY <2>2, BytesAre, Zenon
<1>6. frame' \in Header
  <2>1. Append(cs, c) \in Seq(Command)
    BY <1>2
  <2> QED
    <3> DEFINE m == (l + n) % 256
    <3>1. m \in Byte /\ frame' = [fixed |-> frame.fixed, fOptsLen |-> m, commands |-> Append(cs, c),
                                 isUplink |-> frame.isUplink]
      BY <1>3, <1>5
    <3> HIDE DEF m
    <3> QED
      BY ONLY <1>2, <2>1, <3>1, HeaderOf, Zenon
<1>7. stage = "writing" /\ stage' = "writing" /\ UNCHANGED <<reader, wire, pos, byteNumber>>
  BY DEF AddCommand
<1>8. HeadersOK'
  BY ONLY <1>1, <1>6, <1>7 DEF HeadersOK
<1>9. Counted'
  <2>1. Options(Append(cs, c)) = Options(cs) \o Serialized(c)
    BY <1>2, OneMoreOption
  <2>2. Options(cs) \in Seq(Byte)
    BY <1>2, EveryListLaidOut DEF LaidOut
  <2>3. Len(Options(Append(cs, c))) = Len(Options(cs)) + n /\ Len(Options(cs)) \in Nat
    BY ONLY <1>4, <2>1, <2>2, Joined, Zenon
  <2>4. l = Len(Options(cs)) % 256
    BY DEF Counted
  <2>5. frame'.fOptsLen = (l + n) % 256 /\ frame'.commands = Append(cs, c)
    BY <1>3
  <2> HIDE DEF n
  <2>7. ((Len(Options(cs)) % 256) + n) % 256 = (Len(Options(cs)) + n) % 256
    <3> DEFINE Wrapped(i, j) == ((i % 256) + j) % 256 = (i + j) % 256
    <3>1. \A i \in Nat, j \in 1 .. 6 : Wrapped(i, j)
      BY SMT
    <3> HIDE DEF Wrapped
    <3>2. Wrapped(Len(Options(cs)), n)
      BY ONLY <1>4, <2>3, <3>1, Zenon
    <3> QED
      BY <3>2 DEF Wrapped
  <2> QED
    BY ONLY <2>3, <2>4, <2>5, <2>7, Zenon DEF Counted
<1> QED
  BY ONLY <1>7, <1>8, <1>9, Unread DEF Sent, Unread, LeadingFieldsSurvive

LEMMA WireOf ==
  ASSUME NEW f \in Header
  PROVE  LET rest == Options(f.commands) \o (<<f.fixed.fPort>> \o Payload)
         IN  /\ rest \in Seq(Byte)
             /\ HeaderBytes(f) \in Seq(Byte) /\ Len(HeaderBytes(f)) = 8
             /\ HeaderBytes(f) \o Options(f.commands) \o <<f.fixed.fPort>> \o Payload = HeaderBytes(f) \o rest
             /\ HeaderBytes(f) \o rest \in Seq(Byte)
<1> DEFINE h == HeaderBytes(f)
           o == Options(f.commands)
           p == <<f.fixed.fPort>>
<1>1. f.commands \in Seq(Command) /\ f.fixed \in Fixed
  BY HeaderFields
<1>2. o \in Seq(Byte)
  BY <1>1, EveryListLaidOut DEF LaidOut
<1>3. p \in Seq(Byte)
  <2>1. f.fixed.fPort \in Byte
    BY <1>1, FixedFields
  <2> QED
    BY <2>1
<1>4. <<>> \in Seq(Byte)
  OBVIOUS
<1>5. h \in Seq(Byte) /\ Len(h) = 8
  BY <1>4, HeadersReadBack
<1> HIDE DEF h, o, p
<1>6. p \o Payload \in Seq(Byte) /\ o \o (p \o Payload) \in Seq(Byte) /\ h \o o \in Seq(Byte)
      /\ h \o (o \o (p \o Payload)) \in Seq(Byte)
  BY ONLY <1>2, <1>3, <1>5, PayloadAssumption
<1>7. ((h \o o) \o p) \o Payload = h \o (o \o (p \o Payload))
  <2>1. ((h \o o) \o p) \o Payload = (h \o o) \o (p \o Payload)
    BY ONLY <1>3, <1>6, PayloadAssumption, JoinedOnTheRight
  <2>2. (h \o o) \o (p \o Payload) = h \o (o \o (p \o Payload))
    BY ONLY <1>2, <1>5, <1>6, JoinedOnTheRight
  <2> QED
    BY ONLY <2>1, <2>2
<1> QED
  BY ONLY <1>5, <1>6, <1>7 DEF h, o, p

LEMMA SerializeInv ==
  ASSUME FrameInv, Serialize
  PROVE  FrameInv'
<1>1. /\ frame \in Header /\ reader \in Header /\ byteNumber \in Nat
      /\ Counted /\ Unread
  BY DEF FrameInv, HeadersOK
<1>2. /\ stage = "writing" /\ stage' = "written" /\ UNCHANGED <<frame, reader, pos, byteNumber>>
      /\ wire' = HeaderBytes(frame) \o Options(frame.commands) \o <<frame.fixed.fPort>> \o Payload
  BY DEF Serialize
<1>3. /\ wire' \in Seq(Byte)
      /\ wire' = HeaderBytes(frame) \o (Options(frame.commands) \o (<<frame.fixed.fPort>> \o Payload))
  BY ONLY <1>1, <1>2, WireOf, Zenon
<1>4. pos' = 0 /\ byteNumber' = 0
  BY <1>1, <1>2 DEF Unread
<1>5. HeadersOK'
  <2>1. 0 \in 0 .. Len(wire')
    BY <1>3
  <2> QED
    BY ONLY <1>1, <1>2, <1>3, <1>4, <2>1 DEF HeadersOK
<1> QED
  BY ONLY <1>1, <1>2, <1>3, <1>4, <1>5 DEF FrameInv, Counted, Sent, Unread, LeadingFieldsSurvive

LEMMA DeserializeInv ==
  ASSUME FrameInv, NEW up \in BOOLEAN, Deserialize(up)
  PROVE  /\ FrameInv'
         /\ reader'.fOptsLen = frame.fOptsLen % 8 /\ reader'.commands = <<>> /\ reader'.isUplink = up
<1> DEFINE f == frame.fixed
           rest == Options(frame.commands) \o (<<frame.fixed.fPort>> \o Payload)
<1>1. /\ frame \in Header /\ reader \in Header /\ wire \in Seq(Byte) /\ byteNumber \in Nat
      /\ Counted /\ Sent /\ Unread
  BY DEF FrameInv, HeadersOK
<1>2. /\ stage = "written" /\ stage' = "reading" /\ pos' = 8 /\ UNCHANGED <<frame, wire, byteNumber>>
  BY DEF Deserialize
<1>3. wire = HeaderBytes(frame) \o rest
  BY <1>1, <1>2 DEF Sent
<1>4. rest \in Seq(Byte)
  BY <1>1, WireOf
<1> HIDE DEF rest
<1>5. /\ wire[1] \div 32 = f.mtype /\ wire[1] % 4 = f.major
      /\ AddressOf(SubSeq(wire, 2, 5)) = f.address
      /\ IsSet(wire[6], 6) = f.adr /\ IsSet(wire[6], 5) = f.adrAckReq
      /\ IsSet(wire[6], 4) = f.ack /\ IsSet(wire[6], 3) = f.fPending
      /\ wire[6] % 8 = frame.fOptsLen % 8
      /\ ReadU16(wire[7], wire[8]) = f.fCnt
      /\ HeaderBytes(frame) \in Seq(Byte) /\ Len(HeaderBytes(frame)) = 8
  <2> DEFINE w == wire
  <2>1. frame \in Header /\ rest \in Seq(Byte) /\ w = HeaderBytes(frame) \o rest
    BY ONLY <1>1, <1>3, <1>4
  <2> HIDE DEF w
  <2> USE DEF f
  <2>2. /\ w[1] \div 32 = f.mtype /\ w[1] % 4 = f.major
        /\ AddressOf(SubSeq(w, 2, 5)) = f.address
        /\ IsSet(w[6], 6) = f.adr /\ IsSet(w[6], 5) = f.adrAckReq
        /\ IsSet(w[6], 4) = f.ack /\ IsSet(w[6], 3) = f.fPending
        /\ w[6] % 8 = frame.fOptsLen % 8
        /\ ReadU16(w[7], w[8]) = f.fCnt
        /\ HeaderBytes(frame) \in Seq(Byte) /\ Len(HeaderBytes(frame)) = 8
    BY ONLY <2>1, HeadersReadBack, Zenon DEF f
  <2> QED
    BY <2>2 DEF w
<1>6. f \in Fixed /\ frame.fOptsLen \in Byte
  BY <1>1, HeaderFields
<1>7. reader' = [fixed |-> [mtype |-> f.mtype, major |-> f.major, address |-> f.address, adr |-> f.adr,
                            adrAckReq |-> f.adrAckReq, ack |-> f.ack, fPending |-> f.fPending,
                            fCnt |-> f.fCnt, fPort |-> 0],
                 fOptsLen |-> frame.fOptsLen % 8, commands |-> <<>>, isUplink |-> up]
  BY <1>5, Zenon DEF Deserialize
<1>8. [mtype |-> f.mtype, major |-> f.major, address |-> f.address, adr |-> f.adr,
       adrAckReq |-> f.adrAckReq, ack |-> f.ack, fPending |-> f.fPending,
       fCnt |-> f.fCnt, fPort |-> 0] = [f EXCEPT !.fPort = 0]
  <2>1. f = [mtype |-> f.mtype, major |-> f.major, address |-> f.address, adr |-> f.adr,
             adrAckReq |-> f.adrAckReq, ack |-> f.ack, fPending |-> f.fPending, fCnt |-> f.fCnt,
             fPort |-> f.fPort]
    BY ONLY <1>6, FixedFields
  <2> HIDE DEF f
  <2> QED
    BY ONLY <2>1
<1>9. reader' = [fixed |-> [f EXCEPT !.fPort = 0], fOptsLen |-> frame.fOptsLen % 8, commands |-> <<>>,
                 isUplink |-> up]
  BY ONLY <1>7, <1>8, Zenon
<1>10. [f EXCEPT !.fPort = 0] \in Fixed /\ Leading([f EXCEPT !.fPort = 0]) = Leading(f)
  <2>1. 0 \in Byte
    BY BytesAre
  <2> QED
    BY ONLY <1>6, <2>1, OtherPort
<1>11. reader' \in Header
  <2>1. frame.fOptsLen % 8 \in Byte
    <3>1. \A l \in Nat : l % 8 \in Nat /\ l % 8 < 256
      BY SMT
    <3> QED
      BY ONLY <1>6, <3>1, BytesAre, Zenon
  <2>2. <<>> \in Seq(Command)
    OBVIOUS
  <2> QED
    BY ONLY <1>9, <1>10, <2>1, <2>2, up \in BOOLEAN, HeaderOf, Zenon
<1>12. 8 \in 0 .. Len(wire)
  <2>1. Len(wire) >= 8
    BY ONLY <1>3, <1>4, <1>5, EightInFront, Zenon
  <2>2. Len(wire) \in Nat
    BY <1>1
  <2> QED
    BY ONLY <2>1, <2>2
<1>13. HeadersOK'
  BY ONLY <1>1, <1>2, <1>11, <1>12 DEF HeadersOK
<1>14. LeadingFieldsSurvive'
  <2>1. reader'.fixed = [f EXCEPT !.fPort = 0]
    BY ONLY <1>9
  <2>2. Leading(reader'.fixed) = Leading(frame'.fixed)
    BY ONLY <1>2, <1>10, <2>1, Zenon
  <2>3. LeadingFieldsSurvive' = (stage' \in {"reading", "done", "endless", "aborted"} =>
                                   Leading(reader'.fixed) = Leading(frame'.fixed))
    BY DEF LeadingFieldsSurvive
  <2> QED
    BY ONLY <2>2, <2>3
<1>15. Counted' /\ Sent' /\ Unread'
  BY ONLY <1>1, <1>2 DEF Counted, Sent, Unread
<1>16. reader'.fOptsLen = frame.fOptsLen % 8 /\ reader'.commands = <<>> /\ reader'.isUplink = up
  BY ONLY <1>9
<1> QED
  BY ONLY <1>13, <1>14, <1>15, <1>16 DEF FrameInv

\* The rest of the packet, and the class of the next command in it.
Rest == SubSeq(wire, pos + 1, Len(wire))
NextCommand == IF Rest = <<>> THEN "beyond" ELSE Announced(Rest[1], reader.isUplink)

LEMMA ReadCommandCases ==
  ASSUME ReadCommand
  PROVE  /\ stage = "reading" /\ byteNumber < reader.fOptsLen /\ UNCHANGED <<frame, wire>>
         /\ \/ NextCommand = "none" /\ stage' = "endless" /\ UNCHANGED <<reader, pos, byteNumber>>
            \/ /\ NextCommand # "none" /\ (SerializedSize(NextCommand) > Len(Rest) \/ NextCommand = "beyond")
               /\ stage' = "aborted" /\ UNCHANGED <<reader, pos, byteNumber>>
            \/ /\ NextCommand \notin {"none", "beyond"} /\ SerializedSize(NextCommand) <= Len(Rest)
               /\ reader' = [reader EXCEPT !.commands = Append(@, Deserialized(NextCommand, Rest))]
               /\ pos' = pos + SerializedSize(NextCommand)
               /\ byteNumber' = byteNumber + SerializedSize(NextCommand)
               /\ stage' = stage
  BY Zenon DEF ReadCommand, Rest, NextCommand

LEMMA RestOfWire ==
  ASSUME NEW w \in Seq(Byte), NEW p \in 0 .. Len(w)
  PROVE  /\ SubSeq(w, p + 1, Len(w)) \in Seq(Byte) /\ Len(SubSeq(w, p + 1, Len(w))) = Len(w) - p
         /\ Len(w) \in Nat /\ p \in Nat
  OBVIOUS

LEMMA AnnouncedNames ==
  \A g, up : Announced(g, up) \notin {"none", "beyond"} => Announced(g, up) \in UplinkNames \union DownlinkNames
  BY DEF Announced, UplinkNames, DownlinkNames, PlainUp, PlainDown

LEMMA ReadCommandInv ==
  ASSUME FrameInv, ReadCommand
  PROVE  FrameInv'
<1> DEFINE cmd == NextCommand
           size == SerializedSize(cmd)
           read == Deserialized(cmd, Rest)
<1>1. /\ frame \in Header /\ reader \in Header /\ wire \in Seq(Byte) /\ byteNumber \in Nat
      /\ pos \in 0 .. Len(wire)
      /\ Counted /\ Sent /\ Unread /\ LeadingFieldsSurvive
  BY DEF FrameInv, HeadersOK
<1>2. stage = "reading" /\ UNCHANGED <<frame, wire>> /\ stage' \in {"reading", "endless", "aborted"}
  BY ReadCommandCases
<1>3. CASE UNCHANGED <<reader, pos, byteNumber>>
  BY ONLY <1>1, <1>2, <1>3 DEF FrameInv, HeadersOK, Counted, Sent, Unread, LeadingFieldsSurvive
<1>4. CASE ~UNCHANGED <<reader, pos, byteNumber>>
  <2>1. /\ cmd \notin {"none", "beyond"} /\ size <= Len(Rest)
        /\ reader' = [reader EXCEPT !.commands = Append(@, read)]
        /\ pos' = pos + size /\ byteNumber' = byteNumber + size
    BY <1>4, ReadCommandCases
  <2>2. Rest \in Seq(Byte) /\ Len(Rest) = Len(wire) - pos /\ Len(wire) \in Nat /\ pos \in Nat
    BY <1>1, RestOfWire DEF Rest
  <2>3. cmd \in UplinkNames \union DownlinkNames
    BY ONLY <2>1, AnnouncedNames DEF NextCommand
  <2>4. size \in 1 .. 6
    BY SizeBounds
  <2>5. read \in Command
    BY ONLY <2>1, <2>2, <2>3, ReadIsCommand
  <2> HIDE DEF cmd, size, read
  <2>6. /\ reader = [fixed |-> reader.fixed, fOptsLen |-> reader.fOptsLen, commands |-> reader.commands,
                     isUplink |-> reader.isUplink]
        /\ reader.fixed \in Fixed /\ reader.fOptsLen \in Byte /\ reader.commands \in Seq(Command)
        /\ reader.isUplink \in BOOLEAN
    BY <1>1, HeaderFields
  <2>7. reader' = [fixed |-> reader.fixed, fOptsLen |-> reader.fOptsLen,
                   commands |-> Append(reader.commands, read), isUplink |-> reader.isUplink]
    BY ONLY <2>1, <2>6
  <2>8. reader' \in Header
    <3>1. Append(reader.commands, read) \in Seq(Command)
      BY ONLY <2>5, <2>6
    <3> QED
      BY ONLY <2>6, <2>7, <3>1, HeaderOf, Zenon
  <2>9. pos' \in 0 .. Len(wire') /\ byteNumber' \in Nat
    <3> DEFINE l == Len(wire)
               r == Len(Rest)
    <3>1. /\ size \in Nat /\ pos \in Nat /\ l \in Nat /\ byteNumber \in Nat /\ r = l - pos /\ size <= r
          /\ pos' = pos + size /\ byteNumber' = byteNumber + size
      BY <1>1, <2>1, <2>2, <2>4
    <3>2. Len(wire') = l
      BY <1>2
    <3> HIDE DEF l, r
    <3> QED
      BY ONLY <3>1, <3>2
  <2>10. HeadersOK'
    BY ONLY <1>1, <1>2, <2>8, <2>9 DEF HeadersOK
  <2>11. reader'.fixed = reader.fixed
    BY ONLY <2>7
  <2> QED
    BY ONLY <1>1, <1>2, <2>10, <2>11 DEF FrameInv, Counted, Sent, Unread, LeadingFieldsSurvive
<1> QED
  BY <1>3, <1>4

LEMMA ReadFPortInv ==
  ASSUME FrameInv, ReadFPort
  PROVE  FrameInv'
<1>1. /\ frame \in Header /\ reader \in Header /\ wire \in Seq(Byte) /\ byteNumber \in Nat
      /\ pos \in 0 .. Len(wire)
      /\ Counted /\ Sent /\ Unread /\ LeadingFieldsSurvive
  BY DEF FrameInv, HeadersOK
<1>2. stage = "reading" /\ UNCHANGED <<frame, wire, byteNumber>> /\ stage' \in {"done", "aborted"}
  BY DEF ReadFPort
<1>3. CASE ~(pos < Len(wire))
  <2>1. UNCHANGED <<reader, pos>>
    BY <1>3 DEF ReadFPort
  <2> QED
    BY ONLY <1>1, <1>2, <2>1 DEF FrameInv, HeadersOK, Counted, Sent, Unread, LeadingFieldsSurvive
<1>4. CASE pos < Len(wire)
  <2> DEFINE p == wire[pos + 1]
  <2>1. reader' = [reader EXCEPT !.fixed.fPort = p] /\ pos' = pos + 1
    BY <1>4 DEF ReadFPort
  <2>2. p \in Byte /\ pos + 1 \in 0 .. Len(wire)
    BY ONLY <1>1, <1>4
  <2> HIDE DEF p
  <2>3. /\ reader = [fixed |-> reader.fixed, fOptsLen |-> reader.fOptsLen, commands |-> reader.commands,
                     isUplink |-> reader.isUplink]
        /\ reader.fixed \in Fixed /\ reader.fOptsLen \in Byte /\ reader.commands \in Seq(Command)
        /\ reader.isUplink \in BOOLEAN
    BY <1>1, HeaderFields
  <2>4. reader' = [fixed |-> [reader.fixed EXCEPT !.fPort = p], fOptsLen |-> reader.fOptsLen,
                   commands |-> reader.commands, isUplink |-> reader.isUplink]
    BY ONLY <2>1, <2>3
  <2>5. /\ [reader.fixed EXCEPT !.fPort = p] \in Fixed
        /\ Leading([reader.fixed EXCEPT !.fPort = p]) = Leading(reader.fixed)
    BY ONLY <2>2, <2>3, OtherPort
  <2>6. reader' \in Header
    BY ONLY <2>3, <2>4, <2>5, HeaderOf, Zenon
  <2>7. HeadersOK'
    BY ONLY <1>1, <1>2, <2>1, <2>2, <2>6 DEF HeadersOK
  <2>8. reader'.fixed = [reader.fixed EXCEPT !.fPort = p]
    BY ONLY <2>4
  <2>9. Leading(reader'.fixed) = Leading(reader.fixed)
    BY ONLY <2>5, <2>8, Zenon
  <2> QED
    BY ONLY <1>1, <1>2, <2>7, <2>9 DEF FrameInv, Counted, Sent, Unread, LeadingFieldsSurvive
<1> QED
  BY <1>3, <1>4

LEMMA FrameStutterInv == FrameInv /\ UNCHANGED frameVars => FrameInv'
  BY DEF FrameInv, HeadersOK, Counted, Sent, Unread, LeadingFieldsSurvive, frameVars

LEMMA FrameNextInv == FrameInv /\ [FrameNext]_frameVars => FrameInv'
<1> SUFFICES ASSUME FrameInv, [FrameNext]_frameVars PROVE FrameInv'
  OBVIOUS
<1>1. CASE UNCHANGED frameVars
  BY <1>1, FrameStutterInv
<1>2. ASSUME NEW c \in Commands, AddCommand(c) PROVE FrameInv'
  BY <1>2, AddCommandInv
<1>3. CASE Serialize
  BY <1>3, SerializeInv
<1>4. ASSUME NEW b \in BOOLEAN, Deserialize(b) PROVE FrameInv'
  BY <1>4, DeserializeInv
<1>5. CASE DeserializeInformed
  <2>1. frame.isUplink \in BOOLEAN
    BY HeaderFields DEF FrameInv, HeadersOK
  <2> QED
    BY <1>4, <1>5, <2>1 DEF DeserializeInformed
<1>6. CASE DeserializeUninformed
  BY <1>4, <1>6 DEF DeserializeUninformed
<1>7. CASE ReadCommand
  BY <1>7, ReadCommandInv
<1>8. CASE ReadFPort
  BY <1>8, ReadFPortInv
<1> QED
  BY <1>1, <1>2, <1>3, <1>5, <1>6, <1>7, <1>8 DEF FrameNext

\* Headers, their fields and the lists of commands keep their types, whatever
\* fields and commands the callers set, and whatever a reader makes of the bytes:
\* also in a reader that takes uplink commands for downlink ones, and with a
\* length of the options that has wrapped, the cursor stays in the packet.
THEOREM HeadersAreTyped == FrameSpec => []HeadersOK
<1>1. FrameInv => HeadersOK
  BY DEF FrameInv
<1> QED
  BY <1>1, FrameInitInv, FrameNextInv, PTL DEF FrameSpec

\* Whoever reads a frame, told the direction or not, has the address, the
\* counter and the flags the writer set (LoraFrameHeader::Deserialize,
\* LoraDeviceAddress::Set): for every address of 32 bits and every counter.
THEOREM LeadingFieldsAlwaysSurvive == FrameSpec => []LeadingFieldsSurvive
<1>1. FrameInv => LeadingFieldsSurvive
  BY DEF FrameInv
<1> QED
  BY <1>1, FrameInitInv, FrameNextInv, PTL DEF FrameSpec

-----------------------------------------------------------------------------
(* A frame is read back *)

\* No more commands than eight bits can count the bytes of.
LengthFits == 6 * MaxCommands <= 255

Listed ==
  /\ frame.commands \in Seq(IF frame.isUplink THEN Uplinks ELSE Downlinks)
  /\ Len(frame.commands) <= MaxCommands

\* A reader of a frame that can be read, which knows its direction.
Told == AllReadable /\ frame.fOptsLen < 8 /\ reader.isUplink = frame.isUplink

\* It has read the first k commands, and stands in front of the next.
ReadSoFar ==
  Told /\ stage = "reading" =>
    /\ reader.fOptsLen = frame.fOptsLen
    /\ \E k \in 0 .. Len(frame.commands) :
         /\ reader.commands = SubSeq(frame.commands, 1, k)
         /\ byteNumber = Len(Options(SubSeq(frame.commands, 1, k)))
         /\ pos = 8 + byteNumber

ReadBackInv == FrameInv /\ Listed /\ ReadSoFar /\ FrameReadsBack

LEMMA TrueLength ==
  ASSUME LengthFits, FrameInv, Listed
  PROVE  /\ frame.fOptsLen = Len(Options(frame.commands))
         /\ frame.commands \in Seq(Command) /\ Options(frame.commands) \in Seq(Byte)
<1> DEFINE l == Len(Options(frame.commands))
           n == Len(frame.commands)
<1>1. frame.commands \in Seq(Command)
  BY HeaderFields DEF FrameInv, HeadersOK
<1>2. Options(frame.commands) \in Seq(Byte) /\ l <= 6 * n
  BY <1>1, EveryListLaidOut DEF LaidOut
<1>3. l \in Nat /\ n \in Nat
  BY <1>1, <1>2
<1>4. n <= MaxCommands /\ MaxCommands \in Nat /\ 6 * MaxCommands <= 255
  BY BoundAssumption DEF Listed, LengthFits
<1>5. frame.fOptsLen = l % 256
  BY DEF FrameInv, Counted
<1> HIDE DEF l, n
<1>6. l % 256 = l
  BY ONLY <1>2, <1>3, <1>4, SMT
<1> QED
  BY ONLY <1>1, <1>2, <1>5, <1>6 DEF l

LEMMA AddCommandListed ==
  ASSUME FrameInv, Listed, NEW c \in Commands, AddCommand(c)
  PROVE  Listed'
<1>1. /\ frame = [fixed |-> frame.fixed, fOptsLen |-> frame.fOptsLen, commands |-> frame.commands,
                  isUplink |-> frame.isUplink]
      /\ frame.commands \in Seq(Command)
  BY HeaderFields DEF FrameInv, HeadersOK
<1>2. frame' = [frame EXCEPT !.commands = Append(@, c), !.fOptsLen = (@ + SerializedSize(c.cmd)) % 256]
      /\ Len(frame.commands) < MaxCommands /\ c \in IF frame.isUplink THEN Uplinks ELSE Downlinks
  BY DEF AddCommand
<1>3. frame'.commands = Append(frame.commands, c) /\ frame'.isUplink = frame.isUplink
  BY ONLY <1>1, <1>2
<1> DEFINE S == IF frame.isUplink THEN Uplinks ELSE Downlinks
<1>4. frame.commands \in Seq(S) /\ c \in S
  BY <1>2 DEF Listed
<1> HIDE DEF S
<1>5. Append(frame.commands, c) \in Seq(S) /\ Len(Append(frame.commands, c)) <= MaxCommands
  BY ONLY <1>2, <1>4, BoundAssumption
<1> QED
  BY ONLY <1>3, <1>5 DEF Listed, S

LEMMA DeserializeReads ==
  ASSUME LengthFits, FrameInv, Listed, NEW up \in BOOLEAN, Deserialize(up)
  PROVE  ReadSoFar' /\ FrameReadsBack'
<1>1. /\ stage' = "reading" /\ pos' = 8 /\ UNCHANGED <<frame, wire, byteNumber>> /\ stage = "written"
      /\ reader'.fOptsLen = frame.fOptsLen % 8 /\ reader'.commands = <<>>
  BY DeserializeInv DEF Deserialize
<1>2. byteNumber = 0 /\ frame.fOptsLen \in Nat /\ frame.commands \in Seq(Command)
  BY <1>1, HeaderFields, BytesAre DEF FrameInv, HeadersOK, Unread
<1>3. frame.fOptsLen < 8 => frame.fOptsLen % 8 = frame.fOptsLen
  BY ONLY <1>2
<1>4. 0 \in 0 .. Len(frame.commands) /\ SubSeq(frame.commands, 1, 0) = <<>>
  BY ONLY <1>2
<1>5. Len(Options(<<>>)) = 0
  BY NoOptions
<1>6. pos' = 8 + byteNumber' /\ byteNumber' = Len(Options(<<>>))
  BY ONLY <1>1, <1>2, <1>5
<1>7. Told' => frame.fOptsLen < 8
  BY ONLY <1>1 DEF Told
<1>8. ReadSoFar'
  BY ONLY <1>1, <1>3, <1>4, <1>6, <1>7, Zenon DEF ReadSoFar
<1>9. FrameReadsBack'
  BY ONLY <1>1 DEF FrameReadsBack
<1> QED
  BY <1>8, <1>9

\* The packet, from where the first k commands end.
LEMMA WireAfter ==
  ASSUME FrameInv, stage # "writing", frame.commands \in Seq(Command),
         NEW b \in Seq(Byte), NEW t \in Seq(Byte), Options(frame.commands) = b \o t,
         pos = 8 + Len(b)
  PROVE  Rest = t \o (<<frame.fixed.fPort>> \o Payload) /\ Rest \in Seq(Byte)
<1> DEFINE h == HeaderBytes(frame)
           o == Options(frame.commands)
           p == <<frame.fixed.fPort>> \o Payload
<1>1. frame \in Header /\ frame.fixed.fPort \in Byte
  BY HeaderFields, FixedFields DEF FrameInv, HeadersOK
<1>2. wire = h \o (o \o p)
  BY DEF FrameInv, Sent
<1>3. h \in Seq(Byte) /\ Len(h) = 8
  BY <1>1, WireOf
<1>4. p \in Seq(Byte)
  BY <1>1, PayloadAssumption
<1> HIDE DEF h, o, p
<1>5. o = b \o t
  BY DEF o
<1>6. (b \o t) \o p = b \o (t \o p) /\ h \o (b \o (t \o p)) = (h \o b) \o (t \o p)
  <2>1. t \o p \in Seq(Byte)
    BY <1>4
  <2> QED
    <3> DEFINE x == t \o p
    <3>1. (b \o t) \o p = b \o x
      BY ONLY <1>4, b \in Seq(Byte), t \in Seq(Byte), JoinedOnTheRight, Zenon
    <3>2. x \in Seq(Byte) /\ h \in Seq(Byte)
      BY <1>3, <2>1
    <3> HIDE DEF x
    <3>3. h \o (b \o x) = (h \o b) \o x
      BY ONLY <3>2, b \in Seq(Byte), JoinedOnTheRight, Zenon
    <3> QED
      BY ONLY <3>1, <3>3, Zenon DEF x
<1>7. wire = (h \o b) \o (t \o p)
  BY ONLY <1>2, <1>5, <1>6, Zenon
<1>8. h \o b \in Seq(Byte) /\ t \o p \in Seq(Byte) /\ Len(h \o b) = Len(h) + Len(b) /\ Len(b) \in Nat
  BY ONLY <1>3, <1>4, b \in Seq(Byte), t \in Seq(Byte), Joined, Zenon
<1>9. Len(h \o b) = pos
  BY ONLY <1>3, <1>8, pos = 8 + Len(b)
<1> DEFINE x == h \o b
           y == t \o p
<1>10. SubSeq(x \o y, Len(x) + 1, Len(x \o y)) = y
  BY ONLY <1>8, Joined, Zenon
<1> QED
  BY ONLY <1>7, <1>8, <1>9, <1>10, Zenon DEF Rest, p

LEMMA ReadCommandReads ==
  ASSUME LengthFits, ReadBackInv, ReadCommand
  PROVE  ReadSoFar' /\ FrameReadsBack'
<1> DEFINE cs == frame.commands
           S == IF frame.isUplink THEN Uplinks ELSE Downlinks
<1>1. /\ stage = "reading" /\ byteNumber < reader.fOptsLen /\ UNCHANGED <<frame, wire>>
      /\ FrameInv /\ Listed /\ ReadSoFar
  BY ReadCommandCases DEF ReadBackInv
<1>2. cs \in Seq(Command) /\ Options(cs) \in Seq(Byte) /\ frame.fOptsLen = Len(Options(cs))
  BY ONLY <1>1, LengthFits, TrueLength
<1>3. /\ reader = [fixed |-> reader.fixed, fOptsLen |-> reader.fOptsLen, commands |-> reader.commands,
                   isUplink |-> reader.isUplink]
      /\ reader.commands \in Seq(Command) /\ frame.isUplink \in BOOLEAN
  BY ONLY <1>1, HeaderFields DEF FrameInv, HeadersOK
<1>4. \/ UNCHANGED <<reader, pos, byteNumber>>
      \/ reader' = [reader EXCEPT !.commands = Append(@, Deserialized(NextCommand, Rest))]
  BY ReadCommandCases
<1>5. reader'.isUplink = reader.isUplink /\ reader'.fOptsLen = reader.fOptsLen
  <2> DEFINE r == Deserialized(NextCommand, Rest)
  <2>1. reader' = reader \/ reader' = [reader EXCEPT !.commands = Append(@, r)]
    BY ONLY <1>4
  <2> HIDE DEF r
  <2> QED
    BY ONLY <1>3, <2>1
<1>6. Told' = Told
  BY ONLY <1>1, <1>5 DEF Told, AllReadable
<1>7. CASE ~Told
  BY ONLY <1>6, <1>7, Zenon DEF ReadSoFar, FrameReadsBack, Told
<1>8. CASE Told
  <2>1. PICK k \in 0 .. Len(cs) :
          /\ reader.commands = SubSeq(cs, 1, k)
          /\ byteNumber = Len(Options(SubSeq(cs, 1, k)))
          /\ pos = 8 + byteNumber
    BY ONLY <1>1, <1>8 DEF ReadSoFar
  <2>2. reader.fOptsLen = frame.fOptsLen
    BY ONLY <1>1, <1>8 DEF ReadSoFar
  <2>3. k # Len(cs)
    <3>1. SubSeq(cs, 1, Len(cs)) = cs /\ Len(Options(cs)) \in Nat
      BY ONLY <1>2
    <3>2. byteNumber < Len(Options(cs))
      BY ONLY <1>1, <1>2, <2>2
    <3> HIDE DEF cs
    <3>3. k = Len(cs) => byteNumber = Len(Options(cs))
      BY ONLY <2>1, <3>1, Zenon
    <3>4. ~(Len(Options(cs)) < Len(Options(cs)))
      BY ONLY <3>1
    <3> QED
      BY ONLY <3>2, <3>3, <3>4, Zenon
  <2>4. k + 1 \in 1 .. Len(cs) /\ (k + 1) - 1 = k /\ k + 1 \in 0 .. Len(cs)
    BY ONLY <1>2, <2>3, k \in 0 .. Len(cs)
  <2> DEFINE c == cs[k + 1]
             b == Options(SubSeq(cs, 1, k))
             s == Serialized(c)
  <2>5. /\ SubSeq(cs, 1, k) \in Seq(Command) /\ c \in Command
        /\ SubSeq(cs, 1, k + 1) = Append(SubSeq(cs, 1, k), c)
    <3> DEFINE n == k + 1
    <3>1. cs \in Seq(Command) /\ n \in 1 .. Len(cs) /\ n - 1 = k
      BY <1>2, <2>4
    <3> HIDE DEF n, cs
    <3>2. /\ SubSeq(cs, 1, n - 1) \in Seq(Command) /\ cs[n] \in Command
          /\ SubSeq(cs, 1, n) = Append(SubSeq(cs, 1, n - 1), cs[n])
      BY ONLY <3>1, LastOfList, Zenon
    <3> QED
      BY ONLY <3>1, <3>2, Zenon DEF n
  <2>6. c \in S /\ Readable(c)
    <3>1. Readable(c)
      BY ONLY <1>8, <2>4, Zenon DEF Told, AllReadable
    <3>2. cs \in Seq(S)
      BY ONLY <1>1 DEF Listed
    <3> HIDE DEF S
    <3>3. c \in S
      BY ONLY <2>4, <3>2
    <3> QED
      BY ONLY <3>1, <3>3
  <2>7. b \in Seq(Byte) /\ s \in Seq(Byte) /\ Len(s) = SerializedSize(c.cmd) /\ Len(s) \in 1 .. 6
    BY ONLY <2>5, EveryListLaidOut, SerializedBytes DEF LaidOut
  <2>8. PICK rest \in Seq(Byte) : Options(cs) = b \o (s \o rest)
    BY ONLY <1>2, <2>4, EveryListLaidOut, Zenon DEF LaidOut
  <2> DEFINE tail == rest \o (<<frame.fixed.fPort>> \o Payload)
  <2>9. tail \in Seq(Byte)
    <3>1. frame.fixed.fPort \in Byte
      BY ONLY <1>1, HeaderFields, FixedFields DEF FrameInv, HeadersOK
    <3> QED
      BY ONLY <3>1, PayloadAssumption, rest \in Seq(Byte)
  <2>10. Rest = s \o tail /\ Rest \in Seq(Byte)
    <3> DEFINE t == s \o rest
               p == <<frame.fixed.fPort>> \o Payload
    <3>1. t \in Seq(Byte) /\ p \in Seq(Byte)
      <4>1. frame.fixed.fPort \in Byte
        BY ONLY <1>1, HeaderFields, FixedFields DEF FrameInv, HeadersOK
      <4> HIDE DEF s
      <4> QED
        BY ONLY <2>7, <4>1, PayloadAssumption, rest \in Seq(Byte)
    <3>2. stage # "writing" /\ Options(cs) = b \o t /\ pos = 8 + Len(b)
      BY ONLY <1>1, <2>1, <2>8
    <3>3. Rest = t \o p /\ Rest \in Seq(Byte)
      BY ONLY <1>1, <1>2, <2>7, <3>1, <3>2, WireAfter, Zenon
    <3> HIDE DEF p, s
    <3>4. (s \o rest) \o p = s \o (rest \o p)
      BY ONLY <2>7, <3>1, rest \in Seq(Byte), JoinedOnTheRight, Zenon
    <3> QED
      BY ONLY <3>3, <3>4, Zenon DEF p
  <2>11. Survives(c, tail)
    BY ONLY <2>5, <2>9, EverySurvives
  <2>12. Rest # <<>> /\ Rest[1] = GetCID(c.cmd) /\ SerializedSize(c.cmd) <= Len(Rest)
    <3>1. s[1] = GetCID(c.cmd)
      BY ONLY <2>11 DEF Survives
    <3> HIDE DEF s, tail, c
    <3>2. Len(s \o tail) = Len(s) + Len(tail) /\ Len(tail) \in Nat /\ \A i \in 1 .. Len(s) : (s \o tail)[i] = s[i]
      <4>1. s \in Seq(Byte) /\ tail \in Seq(Byte)
        BY ONLY <2>7, <2>9
      <4>2. \A x, y \in Seq(Byte) :
              Len(x \o y) = Len(x) + Len(y) /\ Len(y) \in Nat /\ \A i \in 1 .. Len(x) : (x \o y)[i] = x[i]
        BY SMT
      <4> QED
        BY ONLY <4>1, <4>2, Zenon
    <3>3. Len(Rest) = Len(s) + Len(tail) /\ \A i \in 1 .. Len(s) : Rest[i] = s[i]
      BY ONLY <2>10, <3>2, Zenon
    <3>4. 1 \in 1 .. Len(s) /\ Len(s) <= Len(Rest) /\ Len(Rest) > 0
      BY ONLY <2>7, <3>2, <3>3
    <3>5. Rest # <<>>
      <4>1. Len(<<>>) = 0 /\ ~(0 > 0)
        OBVIOUS
      <4> QED
        BY ONLY <3>4, <4>1, Zenon
    <3> QED
      BY ONLY <2>7, <3>1, <3>3, <3>4, <3>5, Zenon
  <2>13. NextCommand = c.cmd /\ c.cmd \notin {"none", "beyond"}
    <3>1. reader.isUplink = frame.isUplink
      BY ONLY <1>8 DEF Told
    <3>2. Announced(GetCID(c.cmd), frame.isUplink) = c.cmd /\ c.cmd \notin {"none", "beyond"}
      BY ONLY <1>3, <2>6, Announces
    <3> QED
      BY ONLY <2>12, <3>1, <3>2, Zenon DEF NextCommand
  <2>14. Deserialized(c.cmd, Rest) = c
    BY ONLY <2>6, <2>10, <2>11, Zenon DEF Survives
  <2>15. /\ reader' = [reader EXCEPT !.commands = Append(@, Deserialized(NextCommand, Rest))]
         /\ pos' = pos + SerializedSize(NextCommand)
         /\ byteNumber' = byteNumber + SerializedSize(NextCommand)
         /\ stage' = stage
    <3>1. Len(Rest) \in Nat /\ SerializedSize(c.cmd) \in 1 .. 6
      BY <2>10, SizeBounds
    <3>2. ~(SerializedSize(c.cmd) > Len(Rest))
      BY ONLY <2>12, <3>1
    <3> HIDE DEF c
    <3> QED
      BY ONLY ReadCommand, <2>13, <3>2, ReadCommandCases, Zenon
  <2> HIDE DEF c, b, s, tail
  <2>16. reader'.commands = SubSeq(cs, 1, k + 1)
    <3>1. reader' = [reader EXCEPT !.commands = Append(@, c)]
      BY ONLY <2>13, <2>14, <2>15, Zenon
    <3>2. reader'.commands = Append(reader.commands, c)
      BY ONLY <1>3, <3>1
    <3> QED
      BY ONLY <2>1, <2>5, <3>2, Zenon
  <2>17. byteNumber' = Len(Options(SubSeq(cs, 1, k + 1))) /\ pos' = 8 + byteNumber'
    <3>1. Options(SubSeq(cs, 1, k + 1)) = b \o s
      BY ONLY <2>5, OneMoreOption, Zenon DEF b, s
    <3>2. Len(b \o s) = Len(b) + Len(s) /\ Len(b) \in Nat
      BY ONLY <2>7, Joined, Zenon
    <3>3. byteNumber = Len(b) /\ pos = 8 + byteNumber
      BY ONLY <2>1 DEF b
    <3>4. byteNumber' = byteNumber + Len(s) /\ pos' = pos + Len(s)
      BY ONLY <2>7, <2>13, <2>15, Zenon
    <3> QED
      BY ONLY <2>7, <3>1, <3>2, <3>3, <3>4
  <2>18. ReadSoFar'
    <3>1. reader'.fOptsLen = frame'.fOptsLen /\ frame'.commands = cs
      BY ONLY <1>1, <1>5, <2>2
    <3> HIDE DEF cs
    <3>2. k + 1 \in 0 .. Len(frame'.commands) /\ reader'.commands = SubSeq(frame'.commands, 1, k + 1)
          /\ byteNumber' = Len(Options(SubSeq(frame'.commands, 1, k + 1))) /\ pos' = 8 + byteNumber'
      BY ONLY <2>4, <2>16, <2>17, <3>1, Zenon
    <3> QED
      BY ONLY <3>1, <3>2, Zenon DEF ReadSoFar
  <2>19. FrameReadsBack'
    <3>1. stage' = "reading"
      BY ONLY <1>1, <2>15
    <3> QED
      BY ONLY <3>1 DEF FrameReadsBack
  <2> QED
    BY ONLY <2>18, <2>19
<1> QED
  BY <1>7, <1>8

LEMMA ReadFPortReads ==
  ASSUME LengthFits, ReadBackInv, ReadFPort
  PROVE  ReadSoFar' /\ FrameReadsBack'
<1> DEFINE cs == frame.commands
           all == Options(cs)
           port == frame.fixed.fPort
<1>1. /\ stage = "reading" /\ byteNumber >= reader.fOptsLen /\ UNCHANGED <<frame, wire, byteNumber>>
      /\ stage' \in {"done", "aborted"} /\ FrameInv /\ Listed /\ ReadSoFar
  BY DEF ReadFPort, ReadBackInv
<1>2. cs \in Seq(Command) /\ all \in Seq(Byte) /\ frame.fOptsLen = Len(all)
  BY ONLY <1>1, LengthFits, TrueLength
<1>3. /\ reader = [fixed |-> reader.fixed, fOptsLen |-> reader.fOptsLen, commands |-> reader.commands,
                   isUplink |-> reader.isUplink]
      /\ frame = [fixed |-> frame.fixed, fOptsLen |-> frame.fOptsLen, commands |-> frame.commands,
                  isUplink |-> frame.isUplink]
      /\ reader.fixed \in Fixed /\ frame.fixed \in Fixed /\ reader.isUplink \in BOOLEAN
      /\ frame \in Header
  BY ONLY <1>1, HeaderFields DEF FrameInv, HeadersOK
<1>4. reader'.isUplink = reader.isUplink
  <2> DEFINE p == wire[pos + 1]
  <2>1. reader' = reader \/ reader' = [reader EXCEPT !.fixed.fPort = p]
    BY DEF ReadFPort
  <2> HIDE DEF p
  <2> QED
    BY ONLY <1>3, <2>1
<1>5. Told' = Told
  BY ONLY <1>1, <1>4 DEF Told, AllReadable
<1>6. ReadSoFar'
  BY ONLY <1>1 DEF ReadSoFar
<1>7. CASE ~Told
  BY ONLY <1>5, <1>6, <1>7, Zenon DEF FrameReadsBack, Told
<1>8. CASE Told
  <2>1. PICK k \in 0 .. Len(cs) :
          /\ reader.commands = SubSeq(cs, 1, k)
          /\ byteNumber = Len(Options(SubSeq(cs, 1, k)))
          /\ pos = 8 + byteNumber
    BY ONLY <1>1, <1>8 DEF ReadSoFar
  <2>2. reader.fOptsLen = frame.fOptsLen
    BY ONLY <1>1, <1>8 DEF ReadSoFar
  <2>3. k = Len(cs)
    <3> SUFFICES ASSUME k # Len(cs) PROVE FALSE
      OBVIOUS
    <3> DEFINE b == Options(SubSeq(cs, 1, k))
               s == Serialized(cs[k + 1])
    <3>1. k + 1 \in 1 .. Len(cs) /\ (k + 1) - 1 = k
      BY ONLY <1>2, k # Len(cs), k \in 0 .. Len(cs)
    <3>2. SubSeq(cs, 1, k) \in Seq(Command) /\ cs[k + 1] \in Command
      BY ONLY <1>2, <3>1, LastOfList, Zenon
    <3>3. b \in Seq(Byte) /\ s \in Seq(Byte) /\ Len(s) \in 1 .. 6
      BY ONLY <3>2, EveryListLaidOut, SerializedBytes DEF LaidOut
    <3>4. PICK rest \in Seq(Byte) : all = b \o (s \o rest)
      BY ONLY <1>2, <3>1, EveryListLaidOut, Zenon DEF LaidOut
    <3> HIDE DEF b, s, all
    <3>5. Len(all) = Len(b) + (Len(s) + Len(rest)) /\ Len(b) \in Nat /\ Len(rest) \in Nat
      <4>1. s \o rest \in Seq(Byte) /\ Len(s \o rest) = Len(s) + Len(rest) /\ Len(rest) \in Nat
        BY ONLY <3>3, rest \in Seq(Byte), Joined, Zenon
      <4>2. Len(b \o (s \o rest)) = Len(b) + Len(s \o rest) /\ Len(b) \in Nat
        BY ONLY <3>3, <4>1, Joined, Zenon
      <4> QED
        BY ONLY <3>4, <4>1, <4>2, Zenon
    <3>6. byteNumber = Len(b) /\ byteNumber >= Len(all)
      BY ONLY <1>1, <1>2, <2>1, <2>2 DEF b, all
    <3>7. Len(b) >= Len(all)
      BY ONLY <3>6, Zenon
    <3>8. \A i, j \in Nat, n \in 1 .. 6 : ~(i >= i + (n + j))
      OBVIOUS
    <3> QED
      BY ONLY <3>3, <3>5, <3>7, <3>8, Zenon
  <2>4. reader.commands = cs /\ byteNumber = Len(all) /\ pos = 8 + Len(all)
    <3>1. SubSeq(cs, 1, Len(cs)) = cs
      BY ONLY <1>2
    <3> QED
      BY ONLY <2>1, <2>3, <3>1, Zenon DEF all
  <2>5. port \in Byte
    BY ONLY <1>3, FixedFields
  <2> HIDE DEF port
  <2>6. Rest = <<port>> \o Payload /\ Rest \in Seq(Byte)
    <3>1. <<>> \in Seq(Byte) /\ all \o <<>> = all /\ stage # "writing"
      BY ONLY <1>1, <1>2
    <3>2. Rest = <<>> \o (<<port>> \o Payload) /\ Rest \in Seq(Byte)
      BY ONLY <1>1, <1>2, <2>4, <3>1, WireAfter, Zenon DEF port
    <3>3. <<>> \o (<<port>> \o Payload) = <<port>> \o Payload
      BY ONLY <2>5, PayloadAssumption
    <3> QED
      BY ONLY <3>2, <3>3, Zenon
  <2>7. wire \in Seq(Byte) /\ pos \in 0 .. Len(wire)
    BY ONLY <1>1 DEF FrameInv, HeadersOK
  <2>8. pos < Len(wire) /\ wire[pos + 1] = port /\ SubSeq(wire, pos + 2, Len(wire)) = Payload
    <3>1. Len(<<port>> \o Payload) >= 1 /\ (<<port>> \o Payload)[1] = port
          /\ SubSeq(<<port>> \o Payload, 2, Len(<<port>> \o Payload)) = Payload
      BY ONLY <2>5, PayloadAssumption
    <3>2. Len(Rest) >= 1 /\ Rest[1] = port /\ SubSeq(Rest, 2, Len(Rest)) = Payload
      BY ONLY <2>6, <3>1, Zenon
    <3>3. \A w \in Seq(Byte) : \A p \in 0 .. Len(w) :
             LET r == SubSeq(w, p + 1, Len(w))
             IN  Len(r) >= 1 => p < Len(w) /\ r[1] = w[p + 1] /\ SubSeq(r, 2, Len(r)) = SubSeq(w, p + 2, Len(w))
      OBVIOUS
    <3> QED
      BY ONLY <2>7, <3>2, <3>3, Zenon DEF Rest
  <2>9. reader' = [reader EXCEPT !.fixed.fPort = port] /\ stage' = "done" /\ wire' = wire
    BY <2>8 DEF ReadFPort
  <2>10. reader' = frame
    <3>1. reader' = [fixed |-> [reader.fixed EXCEPT !.fPort = port], fOptsLen |-> frame.fOptsLen,
                     commands |-> cs, isUplink |-> frame.isUplink]
      <4>1. reader.isUplink = frame.isUplink
        BY ONLY <1>8 DEF Told
      <4> HIDE DEF cs
      <4> QED
        BY ONLY <1>3, <2>2, <2>4, <2>9, <4>1
    <3>2. [reader.fixed EXCEPT !.fPort = port] = frame.fixed
      <4> DEFINE r == reader.fixed
                 f == frame.fixed
      <4>1. Leading(r) = Leading(f)
        BY ONLY <1>1 DEF FrameInv, LeadingFieldsSurvive
      <4>2. /\ r.mtype = f.mtype /\ r.major = f.major /\ r.address = f.address /\ r.adr = f.adr
            /\ r.adrAckReq = f.adrAckReq /\ r.ack = f.ack /\ r.fPending = f.fPending /\ r.fCnt = f.fCnt
        <5>1. \A a1, a2, a3, a4, a5, a6, a7, a8, b1, b2, b3, b4, b5, b6, b7, b8 :
                <<a1, a2, a3, a4, a5, a6, a7, a8>> = <<b1, b2, b3, b4, b5, b6, b7, b8>> =>
                  a1 = b1 /\ a2 = b2 /\ a3 = b3 /\ a4 = b4 /\ a5 = b5 /\ a6 = b6 /\ a7 = b7 /\ a8 = b8
          OBVIOUS
        <5> HIDE DEF r, f
        <5> QED
          BY ONLY <4>1, <5>1 DEF Leading
      <4>3. /\ r = [mtype |-> r.mtype, major |-> r.major, address |-> r.address, adr |-> r.adr,
                    adrAckReq |-> r.adrAckReq, ack |-> r.ack, fPending |-> r.fPending, fCnt |-> r.fCnt,
                    fPort |-> r.fPort]
            /\ f = [mtype |-> f.mtype, major |-> f.major, address |-> f.address, adr |-> f.adr,
                    adrAckReq |-> f.adrAckReq, ack |-> f.ack, fPending |-> f.fPending, fCnt |-> f.fCnt,
                    fPort |-> f.fPort]
            /\ port = f.fPort
        BY ONLY <1>3, FixedFields DEF port
      <4> HIDE DEF r, f
      <4>4. [r EXCEPT !.fPort = port] = f
        BY ONLY <4>2, <4>3
      <4> QED
        BY ONLY <4>4 DEF r, f
    <3> QED
      BY ONLY <1>3, <3>1, <3>2, Zenon
  <2>11. SubSeq(wire', 10 + reader'.fOptsLen, Len(wire')) = Payload
    <3>1. reader'.fOptsLen = Len(all)
      BY ONLY <1>2, <2>10, Zenon
    <3>2. Len(all) \in Nat
      BY ONLY <1>2
    <3> HIDE DEF all
    <3>3. 10 + Len(all) = pos + 2
      BY ONLY <2>4, <3>2
    <3> QED
      BY ONLY <2>8, <2>9, <3>1, <3>3, Zenon
  <2>12. FrameReadsBack'
    <3>1. frame' = frame /\ stage' = "done"
      BY ONLY <1>1, <2>9
    <3>2. LeftInPacket' = SubSeq(wire', 10 + reader'.fOptsLen, Len(wire'))
      BY DEF LeftInPacket
    <3>3. reader' = frame' /\ LeftInPacket' = Payload
      BY ONLY <2>10, <2>11, <3>1, <3>2, Zenon
    <3> QED
      BY ONLY <3>1, <3>3 DEF FrameReadsBack
  <2> QED
    BY ONLY <1>6, <2>12
<1> QED
  BY <1>7, <1>8

LEMMA ReadBackNext == LengthFits /\ ReadBackInv /\ [FrameNext]_frameVars => ReadBackInv'
<1> SUFFICES ASSUME LengthFits, ReadBackInv, [FrameNext]_frameVars PROVE ReadBackInv'
  OBVIOUS
<1>1. FrameInv /\ Listed /\ ReadSoFar /\ FrameReadsBack /\ FrameInv'
  BY FrameNextInv DEF ReadBackInv
<1>2. UNCHANGED frame => Listed'
  BY ONLY <1>1 DEF Listed
<1>3. CASE UNCHANGED frameVars
  <2>1. ReadSoFar' /\ FrameReadsBack'
    BY ONLY <1>1, <1>3 DEF ReadSoFar, FrameReadsBack, AllReadable, Told, LeftInPacket, frameVars
  <2> QED
    BY <1>1, <1>2, <1>3, <2>1 DEF ReadBackInv, frameVars
<1>4. ASSUME NEW c \in Commands, AddCommand(c) PROVE ReadBackInv'
  <2>1. Listed'
    BY <1>1, <1>4, AddCommandListed
  <2>2. stage' = "writing"
    BY <1>4 DEF AddCommand
  <2>3. ReadSoFar' /\ FrameReadsBack'
    BY ONLY <2>2 DEF ReadSoFar, FrameReadsBack
  <2> QED
    BY <1>1, <2>1, <2>3 DEF ReadBackInv
<1>5. CASE Serialize
  <2>1. stage' = "written" /\ UNCHANGED frame
    BY <1>5 DEF Serialize
  <2>2. ReadSoFar' /\ FrameReadsBack'
    BY ONLY <2>1 DEF ReadSoFar, FrameReadsBack
  <2> QED
    BY <1>1, <1>2, <2>1, <2>2 DEF ReadBackInv
<1>6. ASSUME NEW b \in BOOLEAN, Deserialize(b) PROVE ReadBackInv'
  <2>1. UNCHANGED frame
    BY <1>6 DEF Deserialize
  <2>2. ReadSoFar' /\ FrameReadsBack'
    BY <1>1, <1>6, DeserializeReads
  <2> QED
    BY <1>1, <1>2, <2>1, <2>2 DEF ReadBackInv
<1>7. CASE DeserializeInformed
  <2>1. frame.isUplink \in BOOLEAN
    BY <1>1, HeaderFields DEF FrameInv, HeadersOK
  <2> QED
    BY <1>6, <1>7, <2>1 DEF DeserializeInformed
<1>8. CASE DeserializeUninformed
  BY <1>6, <1>8 DEF DeserializeUninformed
<1>9. CASE ReadCommand
  <2>1. UNCHANGED frame
    BY <1>9 DEF ReadCommand
  <2>2. ReadSoFar' /\ FrameReadsBack'
    BY <1>9, ReadCommandReads
  <2> QED
    BY <1>1, <1>2, <2>1, <2>2 DEF ReadBackInv
<1>10. CASE ReadFPort
  <2>1. UNCHANGED frame
    BY <1>10 DEF ReadFPort
  <2>2. ReadSoFar' /\ FrameReadsBack'
    BY <1>10, ReadFPortReads
  <2> QED
    BY <1>1, <1>2, <2>1, <2>2 DEF ReadBackInv
<1> QED
  BY <1>3, <1>4, <1>5, <1>7, <1>8, <1>9, <1>10 DEF FrameNext

\* A reader that knows the direction gets back the frame that was written, for
\* any fields, any commands that fit theirs and any payload: seven bytes of
\* options at most, and lists so short that their length does not wrap in the
\* eight bits LoraFrameHeader counts it in.
THEOREM FramesReadBack ==
  ASSUME LengthFits
  PROVE  FrameSpec => []FrameReadsBack
<1>1. FrameInit => ReadBackInv
  <2> SUFFICES ASSUME FrameInit PROVE ReadBackInv
    OBVIOUS
  <2>1. FrameInv /\ stage = "writing"
    BY FrameInitInv DEF FrameInit
  <2>2. Listed
    <3>1. frame.commands = <<>>
      BY DEF FrameInit
    <3>2. \A S : <<>> \in Seq(S)
      OBVIOUS
    <3>3. Len(<<>>) <= MaxCommands
      BY BoundAssumption
    <3> QED
      BY ONLY <3>1, <3>2, <3>3, Zenon DEF Listed
  <2>3. ReadSoFar /\ FrameReadsBack
    BY ONLY <2>1 DEF ReadSoFar, FrameReadsBack
  <2> QED
    BY <2>1, <2>2, <2>3 DEF ReadBackInv
<1>2. ReadBackInv /\ [FrameNext]_frameVars => ReadBackInv'
  BY ReadBackNext, LengthFits
<1>3. ReadBackInv => FrameReadsBack
  BY DEF ReadBackInv
<1> QED
  BY <1>1, <1>2, <1>3, PTL DEF FrameSpec
=============================================================================
