---------------------------- MODULE Gateway_proofs ----------------------------
(***************************************************************************)
(* Proofs about Gateway, for any number of reception paths, signals and    *)
(* sub-bands, any duty cycles and any on-air times.                        *)
(***************************************************************************)
EXTENDS Gateway, FiniteSetTheorems, TLAPS

\* The parts of the inductive invariant, of a gateway g.
OnePath(g) == \A p, q \in Busy(g) : g.paths[p] = g.paths[q] => p = q

Counted(g) == g.occupied >= Cardinality(Busy(g))

\* The flag is set exactly while something is on the air.
OneDownlink(g) ==
  Booked => /\ g.transmitting <=> g.txs # {}
            /\ \A m, n \in g.txs : m = n
            /\ g.transmitting => Busy(g) = {}

Good(g) ==
  /\ g \in GatewayType
  /\ Held(g) = g.ending
  /\ OnePath(g)
  /\ Counted(g)
  /\ OneDownlink(g)

IInv == Good(gw)

-----------------------------------------------------------------------------
(* What the operators of the radio do to the paths. *)

LEMMA BusyFinite ==
  ASSUME NEW g PROVE IsFiniteSet(Busy(g)) /\ Cardinality(Busy(g)) \in Nat
<1>1. Busy(g) \subseteq Paths  BY DEF Busy
<1>2. IsFiniteSet(Busy(g))  BY <1>1, GatewayAssumption, FS_Subset DEF GatewayAssumption
<1> QED  BY <1>2, FS_CardinalityType

\* Two gateways with the same busy paths, holding the same, count alike.
LEMMA SamePaths ==
  ASSUME NEW g, NEW h, Good(g),
         h.paths = g.paths, h.ending = g.ending, h.occupied = g.occupied
  PROVE  Busy(h) = Busy(g) /\ Held(h) = h.ending /\ OnePath(h) /\ Counted(h)
BY DEF Good, Busy, Held, OnePath, Counted

LEMMA InterruptGood ==
  ASSUME NEW g, Good(g)
  PROVE  LET h == Interrupt(g)
         IN  /\ h \in GatewayType
             /\ Busy(h) = {} /\ Held(h) = {} /\ h.ending = {}
             /\ h.transmitting = g.transmitting /\ h.txs = g.txs /\ h.wait = g.wait
             /\ OnePath(h) /\ Counted(h)
<1> DEFINE h == Interrupt(g)
<1>1. g \in GatewayType /\ Held(g) = g.ending  BY DEF Good
<1>2. h \in GatewayType  BY <1>1 DEF Interrupt, GatewayType
<1>3. /\ h.paths = [p \in Paths |-> None] /\ h.ending = g.ending \ Held(g)
      /\ h.transmitting = g.transmitting /\ h.txs = g.txs /\ h.wait = g.wait
      /\ h.occupied = g.occupied
  BY <1>1 DEF Interrupt, GatewayType
<1>4. Busy(h) = {}  BY <1>3 DEF Busy
<1>5. Held(h) = {} /\ h.ending = {}  BY <1>1, <1>3, <1>4 DEF Held
<1>6. OnePath(h)  BY <1>4 DEF OnePath
<1>7. Counted(h)
  <2>1. g.occupied >= Cardinality(Busy(g)) /\ g.occupied \in Int
    BY <1>1 DEF Good, Counted, GatewayType
  <2>2. Cardinality(Busy(h)) = 0  BY <1>4, FS_EmptySet
  <2> QED  BY <1>3, <2>1, <2>2, BusyFinite DEF Counted
<1> QED  BY <1>2, <1>3, <1>4, <1>5, <1>6, <1>7

LEMMA MacSendGood ==
  ASSUME NEW g, Good(g), NEW b \in SubBands, NEW d \in TxTimes, Booked => ~g.transmitting
  PROVE  Good(MacSend(g, b, d))
<1>1. CASE g.wait[b] > 0  BY <1>1 DEF MacSend
<1>2. CASE ~(g.wait[b] > 0)
  <2> DEFINE h == Interrupt(g)
             k == [h EXCEPT !.transmitting = TRUE, !.txs = @ \cup {d}]
             m == MacSend(g, b, d)
  <2>1. /\ h \in GatewayType
        /\ Busy(h) = {} /\ Held(h) = {} /\ h.ending = {}
        /\ h.transmitting = g.transmitting /\ h.txs = g.txs
        /\ OnePath(h) /\ Counted(h)
    BY InterruptGood
  <2>2. m = [k EXCEPT !.wait[b] = OffTime(b, d)]  BY <1>2 DEF MacSend, PhySend
  <2>3. d \in Nat \ {0} /\ OffTime(b, d) \in Nat
    <3>1. d \in Nat \ {0} /\ DutyDiv[b] \in Nat \ {0}  BY GatewayAssumption DEF GatewayAssumption
    <3>2. ASSUME NEW x \in Nat \ {0}, NEW y \in Nat \ {0} PROVE x * y - x \in Nat
      <4>1. x * y - x = x * (y - 1) /\ y - 1 \in Nat  OBVIOUS
      <4>2. x * (y - 1) \in Nat  BY <4>1
      <4> QED  BY <4>1, <4>2
    <3> QED  BY <3>1, <3>2 DEF OffTime
  <2> HIDE DEF h
  <2>4. k \in GatewayType  BY <2>1, <2>3 DEF GatewayType
  <2>5. /\ k.paths = h.paths /\ k.ending = h.ending /\ k.occupied = h.occupied
        /\ k.transmitting = TRUE /\ k.txs = h.txs \cup {d}
    BY <2>1 DEF GatewayType
  <2> HIDE DEF k
  <2>6. m \in GatewayType  BY <2>2, <2>3, <2>4 DEF GatewayType
  <2>7. /\ m.paths = h.paths /\ m.ending = h.ending /\ m.occupied = h.occupied
        /\ m.transmitting = TRUE /\ m.txs = g.txs \cup {d}
    BY <2>1, <2>2, <2>4, <2>5 DEF GatewayType
  <2> HIDE DEF m
  <2>8. Busy(m) = Busy(h) /\ Held(m) = m.ending /\ OnePath(m) /\ Counted(m)
    BY <2>1, <2>7 DEF Busy, Held, OnePath, Counted
  <2>9. OneDownlink(m)
    BY <2>1, <2>7, <2>8 DEF OneDownlink, Good
  <2>10. Good(m)  BY <2>6, <2>8, <2>9 DEF Good
  <2> QED  BY <2>10 DEF m
<1> QED  BY <1>1, <1>2

LEMMA TxFinishedGood ==
  ASSUME NEW g, Good(g), 0 \in g.txs PROVE Good(TxFinished(g))
<1> DEFINE h == TxFinished(g)
<1>1. g \in GatewayType  BY DEF Good
<1>2. /\ h \in GatewayType
      /\ h.paths = g.paths /\ h.ending = g.ending /\ h.occupied = g.occupied
      /\ h.transmitting = FALSE /\ h.txs = g.txs \ {0}
  BY <1>1 DEF TxFinished, GatewayType
<1> HIDE DEF h
<1>3. Busy(h) = Busy(g) /\ Held(h) = h.ending /\ OnePath(h) /\ Counted(h)
  BY <1>2, SamePaths
<1>4. OneDownlink(h)  BY <1>2 DEF OneDownlink, Good
<1>5. Good(h)  BY <1>2, <1>3, <1>4 DEF Good
<1> QED  BY <1>5 DEF h

LEMMA LockGood ==
  ASSUME NEW g, Good(g), NEW s \in Signals, s \notin g.ending, NEW d \in RxTimes,
         NEW p \in Paths \ Busy(g), ~g.transmitting
  PROVE  LET h == Lock(g, p, s, d) IN Good(h) /\ Held(h) = Held(g) \cup {s}
<1> DEFINE h == Lock(g, p, s, d)
<1>1. /\ g \in GatewayType /\ Held(g) = g.ending /\ OnePath(g) /\ Counted(g)
      /\ d \in Nat /\ s # None
  BY GatewayAssumption DEF Good, GatewayAssumption
<1>2. /\ h \in GatewayType
      /\ h.paths = [g.paths EXCEPT ![p] = s]
      /\ h.ending = g.ending \cup {s}
      /\ h.occupied = g.occupied + 1
      /\ h.transmitting = g.transmitting /\ h.txs = g.txs
  <2>1. /\ h.paths = [g.paths EXCEPT ![p] = s] /\ h.ending = g.ending \cup {s}
        /\ h.left = [g.left EXCEPT ![s] = d] /\ h.occupied = g.occupied + 1
        /\ h.transmitting = g.transmitting /\ h.txs = g.txs /\ h.wait = g.wait
    BY <1>1 DEF Lock, GatewayType
  <2>2. /\ h.paths \in [Paths -> Signals \cup {None}] /\ h.left \in [Signals -> Nat]
        /\ h.ending \in SUBSET Signals /\ h.occupied \in Int
    BY <1>1, <2>1 DEF GatewayType
  <2>3. h = [paths |-> h.paths, ending |-> h.ending, left |-> h.left, occupied |-> h.occupied,
             transmitting |-> h.transmitting, txs |-> h.txs, wait |-> h.wait]
    <3>1. h = [g EXCEPT !.paths = [g.paths EXCEPT ![p] = s], !.ending = g.ending \cup {s},
                        !.left = [g.left EXCEPT ![s] = d], !.occupied = g.occupied + 1]
      BY <1>1 DEF Lock, GatewayType
    <3>2. g = [paths |-> g.paths, ending |-> g.ending, left |-> g.left, occupied |-> g.occupied,
               transmitting |-> g.transmitting, txs |-> g.txs, wait |-> g.wait]
      BY <1>1 DEF GatewayType
    <3> HIDE DEF h
    <3> QED  BY <2>1, <3>1, <3>2
  <2> HIDE DEF h
  <2> QED  BY <1>1, <2>1, <2>2, <2>3 DEF GatewayType
<1>3. g.paths \in [Paths -> Signals \cup {None}] /\ g.occupied \in Int
  BY <1>1 DEF GatewayType
<1> HIDE DEF h
<1>4. /\ Busy(h) = Busy(g) \cup {p} /\ p \notin Busy(g)
      /\ h.paths[p] = s /\ \A q \in Busy(g) : q # p /\ h.paths[q] = g.paths[q]
  BY <1>1, <1>2, <1>3 DEF Busy
<1>5. Held(h) = Held(g) \cup {s}  BY <1>4 DEF Held
<1>6. \A q \in Busy(g) : g.paths[q] # s  BY <1>1 DEF Held
<1>7. OnePath(h)  BY <1>1, <1>4, <1>6 DEF OnePath
<1>8. Counted(h)
  <2>1. Cardinality(Busy(h)) = Cardinality(Busy(g)) + 1  BY <1>4, BusyFinite, FS_AddElement
  <2> QED  BY <1>1, <1>2, <1>3, <2>1, BusyFinite DEF Counted
<1>9. OneDownlink(h)  BY <1>2 DEF OneDownlink, Good
<1>10. Good(h)  BY <1>1, <1>2, <1>5, <1>7, <1>8, <1>9 DEF Good
<1> QED  BY <1>5, <1>10 DEF h

\* A signal is dropped with its trace, or it begins to be received.
LEMMA StartReceiveGood ==
  ASSUME NEW g, Good(g), NEW s \in Signals, s \notin g.ending, NEW d \in RxTimes,
         NEW strong \in BOOLEAN, NEW r \in StartReceive(g, s, d, strong)
  PROVE  Good(r[1]) /\ Held(g) \subseteq Held(r[1])
<1>1. CASE r[1] = g  BY <1>1
<1>2. CASE ~g.transmitting /\ \E p \in Paths \ Busy(g) : r = <<Lock(g, p, s, d), {}>>
  <2>1. PICK p \in Paths \ Busy(g) : r = <<Lock(g, p, s, d), {}>>  BY <1>2
  <2> QED  BY <1>2, <2>1, LockGood
<1> QED  BY <1>1, <1>2 DEF StartReceive

LEMMA EndReceiveGood ==
  ASSUME NEW g, Good(g), NEW s \in g.ending
  PROVE  LET h == EndReceive(g, s) IN Good(h) /\ Held(h) = Held(g) \ {s}
<1> DEFINE h == EndReceive(g, s)
<1>1. g \in GatewayType /\ Held(g) = g.ending /\ OnePath(g) /\ Counted(g)  BY DEF Good
<1>2. s \in Held(g) /\ s \in Signals  BY <1>1 DEF GatewayType
<1>3. /\ h \in GatewayType
      /\ h.paths = [p \in Paths |-> IF g.paths[p] = s THEN None ELSE g.paths[p]]
      /\ h.ending = g.ending \ {s}
      /\ h.occupied = g.occupied - 1
      /\ h.transmitting = g.transmitting /\ h.txs = g.txs
  <2>1. /\ h.paths = [p \in Paths |-> IF g.paths[p] = s THEN None ELSE g.paths[p]]
        /\ h.ending = g.ending \ {s} /\ h.left = [g.left EXCEPT ![s] = 0]
        /\ h.occupied = g.occupied - 1
        /\ h.transmitting = g.transmitting /\ h.txs = g.txs /\ h.wait = g.wait
    BY <1>1, <1>2 DEF EndReceive, GatewayType
  <2>2. /\ h.paths \in [Paths -> Signals \cup {None}] /\ h.left \in [Signals -> Nat]
        /\ h.ending \in SUBSET Signals /\ h.occupied \in Int
    BY <1>1, <2>1 DEF GatewayType
  <2>3. h = [paths |-> h.paths, ending |-> h.ending, left |-> h.left, occupied |-> h.occupied,
             transmitting |-> h.transmitting, txs |-> h.txs, wait |-> h.wait]
    BY <1>1, <1>2 DEF EndReceive, GatewayType
  <2> HIDE DEF h
  <2> QED  BY <1>1, <2>1, <2>2, <2>3 DEF GatewayType
<1>4. g.paths \in [Paths -> Signals \cup {None}] /\ g.occupied \in Int
  BY <1>1 DEF GatewayType
<1> HIDE DEF h
<1>5. PICK p \in Busy(g) : g.paths[p] = s  BY <1>2 DEF Held
<1>6. \A q \in Busy(g) : q # p => g.paths[q] # s  BY <1>1, <1>5 DEF OnePath
<1>7. /\ Busy(h) = Busy(g) \ {p}
      /\ \A q \in Busy(h) : h.paths[q] = g.paths[q]
  BY <1>3, <1>4, <1>5, <1>6 DEF Busy
<1>8. Held(h) = Held(g) \ {s}  BY <1>5, <1>6, <1>7 DEF Held
<1>9. OnePath(h)  BY <1>1, <1>7 DEF OnePath
<1>10. Counted(h)
  <2>1. Cardinality(Busy(h)) = Cardinality(Busy(g)) - 1
    BY <1>5, <1>7, BusyFinite, FS_RemoveElement
  <2> QED  BY <1>1, <1>3, <1>4, <2>1, BusyFinite DEF Counted
<1>11. OneDownlink(h)  BY <1>3, <1>7 DEF OneDownlink, Good
<1>12. Good(h)  BY <1>1, <1>3, <1>8, <1>9, <1>10, <1>11 DEF Good
<1> QED  BY <1>8, <1>12 DEF h

LEMMA ElapseGood ==
  ASSUME NEW g, Good(g), Settled(g)
  PROVE  Good(Elapse(g)) /\ Held(Elapse(g)) = Held(g)
<1> DEFINE h == Elapse(g)
<1>1. g \in GatewayType  BY DEF Good
<1>2. /\ h.paths = g.paths /\ h.ending = g.ending /\ h.occupied = g.occupied
      /\ h.transmitting = g.transmitting /\ h.txs = {n - 1 : n \in g.txs}
      /\ h.left = [s \in Signals |-> IF s \in g.ending THEN g.left[s] - 1 ELSE g.left[s]]
      /\ h.wait = [b \in SubBands |-> IF g.wait[b] > 0 THEN g.wait[b] - 1 ELSE 0]
      /\ DOMAIN h = DOMAIN g
  BY <1>1 DEF Elapse, GatewayType
<1>3. h.txs \in SUBSET Nat
  BY <1>1, <1>2 DEF Settled, GatewayType
<1>4. h.left \in [Signals -> Nat] /\ h.wait \in [SubBands -> Nat]
  BY <1>1, <1>2 DEF Settled, GatewayType
<1>5. h \in GatewayType  BY <1>1, <1>3, <1>4 DEF Elapse, GatewayType
<1> HIDE DEF h
<1>6. Busy(h) = Busy(g) /\ Held(h) = h.ending /\ OnePath(h) /\ Counted(h)
  BY <1>2, SamePaths
<1>7. Held(h) = Held(g)  BY <1>2, <1>6 DEF Good
<1>8. OneDownlink(h)
  <2>1. (g.txs = {}) <=> (h.txs = {})  BY <1>2
  <2>2. (\A m, n \in g.txs : m = n) => \A m, n \in h.txs : m = n  BY <1>2
  <2> QED  BY <1>2, <1>6, <2>1, <2>2 DEF OneDownlink, Good
<1>9. Good(h)  BY <1>5, <1>6, <1>8 DEF Good
<1> QED  BY <1>7, <1>9 DEF h

-----------------------------------------------------------------------------
(* The invariant. *)

LEMMA InitGood == Init => IInv
<1> SUFFICES ASSUME Init PROVE Good(IdleGateway)  BY DEF Init, IInv
<1>1. IdleGateway \in GatewayType  BY DEF IdleGateway, GatewayType
<1>2. Busy(IdleGateway) = {}  BY DEF Busy, IdleGateway
<1>3. Held(IdleGateway) = IdleGateway.ending  BY <1>2 DEF Held, IdleGateway
<1>4. OnePath(IdleGateway)  BY <1>2 DEF OnePath
<1>5. Counted(IdleGateway)
  <2>1. IdleGateway.occupied = 0  BY DEF IdleGateway
  <2> QED  BY <1>2, <2>1, FS_EmptySet DEF Counted
<1>6. OneDownlink(IdleGateway)  BY <1>2 DEF OneDownlink, IdleGateway
<1> QED  BY <1>1, <1>3, <1>4, <1>5, <1>6 DEF Good

LEMMA NextGood == IInv /\ [Next]_vars => IInv'
<1> SUFFICES ASSUME Good(gw), [Next]_vars PROVE Good(gw')  BY DEF IInv, Good
<1>1. ASSUME NEW b \in SubBands, NEW d \in TxTimes, Downlink(b, d) PROVE Good(gw')
  BY <1>1, MacSendGood DEF Downlink
<1>2. ASSUME NEW s \in Signals, NEW d \in RxTimes, NEW strong \in BOOLEAN, Signal(s, d, strong)
      PROVE  Good(gw')
  BY <1>2, StartReceiveGood DEF Signal
<1>3. ASSUME NEW s \in Signals, ReceptionEnds(s) PROVE Good(gw')
  BY <1>3, EndReceiveGood DEF ReceptionEnds
<1>4. CASE TransmissionEnds  BY <1>4, TxFinishedGood DEF TransmissionEnds
<1>5. CASE Tick  BY <1>5, ElapseGood DEF Tick
<1>6. CASE UNCHANGED vars  BY <1>6 DEF vars
<1> QED  BY <1>1, <1>2, <1>3, <1>4, <1>5, <1>6 DEF Next, RunEvent

THEOREM Invariance == Spec => []IInv
BY InitGood, NextGood, PTL DEF Spec

-----------------------------------------------------------------------------
(* The theorems. *)

\* A gateway keeps its type: no reception or transmission ends late, and no
\* waiting time is negative.
THEOREM TypeCorrect == Spec => []TypeOK
<1>1. IInv => TypeOK  BY DEF IInv, Good, TypeOK
<1> QED  BY <1>1, Invariance, PTL

\* A reception path is occupied exactly while the end of its reception is
\* pending, whatever transmissions interrupt it.
THEOREM PathsHeldByEvents == Spec => []PathsFollowEvents
<1>1. IInv => PathsFollowEvents  BY DEF IInv, Good, PathsFollowEvents
<1> QED  BY <1>1, Invariance, PTL

\* No signal occupies two reception paths.
THEOREM NoPathTwice == Spec => []OnePathPerSignal
<1>1. IInv => OnePathPerSignal  BY DEF IInv, Good, OnePath, OnePathPerSignal
<1> QED  BY <1>1, Invariance, PTL

\* The count that is traced is never below the number of occupied paths.
THEOREM CountBoundsPaths == Spec => []CountNotBelow
<1>1. IInv => CountNotBelow  BY DEF IInv, Good, Counted, CountNotBelow
<1> QED  BY <1>1, Invariance, PTL

\* A gateway whose downlinks are booked never receives while it transmits.
THEOREM DeafWhileSending ==
  ASSUME Booked PROVE Spec => []HalfDuplex
<1>1. IInv => HalfDuplex  BY DEF IInv, Good, OneDownlink, HalfDuplex
<1> QED  BY <1>1, Invariance, PTL

\* A reception that ends, by itself or because of a downlink, fires one trace.
THEOREM EndsAreTraced == Spec => EndIsTraced
<1>1. IInv /\ [Next]_vars
        => [\A s \in Signals : s \in Held(gw) /\ s \notin Held(gw') => TracedOnce(s, traces')]_vars
  <2> SUFFICES ASSUME Good(gw), Next, NEW s \in Signals,
                      s \in Held(gw), s \notin Held(gw')
               PROVE  Cardinality({t \in traces' : t[1] = s}) = 1
    BY DEF IInv, TracedOnce
  <2>1. ASSUME NEW b \in SubBands, NEW d \in TxTimes, Downlink(b, d)
        PROVE  {t \in traces' : t[1] = s} = {<<s, "transmitting">>}
    <3>1. ~(gw.wait[b] > 0)  BY <2>1 DEF Downlink, MacSend
    <3>2. traces' = Interrupted(gw)  BY <2>1, <3>1 DEF Downlink
    <3> QED  BY <3>2 DEF Interrupted
  <2>2. ASSUME NEW q \in Signals, NEW d \in RxTimes, NEW strong \in BOOLEAN, Signal(q, d, strong)
        PROVE  FALSE
    BY <2>2, StartReceiveGood DEF Signal
  <2>3. ASSUME NEW q \in Signals, ReceptionEnds(q)
        PROVE  \E what : {t \in traces' : t[1] = s} = {<<s, what>>}
    <3>1. q = s  BY <2>3, EndReceiveGood DEF ReceptionEnds
    <3>2. PICK what : traces' = {<<q, what>>}  BY <2>3 DEF ReceptionEnds
    <3> QED  BY <3>1, <3>2
  <2>4. CASE TransmissionEnds
    <3>1. gw'.paths = gw.paths  BY <2>4 DEF TransmissionEnds, TxFinished, Good, GatewayType
    <3> QED  BY <3>1 DEF Held, Busy
  <2>5. CASE Tick  BY <2>5, ElapseGood DEF Tick
  <2>6. \A x : Cardinality({x}) = 1  BY FS_Singleton
  <2> QED  BY <2>1, <2>2, <2>3, <2>4, <2>5, <2>6 DEF Next, RunEvent
<1> QED  BY <1>1, Invariance, PTL DEF Spec, EndIsTraced
=============================================================================
