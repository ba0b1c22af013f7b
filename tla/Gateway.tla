------------------------------- MODULE Gateway -------------------------------
(***************************************************************************)
(* A LoRaWAN gateway: GatewayLorawanMac on top of SimpleGatewayLoraPhy.    *)
(* The radio has several reception paths (demodulators) that may each lock *)
(* on a signal, and one transmitter that interrupts them all.              *)
(*                                                                         *)
(* A signal stands for the LoraInterferenceHelper::Event of one reception, *)
(* which is what a path remembers and what EndReceive looks for.  The      *)
(* operators take and return the state of a gateway, so that a network of  *)
(* gateways can be composed of them.                                       *)
(***************************************************************************)
EXTENDS Integers, FiniteSets

CONSTANTS
  Paths,         \* m_receptionPaths
  Signals,       \* signals that may arrive
  None,          \* no signal
  SubBands, DutyDiv,   \* sub-bands and 1 / duty cycle of each
  TxTimes,       \* on-air times of downlinks, in ticks
  RxTimes,       \* on-air times of signals
  Booked,        \* downlinks are only handed to a gateway that is not transmitting
  MaxDrift       \* bound of the runs: no downlink once the count has drifted this far

ASSUME GatewayAssumption ==
  /\ None \notin Signals /\ IsFiniteSet(Paths)
  /\ DutyDiv \in [SubBands -> Nat \ {0}]
  /\ TxTimes \subseteq Nat \ {0} /\ RxTimes \subseteq Nat \ {0}
  /\ Booked \in BOOLEAN /\ MaxDrift \in Nat

VARIABLES
  gw,            \* the state of the gateway, see IdleGateway
  traces         \* the trace sources fired by this step: <<signal, what became of it>>
vars == <<gw, traces>>

IdleGateway ==
  [paths        |-> [p \in Paths |-> None],      \* m_event of each path
   ending       |-> {},                          \* signals with an EndReceive pending
   left         |-> [s \in Signals |-> 0],       \* and the ticks left until it runs
   occupied     |-> 0,                           \* m_occupiedReceptionPaths
   transmitting |-> FALSE,                       \* m_isTransmitting
   txs          |-> {},                          \* ticks left until each TxFinished; two that
                                                 \* coincide do what one does
   wait         |-> [b \in SubBands |-> 0]]      \* waiting time of each sub-band

Busy(g) == {p \in Paths : g.paths[p] # None}
Held(g) == {g.paths[p] : p \in Busy(g)}

-----------------------------------------------------------------------------
(* PHY *)

\* Faulty variant: the interrupted packets are not accounted for.
InterruptedSilently(g) == {}

\* A transmission frees every path and cancels what it was receiving.  The
\* count of occupied paths is left as it is.
Interrupt(g) ==
  [g EXCEPT !.paths  = [p \in Paths |-> None],
            !.ending = @ \ Held(g),
            !.left   = [s \in Signals |-> IF s \in Held(g) THEN 0 ELSE @[s]]]

Interrupted(g) == {<<s, "transmitting">> : s \in Held(g)}

PhySend(g, d) ==
  [Interrupt(g) EXCEPT !.transmitting = TRUE, !.txs = @ \cup {d}]

TxFinished(g) == [g EXCEPT !.transmitting = FALSE, !.txs = @ \ {0}]

Lock(g, p, s, d) ==
  [g EXCEPT !.paths[p] = s, !.ending = @ \cup {s}, !.left[s] = d, !.occupied = @ + 1]

\* Faulty variant: a gateway in transmission goes on locking on signals.
StartReceiveWhileSending(g, s, d, strong) ==
  IF Busy(g) = Paths THEN {<<g, {<<s, "demodulators">>}>>}
  ELSE IF ~strong THEN {<<g, {<<s, "sensitivity">>}>>}
  ELSE {<<Lock(g, p, s, d), {}>> : p \in Paths \ Busy(g)}

\* The first path in the list that is available; which one it is makes no
\* difference to anything.
StartReceive(g, s, d, strong) ==
  IF g.transmitting THEN {<<g, {<<s, "transmitting">>}>>}
  ELSE IF Busy(g) = Paths THEN {<<g, {<<s, "demodulators">>}>>}
  ELSE IF ~strong THEN {<<g, {<<s, "sensitivity">>}>>}
  ELSE {<<Lock(g, p, s, d), {}>> : p \in Paths \ Busy(g)}

\* Faulty variant: the path is not freed.
EndReceiveUnfreed(g, s) == [g EXCEPT !.ending = @ \ {s}, !.left[s] = 0]

\* The path locked on the event, if there is one, is freed.
EndReceive(g, s) ==
  LET ended == [g EXCEPT !.ending = @ \ {s}, !.left[s] = 0]
  IN  IF s \in Held(g)
      THEN [ended EXCEPT !.paths = [p \in Paths |-> IF @[p] = s THEN None ELSE @[p]],
                         !.occupied = @ - 1]
      ELSE ended

-----------------------------------------------------------------------------
(* MAC *)

OffTime(b, d) == d * DutyDiv[b] - d

\* A downlink the duty cycle does not allow is dropped, with a warning.
MacSend(g, b, d) ==
  IF g.wait[b] > 0 THEN g ELSE [PhySend(g, d) EXCEPT !.wait[b] = OffTime(b, d)]

\* Nothing is due at this instant, and the state one tick later.
Settled(g) ==
  /\ \A s \in g.ending : g.left[s] > 0
  /\ 0 \notin g.txs

Elapse(g) ==
  [g EXCEPT !.left = [s \in Signals |-> IF s \in g.ending THEN @[s] - 1 ELSE @[s]],
            !.txs  = {n - 1 : n \in @},
            !.wait = [b \in SubBands |-> IF @[b] > 0 THEN @[b] - 1 ELSE 0]]

-----------------------------------------------------------------------------
(* Actions *)

Downlink(b, d) ==
  /\ Booked => ~gw.transmitting
  /\ gw.occupied <= MaxDrift
  /\ gw' = MacSend(gw, b, d)
  /\ traces' = IF gw.wait[b] > 0 THEN {} ELSE Interrupted(gw)

\* A signal is a new one: none the gateway still remembers.
Signal(s, d, strong) ==
  /\ s \notin gw.ending
  /\ \E r \in StartReceive(gw, s, d, strong) : gw' = r[1] /\ traces' = r[2]

ReceptionEnds(s) ==
  /\ s \in gw.ending /\ gw.left[s] = 0
  /\ gw' = EndReceive(gw, s)
  /\ \E what \in {"received", "interfered"} : traces' = {<<s, what>>}

TransmissionEnds ==
  /\ 0 \in gw.txs
  /\ gw' = TxFinished(gw)
  /\ traces' = {}

Tick ==
  /\ Settled(gw)
  /\ gw' = Elapse(gw)
  /\ traces' = {}

RunEvent ==
  \/ \E s \in Signals : ReceptionEnds(s)
  \/ TransmissionEnds

Init == gw = IdleGateway /\ traces = {}

Next ==
  \/ \E b \in SubBands, d \in TxTimes : Downlink(b, d)
  \/ \E s \in Signals, d \in RxTimes, strong \in BOOLEAN : Signal(s, d, strong)
  \/ RunEvent
  \/ Tick

Spec == Init /\ [][Next]_vars
FairSpec == Spec /\ WF_vars(RunEvent) /\ WF_vars(Tick)

-----------------------------------------------------------------------------
(* Properties *)

GatewayType ==
  [paths : [Paths -> Signals \cup {None}], ending : SUBSET Signals, left : [Signals -> Nat],
   occupied : Int, transmitting : BOOLEAN, txs : SUBSET Nat, wait : [SubBands -> Nat]]

TypeOK == gw \in GatewayType

\* A signal is held by a path exactly while its EndReceive is pending: no path
\* is blocked for ever, and none is freed under a reception that goes on.
PathsFollowEvents == Held(gw) = gw.ending

\* No signal occupies two demodulators.
OnePathPerSignal ==
  \A p, q \in Busy(gw) : gw.paths[p] = gw.paths[q] => p = q

\* While a downlink is on the air the gateway is deaf: the flag that makes it
\* drop signals is set and no reception is in progress.
HalfDuplex == gw.txs # {} => gw.transmitting /\ Busy(gw) = {}

\* The traced number of occupied paths never falls below the real one.
CountNotBelow == gw.occupied >= Cardinality(Busy(gw))

TracedOnce(s, ts) == Cardinality({t \in ts : t[1] = s}) = 1

\* A reception that has begun ends with one trace, whatever ends it, so that
\* every packet is accounted for once at each gateway.
EndIsTraced ==
  [][\A s \in Signals : s \in Held(gw) /\ s \notin Held(gw')
       => TracedOnce(s, traces')]_vars

\* No path stays occupied for ever: what it receives ends or is interrupted.
PathsAreFreed == \A s \in Signals : s \in Held(gw) ~> s \notin Held(gw)
=============================================================================
