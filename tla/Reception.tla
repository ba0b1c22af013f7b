------------------------------- MODULE Reception -------------------------------
(* From an antenna to the statistics.  LoraChannel carries a frame to every     *)
(* gateway, each after its own delay.  The radio of a gateway (module Gateway) *)
(* locks a path on it, LoraInterferenceHelper remembers every signal and        *)
(* decides at its end whether it survived the others, and LoraPacketTracker    *)
(* books what became of it and prints its counts every so often.  A device may *)
(* send the same frame again.                                                  *)
EXTENDS AirTime, Sequences, FiniteSetsExt

CONSTANTS
  Frames, Gateways, Paths, None,
  Sf, Frequency, Size,   \* of each frame: spreading factor, channel, bytes
  RxPower,               \* dBm of each frame at each gateway
  Delay,                 \* ticks of propagation of each frame to each gateway
  TickLength,            \* microseconds
  OldEventThreshold,     \* oldEventThreshold, in ticks
  ListLimit,             \* events that are kept however old they are: 100
  RetryDelay,            \* ticks until a device sends again
  TxTimes,               \* ticks that a downlink lasts
  ReportInterval,        \* ticks from one printed line to the next
  MaxSends, MaxTime      \* bounds: attempts of each frame, and ticks

VARIABLES
  now,
  matrix,        \* collisionMatrix
  sends,         \* attempts of each frame, and when the device is done with the last
  coming,        \* the LoraChannel::Receive events that are pending
  radio,         \* the radio of each gateway
  events,        \* m_events of each gateway
  tracker,       \* m_packetTracker and m_macPacketTracker
  report,        \* when the next line is due, and the sums of those printed
  heard          \* every event there ever was and its fate, which nobody remembers

vars == <<now, matrix, sends, coming, radio, events, tracker, report, heard>>

\* One attempt to send a frame.
Transmissions == Frames \X (1 .. MaxSends)

GW == INSTANCE Gateway
        WITH Signals <- Transmissions, SubBands <- {"uplinks"},
             DutyDiv <- [b \in {"uplinks"} |-> 100], RxTimes <- {},
             Booked <- TRUE, MaxDrift <- 0, gw <- radio, traces <- heard

ASSUME FramesAssumption ==
  /\ IsFiniteSet(Frames)
  /\ Sf \in [Frames -> 7 .. 12] /\ Size \in [Frames -> 9 .. 255]
  /\ RxPower \in [Frames -> [Gateways -> Int]] /\ Delay \in [Frames -> [Gateways -> Nat]]
ASSUME TimesAssumption ==
  /\ TickLength \in Nat \ {0} /\ OldEventThreshold \in Nat /\ RetryDelay \in Nat
  /\ TxTimes \subseteq Nat \ {0} /\ ListLimit \in Nat /\ ReportInterval \in Nat \ {0}
  /\ MaxSends \in Nat \ {0} /\ MaxTime \in Nat

Matrices == {"ALOHA", "GOURSAUD"}

\* The air time of each frame, rounded up to whole ticks.
Duration ==
  [f \in Frames |-> (GetOnAirTime(Sf[f], 125000, Size[f], FALSE) + TickLength - 1) \div TickLength]

-------------------------------------------------------------------------------
(* LoraInterferenceHelper.                                                     *)

\* The isolation in dB a signal needs against the others of one spreading factor.
collisionSnirGoursaud ==
  [own \in 7 .. 12 |->
     CASE own = 7 -> <<6, -16, -18, -19, -19, -20>>
       [] own = 8 -> <<-24, 6, -20, -22, -22, -22>>
       [] own = 9 -> <<-27, -27, 6, -23, -25, -25>>
       [] own = 10 -> <<-30, -30, -30, 6, -26, -28>>
       [] own = 11 -> <<-33, -33, -33, -33, 6, -29>>
       [] own = 12 -> <<-36, -36, -36, -36, -36, 6>>]

Decade == <<10000, 12589, 15849, 19953, 25119, 31623, 39811, 50119, 63096, 79433>>

\* 10^(dB/10) in ten-thousandths, for an isolation.
Ratio(dB) ==
  LET down == (-dB + 9) \div 10
  IN  IF dB >= 0 THEN Decade[dB + 1] ELSE Decade[dB + 10 * down + 1] \div 10^down

\* A power as a whole number of units, 10 of which are -142 dBm.
Linear(dBm) == (Decade[((dBm + 142) % 10) + 1] \div 1000) * 10^((dBm + 142) \div 10)

\* snir >= snirIsolation.  Without interference the quotient is infinite.  The
\* least positive number stands for no isolation at all in the matrix of ALOHA,
\* so that a signal of another spreading factor destroys one it is as strong as.
Survives(own, other, signal, interference) ==
  \/ interference = 0
  \/ /\ matrix = "GOURSAUD"
     /\ signal * 10000 >= Ratio(collisionSnirGoursaud[own][other - 6]) * interference
  \/ matrix = "ALOHA" /\ own # other /\ signal > interference

AtMost(a, b) == IF a <= b THEN a ELSE b
AtLeast(a, b) == IF a >= b THEN a ELSE b

GetOverlapTime(e1, e2) ==
  IF e1.end <= e2.start \/ e2.end <= e1.start THEN 0
  ELSE AtMost(e1.end, e2.end) - AtLeast(e1.start, e2.start)

\* The other events of one spreading factor that overlap with an event; the rest
\* would add nothing.
Interferers(e, others, sf) ==
  {o \in others : /\ o.tx # e.tx /\ Sf[o.tx[1]] = sf /\ Frequency[o.tx[1]] = Frequency[e.tx[1]]
                  /\ GetOverlapTime(e, o) > 0}

\* The energy of interferers at a gateway.
cumulativeInterferenceEnergy(g, e, interferers) ==
  MapThenSumSet(LAMBDA o : GetOverlapTime(e, o) * Linear(RxPower[o.tx[1]][g]), interferers)

\* Mutant: only signals that are still on the air are looked at.
DestroyedByThePresent(g, e, others) ==
  LET f == e.tx[1]
      energy == (e.end - e.start) * Linear(RxPower[f][g])
      present == {o \in others : o.end >= e.end}
  IN  {sf \in 7 .. 12 :
         ~Survives(Sf[f], sf, energy, cumulativeInterferenceEnergy(g, e, Interferers(e, present, sf)))} # {}

\* Whether some spreading factor destroys the event.
IsDestroyedByInterference(g, e, others) ==
  LET f == e.tx[1]
      energy == (e.end - e.start) * Linear(RxPower[f][g])
  IN  {sf \in 7 .. 12 :
         ~Survives(Sf[f], sf, energy, cumulativeInterferenceEnergy(g, e, Interferers(e, others, sf)))} # {}

\* Mutant: what has ended is old.
CleanEndedEvents(list) == {e \in list : e.end >= now}

CleanOldEvents(list) == {e \in list : e.end + OldEventThreshold >= now}

\* m_events, of which nothing depends on the order.
Add(list, e) ==
  IF Cardinality(list \union {e}) > ListLimit THEN CleanOldEvents(list \union {e}) ELSE list \union {e}

-------------------------------------------------------------------------------
(* LoraPacketTracker: maps keyed by the frame, whose insert keeps what is there. *)

Never == -1

\* Mutant: the first attempt is not traced.
TransmissionOfRepeats(t, f) ==
  IF t[f].sendTime = Never /\ sends[f].n > 0 THEN [t EXCEPT ![f].sendTime = now] ELSE t

TransmissionCallback(t, f) ==
  IF t[f].sendTime = Never THEN [t EXCEPT ![f].sendTime = now] ELSE t

\* Mutant: one of the callbacks is not connected.
OutcomeUnlessFull(t, f, g, outcome) ==
  IF t[f].outcomes[g] = "UNSET" /\ outcome # "demodulators" THEN [t EXCEPT ![f].outcomes[g] = outcome] ELSE t

\* The five callbacks for what may become of a frame at a gateway.
Outcome(t, f, g, outcome) ==
  IF t[f].outcomes[g] = "UNSET" THEN [t EXCEPT ![f].outcomes[g] = outcome] ELSE t

Outcomes == {"received", "interfered", "demodulators", "sensitivity", "transmitting"}

\* A device's MAC hands the first attempt to its radio.
MacTransmissionCallback(t, f) ==
  IF t[f].macSendTime = Never THEN [t EXCEPT ![f].macSendTime = now] ELSE t

\* The gateway's MAC got the frame.  It aborts when it finds no entry for it.
MacGwReceptionCallback(t, f, g) ==
  IF t[f].receptionTimes[g] = Never THEN [t EXCEPT ![f].receptionTimes[g] = now] ELSE t

\* Install connects the tracker to these trace sources of a gateway's MAC.  The
\* first reports downlinks, which the tracker leaves alone.
ConnectedSources == {"SentNewPacket", "ReceivedPacket"}

\* But what a gateway's MAC fires for a frame is a trace source of its own, which
\* hides the one of LorawanMac and has another name.
Receive(t, f, g) ==
  IF "GWReceivedPacket" \in ConnectedSources THEN MacGwReceptionCallback(t, f, g) ELSE t

Within(time, startTime, stopTime) == time # Never /\ startTime <= time /\ time <= stopTime

SentIn(startTime, stopTime) == {f \in Frames : Within(tracker[f].sendTime, startTime, stopTime)}

\* The frames sent in an interval, and how many of them had each outcome.
CountPhyPacketsPerGw(startTime, stopTime, g) ==
  LET sent == SentIn(startTime, stopTime)
  IN  [sent |-> Cardinality(sent),
       by |-> [o \in Outcomes |-> Cardinality({f \in sent : tracker[f].outcomes[g] = o})]]

\* The same count once more, for a line of the report.
PrintPhyPacketsPerGw(startTime, stopTime, g) == CountPhyPacketsPerGw(startTime, stopTime, g)

\* The frames that devices' MACs sent, and how many of them the MAC of some gateway got.
CountMacPacketsGlobally(startTime, stopTime) ==
  LET sent == {f \in Frames : Within(tracker[f].macSendTime, startTime, stopTime)}
  IN  [sent |-> Cardinality(sent),
       received |-> Cardinality({f \in sent : \E g \in Gateways : tracker[f].receptionTimes[g] # Never})]

\* m_lastPhyPerformanceUpdate and m_lastGlobalPerformanceUpdate.
LastUpdate == report.due - ReportInterval

-------------------------------------------------------------------------------

\* SimpleEndDeviceLoraPhy::Send and LoraChannel::Send: one event per gateway.
\* The tracker hears of it after the channel did.
Send(f) ==
  /\ sends[f].n < MaxSends /\ now >= sends[f].done
  /\ sends' = [sends EXCEPT ![f] = [n |-> @.n + 1, done |-> now + Duration[f] + RetryDelay]]
  /\ coming' = coming \union {[tx |-> <<f, sends[f].n + 1>>, gw |-> g, at |-> now + Delay[f][g]] : g \in Gateways}
  /\ tracker' = TransmissionCallback(IF sends[f].n = 0 THEN MacTransmissionCallback(tracker, f) ELSE tracker, f)
  /\ UNCHANGED <<now, matrix, radio, events, report, heard>>

GatewaySensitivity(sf) == -13000 - 250 * (sf - 7)

\* LoraChannel::Receive and StartReceive.  A gateway that transmits does not
\* even remember the signal as an interferer.
StartReceive(c) ==
  LET f == c.tx[1]
      g == c.gw
      e == [tx |-> c.tx, start |-> now, end |-> now + Duration[f]]
      fate(traces) == IF traces = {} THEN "receiving" ELSE (CHOOSE t \in traces : TRUE)[2]
  IN  /\ c \in coming /\ c.at = now
      /\ coming' = coming \ {c}
      /\ \E r \in GW!StartReceive(radio[g], c.tx, Duration[f], 100 * RxPower[f][g] >= GatewaySensitivity(Sf[f])) :
           /\ radio' = [radio EXCEPT ![g] = r[1]]
           /\ tracker' = IF r[2] = {} THEN tracker ELSE Outcome(tracker, f, g, fate(r[2]))
           /\ heard' = heard \union {[gw |-> g, event |-> e, known |-> ~radio[g].transmitting, fate |-> fate(r[2])]}
      /\ events' = IF radio[g].transmitting THEN events ELSE [events EXCEPT ![g] = Add(@, e)]
      /\ UNCHANGED <<now, matrix, sends, report>>

Settle(h, outcome) == (heard \ {h}) \union {[h EXCEPT !.fate = outcome]}

EndReceive(h) ==
  /\ h \in heard /\ h.fate = "receiving" /\ h.event.end = now
  /\ LET outcome == IF IsDestroyedByInterference(h.gw, h.event, events[h.gw]) THEN "interfered" ELSE "received"
         reported == Outcome(tracker, h.event.tx[1], h.gw, outcome)
     IN  /\ tracker' = IF outcome = "received" THEN Receive(reported, h.event.tx[1], h.gw) ELSE reported
         /\ heard' = Settle(h, outcome)
  /\ radio' = [radio EXCEPT ![h.gw] = GW!EndReceive(@, h.event.tx)]
  /\ UNCHANGED <<now, matrix, sends, coming, events, report>>

\* A downlink interrupts every reception of its gateway.
GatewaySend(g, d) ==
  LET cut == {h \in heard : h.gw = g /\ h.fate = "receiving"}
      traced(t, f) == IF \E h \in cut : h.event.tx[1] = f THEN Outcome(t, f, g, "transmitting")[f] ELSE t[f]
  IN  /\ ~radio[g].transmitting /\ radio[g].wait["uplinks"] = 0
      /\ radio' = [radio EXCEPT ![g] = GW!MacSend(@, "uplinks", d)]
      /\ tracker' = [f \in Frames |-> traced(tracker, f)]
      /\ heard' = (heard \ cut) \union {[h EXCEPT !.fate = "transmitting"] : h \in cut}
      /\ UNCHANGED <<now, matrix, sends, coming, events, report>>

TxFinished(g) ==
  /\ 0 \in radio[g].txs
  /\ radio' = [radio EXCEPT ![g] = GW!TxFinished(@)]
  /\ UNCHANGED <<now, matrix, sends, coming, events, tracker, report, heard>>

\* How many frames of a line have an outcome.
Booked(line) ==
  line.by["received"] + line.by["interfered"] + line.by["demodulators"] + line.by["sensitivity"]
  + line.by["transmitting"]

\* One line per gateway and one for the network, of what was sent since the last.
DoPrintPerformance ==
  /\ report.due = now
  /\ LET line(g) == PrintPhyPacketsPerGw(LastUpdate, now, g)
         global == CountMacPacketsGlobally(LastUpdate, now)
     IN  report' = [due |-> now + ReportInterval,
                    phy |-> [g \in Gateways |-> [sent |-> report.phy[g].sent + line(g).sent,
                                                 booked |-> report.phy[g].booked + Booked(line(g))]],
                    global |-> [n \in {"sent", "received"} |-> report.global[n] + global[n]]]
  /\ UNCHANGED <<now, matrix, sends, coming, radio, events, tracker, heard>>

Tick ==
  /\ now < MaxTime /\ report.due > now
  /\ \A c \in coming : c.at > now
  /\ \A g \in Gateways : GW!Settled(radio[g])
  /\ now' = now + 1
  /\ radio' = [g \in Gateways |-> GW!Elapse(radio[g])]
  /\ UNCHANGED <<matrix, sends, coming, events, tracker, report, heard>>

Init ==
  /\ now = 0
  /\ matrix \in Matrices
  /\ sends = [f \in Frames |-> [n |-> 0, done |-> 0]]
  /\ coming = {}
  /\ radio = [g \in Gateways |-> GW!IdleGateway]
  /\ events = [g \in Gateways |-> {}]
  /\ tracker = [f \in Frames |-> [sendTime |-> Never, outcomes |-> [g \in Gateways |-> "UNSET"],
                                macSendTime |-> Never, receptionTimes |-> [g \in Gateways |-> Never]]]
  /\ report = [due |-> ReportInterval,
               phy |-> [g \in Gateways |-> [sent |-> 0, booked |-> 0]],
               global |-> [n \in {"sent", "received"} |-> 0]]
  /\ heard = {}

Next ==
  \/ \E f \in Frames : Send(f)
  \/ \E c \in coming : StartReceive(c)
  \/ \E h \in heard : EndReceive(h)
  \/ \E g \in Gateways, d \in TxTimes : GatewaySend(g, d)
  \/ \E g \in Gateways : TxFinished(g)
  \/ DoPrintPerformance
  \/ Tick

Spec == Init /\ [][Next]_vars

-------------------------------------------------------------------------------
(* Properties.                                                                 *)

Event == [tx: Transmissions, start: 0 .. MaxTime, end: Nat]

\* Types; and whenever a gateway reports on a frame, the tracker has an entry for
\* it: it writes through the result of find without a look at it.
TypeOK ==
  /\ now \in 0 .. MaxTime /\ matrix \in Matrices
  /\ sends \in [Frames -> [n: 0 .. MaxSends, done: Nat]]
  /\ coming \subseteq [tx: Transmissions, gw: Gateways, at: Nat]
  /\ radio \in [Gateways -> GW!GatewayType]
  /\ events \in [Gateways -> SUBSET Event]
  /\ tracker \in [Frames -> [sendTime: 0 .. MaxTime \union {Never}, outcomes: [Gateways -> Outcomes \union {"UNSET"}],
                           macSendTime: 0 .. MaxTime \union {Never},
                           receptionTimes: [Gateways -> 0 .. MaxTime \union {Never}]]]
  /\ report \in [due: Nat, phy: [Gateways -> [sent: Nat, booked: Nat]],
                 global: [{"sent", "received"} -> Nat]]
  /\ heard \subseteq [gw: Gateways, event: Event, known: BOOLEAN, fate: Outcomes \union {"receiving"}]
  /\ \A f \in Frames : (\E h \in heard : h.event.tx[1] = f) => tracker[f].sendTime # Never

HeardAt(g) == {h.event : h \in {k \in heard : k.gw = g /\ k.known}}

\* A reception that lasts no longer than the threshold is decided with all the
\* signals that overlapped it: none was forgotten since, however many there were.
NoInterfererForgotten ==
  \A h \in heard :
    h.fate = "receiving" /\ h.event.end = now /\ Duration[h.event.tx[1]] <= OldEventThreshold
    => IsDestroyedByInterference(h.gw, h.event, events[h.gw])
       = IsDestroyedByInterference(h.gw, h.event, HeardAt(h.gw))

\* Of two frames of one spreading factor and channel that overlap for more than a
\* quarter of them (in the geometric mean) a gateway receives one at most.
OneSurvives ==
  \A h, k \in heard :
    LET overlap == GetOverlapTime(h.event, k.event)
        f == h.event.tx[1]
        other == k.event.tx[1]
    IN  /\ h.gw = k.gw /\ f # other /\ Sf[f] = Sf[other] /\ Frequency[f] = Frequency[other]
        /\ 15 * overlap * overlap > Duration[f] * Duration[other]
        => ~(h.fate = "received" /\ k.fate = "received")

\* When nothing is on the air, the numbers that CountPhyPacketsPerGw returns for
\* an interval add up at every gateway: each frame sent in it was received or
\* lost for one reason, whatever happened to its repetitions; and the MAC layer
\* counts as many frames as the radios.  The lines that were printed miss no
\* frame sent before the last of them, and give none more than one outcome.
CountsAddUp ==
  /\ (coming = {} /\ \A h \in heard : h.fate # "receiving")
     => \A from \in 0 .. now : \A to \in from .. now :
          /\ \A g \in Gateways :
               LET counts == CountPhyPacketsPerGw(from, to, g)
               IN  counts.sent = Booked(counts)
          /\ CountMacPacketsGlobally(from, to).sent = Cardinality(SentIn(from, to))
  /\ \A g \in Gateways :
       /\ report.phy[g].sent >= Cardinality(SentIn(0, LastUpdate - 1))
       /\ report.phy[g].booked <= report.phy[g].sent

\* CountMacPacketsGlobally "returns a string containing the number of sent packets
\* and the number of packets that were received by at least one gateway".
GatewaysAreCounted ==
  CountMacPacketsGlobally(0, now).received
  = Cardinality({f \in SentIn(0, now) : \E h \in heard : h.event.tx[1] = f /\ h.fate = "received"})
===============================================================================
