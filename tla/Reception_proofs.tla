--------------------------- MODULE Reception_proofs ---------------------------
(***************************************************************************)
(* What holds of receptions for any number of frames, gateways and paths,  *)
(* any powers, delays, thresholds and lists of signals: interferers are    *)
(* not forgotten, the numbers of the packet tracker add up, and of two     *)
(* frames on one channel that share enough of their time a gateway         *)
(* receives one at most.                                                   *)
(***************************************************************************)
EXTENDS Reception, FiniteSetTheorems, WellFoundedInduction, TLAPS

-----------------------------------------------------------------------------
(* The invariant *)

\* An event lasts as long as its frame.
Timed == \A h \in heard : h.event.end = h.event.start + Duration[h.event.tx[1]]

\* A gateway remembers signals it heard, all but those over longer than the threshold.
Remembered ==
  \A g \in Gateways :
    /\ events[g] \subseteq HeardAt(g)
    /\ \A e \in HeardAt(g) \ events[g] : e.end + OldEventThreshold < now

\* A frame that was sent has an entry, with the times of its first attempt.
Entered ==
  /\ \A c \in coming : tracker[c.tx[1]].sendTime # Never
  /\ \A f \in Frames :
       /\ sends[f].n > 0 => tracker[f].sendTime # Never
       /\ tracker[f].macSendTime = tracker[f].sendTime
       /\ tracker[f].sendTime <= now

\* A frame of which a gateway has reported nothing is still on its way there or
\* being received.
Expected(f, g) ==
  \/ \E c \in coming : c.tx[1] = f /\ c.gw = g
  \/ \E h \in heard : h.event.tx[1] = f /\ h.gw = g /\ h.fate = "receiving"

Accounted ==
  \A f \in Frames, g \in Gateways :
    tracker[f].sendTime # Never /\ tracker[f].outcomes[g] = "UNSET" => Expected(f, g)

\* The lines printed so far.
Printed ==
  /\ LastUpdate <= now /\ now <= report.due
  /\ \A g \in Gateways :
       /\ report.phy[g].sent >= Cardinality(SentIn(0, LastUpdate - 1))
       /\ report.phy[g].booked <= report.phy[g].sent

IInv == TypeOK /\ Timed /\ Remembered /\ Entered /\ Accounted /\ Printed

-----------------------------------------------------------------------------
(* The radio of a gateway *)

LEMMA RadioIsIdle == GW!IdleGateway \in GW!GatewayType
  BY DEF GW!IdleGateway, GW!GatewayType

LEMMA RadioSettles ==
  ASSUME NEW r \in GW!GatewayType
  PROVE  /\ GW!TxFinished(r) \in GW!GatewayType
         /\ GW!Settled(r) => GW!Elapse(r) \in GW!GatewayType
<1>1. GW!TxFinished(r) \in GW!GatewayType
  BY DEF GW!GatewayType, GW!TxFinished
<1>2. ASSUME GW!Settled(r)
      PROVE  GW!Elapse(r) \in GW!GatewayType
  <2>1. {n - 1 : n \in r.txs} \in SUBSET Nat
    BY <1>2 DEF GW!GatewayType, GW!Settled
  <2>2. [b \in {"uplinks"} |-> IF r.wait[b] > 0 THEN r.wait[b] - 1 ELSE 0] \in [{"uplinks"} -> Nat]
    BY DEF GW!GatewayType
  <2>3. [s \in Transmissions |-> IF s \in r.ending THEN r.left[s] - 1 ELSE r.left[s]]
        \in [Transmissions -> Nat]
    BY <1>2 DEF GW!GatewayType, GW!Settled
  <2> QED
    BY <2>1, <2>2, <2>3 DEF GW!GatewayType, GW!Elapse
<1> QED
  BY <1>1, <1>2

LEMMA RadioSends ==
  ASSUME NEW r \in GW!GatewayType, NEW d \in Nat \ {0}
  PROVE  GW!MacSend(r, "uplinks", d) \in GW!GatewayType
<1>1. GW!OffTime("uplinks", d) \in Nat
  BY DEF GW!OffTime
<1>2. [p \in Paths |-> None] \in [Paths -> Transmissions \cup {None}]
  OBVIOUS
<1>3. [s \in Transmissions |-> IF s \in GW!Held(r) THEN 0 ELSE r.left[s]] \in [Transmissions -> Nat]
  BY DEF GW!GatewayType
<1>4. r.ending \ GW!Held(r) \in SUBSET Transmissions
  BY DEF GW!GatewayType
<1>5. GW!Interrupt(r) \in GW!GatewayType
  BY <1>2, <1>3, <1>4 DEF GW!GatewayType, GW!Interrupt
<1>6. GW!PhySend(r, d) \in GW!GatewayType
  BY <1>5 DEF GW!GatewayType, GW!PhySend
<1> QED
  BY <1>1, <1>6 DEF GW!GatewayType, GW!MacSend

LEMMA RadioEnds ==
  ASSUME NEW r \in GW!GatewayType, NEW s \in Transmissions
  PROVE  GW!EndReceive(r, s) \in GW!GatewayType
<1> DEFINE ended == [r EXCEPT !.ending = @ \ {s}, !.left[s] = 0]
           paths == [p \in Paths |-> IF ended.paths[p] = s THEN None ELSE ended.paths[p]]
<1>1. ended \in GW!GatewayType
  BY DEF GW!GatewayType
<1>2. paths \in [Paths -> Transmissions \cup {None}] /\ ended.occupied - 1 \in Int
  BY <1>1 DEF GW!GatewayType
<1>3. [ended EXCEPT !.paths = paths, !.occupied = @ - 1] \in GW!GatewayType
  BY <1>1, <1>2, Zenon DEF GW!GatewayType
<1> QED
  BY <1>1, <1>3 DEF GW!EndReceive

\* A signal is locked on without a trace or dropped with one.
LEMMA RadioStarts ==
  ASSUME NEW r \in GW!GatewayType, NEW s \in Transmissions, NEW d \in Nat, NEW strong \in BOOLEAN,
         NEW x \in GW!StartReceive(r, s, d, strong)
  PROVE  /\ x[1] \in GW!GatewayType
         /\ \/ x[2] = {}
            \/ \E o \in {"transmitting", "demodulators", "sensitivity"} : x[2] = {<<s, o>>}
<1>1. ASSUME NEW p \in Paths
      PROVE  GW!Lock(r, p, s, d) \in GW!GatewayType
  <2>1. /\ [r.paths EXCEPT ![p] = s] \in [Paths -> Transmissions \cup {None}]
        /\ r.ending \cup {s} \in SUBSET Transmissions
        /\ [r.left EXCEPT ![s] = d] \in [Transmissions -> Nat]
        /\ r.occupied + 1 \in Int
    BY DEF GW!GatewayType
  <2>2. GW!Lock(r, p, s, d)
        = [r EXCEPT !.paths = [r.paths EXCEPT ![p] = s], !.ending = r.ending \cup {s},
                    !.left = [r.left EXCEPT ![s] = d], !.occupied = r.occupied + 1]
    BY DEF GW!Lock, GW!GatewayType
  <2> QED
    BY <2>1, <2>2, Zenon DEF GW!GatewayType
<1>2. \/ x = <<r, {<<s, "transmitting">>}>>
      \/ x = <<r, {<<s, "demodulators">>}>>
      \/ x = <<r, {<<s, "sensitivity">>}>>
      \/ \E p \in Paths : x = <<GW!Lock(r, p, s, d), {}>>
  BY DEF GW!StartReceive
<1> QED
  BY <1>1, <1>2

-----------------------------------------------------------------------------
(* Air time *)

LEMMA PositiveDivision ==
  ASSUME NEW a \in Nat, NEW b \in Nat \ {0}
  PROVE  a \div b \in Nat
  OBVIOUS

LEMMA SymbolTimeIsNat ==
  ASSUME NEW sf \in 7..12
  PROVE  SymbolTime(sf, 125000) \in Nat
<1>1. 125000 \div 1000 \in Nat \ {0}
  OBVIOUS
<1>2. 2^sf * 1000 \in Nat
  <2>1. CASE sf = 7
    BY <2>1
  <2>2. CASE sf = 8
    BY <2>2
  <2>3. CASE sf = 9
    BY <2>3
  <2>4. CASE sf = 10
    BY <2>4
  <2>5. CASE sf = 11
    BY <2>5
  <2>6. CASE sf = 12
    BY <2>6
  <2> QED
    BY <2>1, <2>2, <2>3, <2>4, <2>5, <2>6
<1> QED
  BY <1>1, <1>2, PositiveDivision DEF SymbolTime

LEMMA DurationIsNat ==
  ASSUME NEW f \in Frames
  PROVE  Duration[f] \in Nat
<1> DEFINE sf == Sf[f]
           size == Size[f]
           t == SymbolTime(sf, 125000)
           num == 8 * size - 4 * sf + 28 + 16
           den == 4 * (sf - 0)
           n == 8 + 5 * ((num + den - 1) \div den)
           air == (49 * t) \div 4 + n * t
<1>1. Duration[f] = (air + TickLength - 1) \div TickLength
  BY DEF Duration, GetOnAirTime, PayloadSymbols
<1>2. sf \in 7..12 /\ size \in 9..255 /\ TickLength \in Nat \ {0}
  BY FramesAssumption, TimesAssumption
<1> HIDE DEF sf, size
<1>3. t \in Nat
  BY <1>2, SymbolTimeIsNat
<1>4. num + den - 1 \in Nat /\ den \in Nat \ {0}
  BY <1>2
<1> HIDE DEF t, num, den
<1>5. (num + den - 1) \div den \in Nat
  BY <1>4, PositiveDivision
<1>6. n \in Nat
  BY <1>5
<1> HIDE DEF n
<1>7. air \in Nat
  <2> DEFINE a == (49 * t) \div 4
             b == n * t
  <2>1. 49 * t \in Nat /\ 4 \in Nat \ {0}
    BY <1>3
  <2>2. a \in Nat
    BY ONLY <2>1, PositiveDivision
  <2>3. b \in Nat
    BY <1>3, <1>6
  <2> HIDE DEF a, b
  <2>4. a + b \in Nat
    BY <2>2, <2>3
  <2> QED
    BY <2>4 DEF a, b
<1> HIDE DEF air
<1>8. air + TickLength - 1 \in Nat
  BY <1>2, <1>7
<1> QED
  BY <1>1, <1>2, <1>8, PositiveDivision

-----------------------------------------------------------------------------
(* Counting *)

LEMMA DisjointUnion ==
  ASSUME NEW S, IsFiniteSet(S), NEW T, IsFiniteSet(T), S \cap T = {}
  PROVE  /\ IsFiniteSet(S \cup T)
         /\ Cardinality(S \cup T) = Cardinality(S) + Cardinality(T)
         /\ Cardinality(S) \in Nat /\ Cardinality(T) \in Nat
<1>1. /\ Cardinality(S) \in Nat /\ Cardinality(T) \in Nat
      /\ Cardinality(S \cap T) = 0
  BY FS_CardinalityType, FS_EmptySet
<1>2. /\ IsFiniteSet(S \cup T)
      /\ Cardinality(S \cup T) = Cardinality(S) + Cardinality(T) - Cardinality(S \cap T)
  BY FS_Union
<1> QED
  BY <1>1, <1>2

LEMMA FramesAreFinite ==
  ASSUME NEW S \in SUBSET Frames
  PROVE  IsFiniteSet(S) /\ Cardinality(S) \in Nat
  BY FramesAssumption, FS_Subset, FS_CardinalityType

\* Each frame has one outcome at a gateway, so that the outcomes of a line are
\* those of different frames, and of all of them if none is without.
LEMMA LineAddsUp ==
  ASSUME NEW from, NEW to, NEW g \in Gateways
  PROVE  LET counts == CountPhyPacketsPerGw(from, to, g)
         IN  /\ counts.sent \in Nat /\ counts.sent = Cardinality(SentIn(from, to))
             /\ Booked(counts) \in Nat /\ Booked(counts) <= counts.sent
             /\ (\A f \in SentIn(from, to) : tracker[f].outcomes[g] \in Outcomes)
                => Booked(counts) = counts.sent
<1> DEFINE sent == SentIn(from, to)
           counts == CountPhyPacketsPerGw(from, to, g)
           with(o) == {f \in sent : tracker[f].outcomes[g] = o}
           A == with("received")
           B == with("interfered")
           C == with("demodulators")
           D == with("sensitivity")
           E == with("transmitting")
           all == A \cup B \cup C \cup D \cup E
<1>1. sent \in SUBSET Frames
  BY DEF SentIn
<1>2. A \in SUBSET Frames /\ B \in SUBSET Frames /\ C \in SUBSET Frames
      /\ D \in SUBSET Frames /\ E \in SUBSET Frames /\ all \subseteq sent
  BY <1>1
<1>3. /\ A \cap B = {} /\ (A \cup B) \cap C = {} /\ (A \cup B \cup C) \cap D = {}
      /\ (A \cup B \cup C \cup D) \cap E = {}
  OBVIOUS
<1>4. (\A f \in sent : tracker[f].outcomes[g] \in Outcomes) => all = sent
  BY DEF Outcomes
<1>5. /\ counts.sent = Cardinality(sent)
      /\ counts.by["received"] = Cardinality(A) /\ counts.by["interfered"] = Cardinality(B)
      /\ counts.by["demodulators"] = Cardinality(C) /\ counts.by["sensitivity"] = Cardinality(D)
      /\ counts.by["transmitting"] = Cardinality(E)
  BY DEF CountPhyPacketsPerGw, Outcomes
<1> HIDE DEF A, B, C, D, E, sent, counts
<1>6. /\ IsFiniteSet(A) /\ IsFiniteSet(B) /\ IsFiniteSet(C) /\ IsFiniteSet(D) /\ IsFiniteSet(E)
      /\ IsFiniteSet(sent) /\ Cardinality(sent) \in Nat
  BY <1>1, <1>2, FramesAreFinite
<1>7. /\ IsFiniteSet(A \cup B) /\ Cardinality(A \cup B) = Cardinality(A) + Cardinality(B)
      /\ Cardinality(A) \in Nat /\ Cardinality(B) \in Nat
  BY <1>3, <1>6, DisjointUnion
<1>8. /\ IsFiniteSet(A \cup B \cup C)
      /\ Cardinality(A \cup B \cup C) = Cardinality(A \cup B) + Cardinality(C)
      /\ Cardinality(C) \in Nat
  BY <1>3, <1>6, <1>7, DisjointUnion
<1>9. /\ IsFiniteSet(A \cup B \cup C \cup D)
      /\ Cardinality(A \cup B \cup C \cup D) = Cardinality(A \cup B \cup C) + Cardinality(D)
      /\ Cardinality(D) \in Nat
  BY <1>3, <1>6, <1>8, DisjointUnion
<1>10. Cardinality(all) = Cardinality(A \cup B \cup C \cup D) + Cardinality(E)
       /\ Cardinality(E) \in Nat
  BY <1>3, <1>6, <1>9, DisjointUnion
<1>11. Booked(counts) = Cardinality(all) /\ Booked(counts) \in Nat
  BY <1>5, <1>7, <1>8, <1>9, <1>10 DEF Booked
<1>12. Cardinality(all) <= Cardinality(sent)
  BY <1>2, <1>6, FS_Subset
<1> HIDE DEF all
<1>13. (\A f \in sent : tracker[f].outcomes[g] \in Outcomes) => Booked(counts) = counts.sent
  BY <1>4, <1>5, <1>11
<1> QED
  BY <1>5, <1>6, <1>11, <1>12, <1>13 DEF sent, counts

-----------------------------------------------------------------------------
(* The packet tracker *)

Entry ==
  [sendTime : 0 .. MaxTime \cup {Never}, outcomes : [Gateways -> Outcomes \cup {"UNSET"}],
   macSendTime : 0 .. MaxTime \cup {Never}, receptionTimes : [Gateways -> 0 .. MaxTime \cup {Never}]]

\* The first outcome that a gateway reports is kept, and nothing else changes.
LEMMA OutcomeReported ==
  ASSUME NEW t \in [Frames -> Entry], NEW f \in Frames, NEW g \in Gateways, NEW o \in Outcomes
  PROVE  /\ Outcome(t, f, g, o) \in [Frames -> Entry]
         /\ \A k \in Frames :
              /\ Outcome(t, f, g, o)[k].sendTime = t[k].sendTime
              /\ Outcome(t, f, g, o)[k].macSendTime = t[k].macSendTime
              /\ \A j \in Gateways :
                   /\ t[k].outcomes[j] # "UNSET"
                      => Outcome(t, f, g, o)[k].outcomes[j] = t[k].outcomes[j]
                   /\ k # f \/ j # g => Outcome(t, f, g, o)[k].outcomes[j] = t[k].outcomes[j]
         /\ Outcome(t, f, g, o)[f].outcomes[g] # "UNSET"
<1> DEFINE new == [t[f].outcomes EXCEPT ![g] = o]
<1>1. new \in [Gateways -> Outcomes \cup {"UNSET"}] /\ "UNSET" \notin Outcomes
      /\ new[g] = o /\ (\A j \in Gateways : j # g => new[j] = t[f].outcomes[j])
  BY DEF Entry, Outcomes
<1>2. Outcome(t, f, g, o)
      = IF t[f].outcomes[g] = "UNSET" THEN [t EXCEPT ![f] = [t[f] EXCEPT !.outcomes = new]] ELSE t
  BY DEF Outcome, Entry
<1> HIDE DEF new
<1>3. ASSUME NEW r \in Entry
      PROVE  /\ [r EXCEPT !.outcomes = new] \in Entry
             /\ [r EXCEPT !.outcomes = new].sendTime = r.sendTime
             /\ [r EXCEPT !.outcomes = new].macSendTime = r.macSendTime
             /\ [r EXCEPT !.outcomes = new].outcomes = new
  BY <1>1, Zenon DEF Entry
<1> QED
  BY <1>1, <1>2, <1>3

\* The tracker hears of no frame that the MAC layer of a gateway received.
LEMMA NothingReceived ==
  ASSUME NEW t, NEW f, NEW g
  PROVE  Receive(t, f, g) = t
  BY DEF Receive, ConnectedSources

\* The times of the first attempt are kept.
LEMMA TransmissionTraced ==
  ASSUME NEW t \in [Frames -> Entry], NEW f \in Frames, now \in 0 .. MaxTime
  PROVE  LET new == TransmissionCallback(t, f)
         IN  /\ new \in [Frames -> Entry]
             /\ \A k \in Frames :
                  /\ new[k].outcomes = t[k].outcomes /\ new[k].macSendTime = t[k].macSendTime
                  /\ new[k].sendTime = IF k = f /\ t[f].sendTime = Never THEN now ELSE t[k].sendTime
<1>1. ASSUME NEW r \in Entry
      PROVE  /\ [r EXCEPT !.sendTime = now] \in Entry
             /\ [r EXCEPT !.sendTime = now].sendTime = now
             /\ [r EXCEPT !.sendTime = now].macSendTime = r.macSendTime
             /\ [r EXCEPT !.sendTime = now].outcomes = r.outcomes
  BY Zenon DEF Entry
<1>2. TransmissionCallback(t, f)
      = IF t[f].sendTime = Never THEN [t EXCEPT ![f] = [t[f] EXCEPT !.sendTime = now]] ELSE t
  BY DEF TransmissionCallback
<1> QED
  BY <1>1, <1>2

LEMMA MacTransmissionTraced ==
  ASSUME NEW t \in [Frames -> Entry], NEW f \in Frames, now \in 0 .. MaxTime
  PROVE  LET new == MacTransmissionCallback(t, f)
         IN  /\ new \in [Frames -> Entry]
             /\ \A k \in Frames :
                  /\ new[k].outcomes = t[k].outcomes /\ new[k].sendTime = t[k].sendTime
                  /\ new[k].macSendTime = IF k = f /\ t[f].macSendTime = Never THEN now
                                          ELSE t[k].macSendTime
<1>1. ASSUME NEW r \in Entry
      PROVE  /\ [r EXCEPT !.macSendTime = now] \in Entry
             /\ [r EXCEPT !.macSendTime = now].macSendTime = now
             /\ [r EXCEPT !.macSendTime = now].sendTime = r.sendTime
             /\ [r EXCEPT !.macSendTime = now].outcomes = r.outcomes
  BY Zenon DEF Entry
<1>2. MacTransmissionCallback(t, f)
      = IF t[f].macSendTime = Never THEN [t EXCEPT ![f] = [t[f] EXCEPT !.macSendTime = now]] ELSE t
  BY DEF MacTransmissionCallback
<1> QED
  BY <1>1, <1>2

-----------------------------------------------------------------------------
(* Init *)

LEMMA InitHolds == Init => IInv
<1> SUFFICES ASSUME Init PROVE IInv
  OBVIOUS
<1>1. /\ 0 \in Nat /\ 0 \in 0 .. MaxTime /\ 0 \in 0 .. MaxSends /\ ReportInterval \in Nat
      /\ Never = -1 /\ -1 # 0
  BY TimesAssumption DEF Never
<1>2. radio \in [Gateways -> GW!GatewayType]
  BY RadioIsIdle DEF Init
<1>3. tracker \in [Frames -> Entry]
  BY DEF Init, Entry
<1>4. /\ [n |-> 0, done |-> 0] \in [n: 0 .. MaxSends, done: Nat]
      /\ [sent |-> 0, booked |-> 0] \in [sent: Nat, booked: Nat]
  BY <1>1, Zenon
<1>5. report \in [due: Nat, phy: [Gateways -> [sent: Nat, booked: Nat]],
                 global: [{"sent", "received"} -> Nat]]
  BY <1>1, <1>4 DEF Init
<1>6. TypeOK
  BY <1>1, <1>2, <1>3, <1>4, <1>5 DEF Init, TypeOK, Entry
<1>7. /\ \A f \in Frames : tracker[f].sendTime = -1 /\ tracker[f].macSendTime = -1
      /\ SentIn(0, LastUpdate - 1) = {}
  BY DEF Init, SentIn, Within, Never
<1>8. Printed
  <2>1. LastUpdate = 0 /\ report.due = ReportInterval
    BY <1>1 DEF Init, LastUpdate
  <2> QED
    <3>1. \A g \in Gateways : report.phy[g].sent = 0 /\ report.phy[g].booked = 0
      BY DEF Init
    <3>2. Cardinality(SentIn(0, LastUpdate - 1)) = 0
      BY ONLY <1>7, FS_EmptySet
    <3>3. LastUpdate <= now /\ now <= report.due
      BY <1>1, <2>1 DEF Init
    <3> QED
      BY <3>1, <3>2, <3>3 DEF Printed
<1> QED
  BY <1>1, <1>6, <1>7, <1>8 DEF Init, IInv, Timed, Remembered, Entered, Accounted, HeardAt

-----------------------------------------------------------------------------
(* The steps *)

\* A frame sent now was not sent before the line that was printed last, so that
\* this line is not concerned.
LEMMA LinesKept ==
  ASSUME IInv, report' = report, now' = now \/ (now' = now + 1 /\ report.due > now),
         \A f \in Frames :
           \/ tracker'[f].sendTime = tracker[f].sendTime
           \/ tracker[f].sendTime = Never /\ tracker'[f].sendTime = now
  PROVE  Printed'
<1>1. now \in Nat /\ report.due \in Nat /\ ReportInterval \in Nat
      /\ LastUpdate <= now /\ now <= report.due /\ LastUpdate' = LastUpdate
  BY TimesAssumption DEF IInv, TypeOK, Printed, LastUpdate
<1>2. LastUpdate \in Int
  BY <1>1 DEF LastUpdate
<1>3. SentIn(0, LastUpdate - 1)' = SentIn(0, LastUpdate - 1)
  BY <1>1, <1>2 DEF SentIn, Within, Never
<1> QED
  BY <1>1, <1>2, <1>3 DEF IInv, Printed, LastUpdate

\* Send changes none of the signals at the gateways, which expect one more each.
LEMMA SendKeeps ==
  ASSUME IInv, NEW f \in Frames, Send(f)
  PROVE  IInv'
<1> DEFINE t == IF sends[f].n = 0 THEN MacTransmissionCallback(tracker, f) ELSE tracker
           sent == [g \in Gateways |-> [tx |-> <<f, sends[f].n + 1>>, gw |-> g, at |-> now + Delay[f][g]]]
<1>1. /\ UNCHANGED <<now, matrix, radio, events, report, heard>>
      /\ sends[f].n < MaxSends
      /\ sends' = [sends EXCEPT ![f] = [n |-> sends[f].n + 1, done |-> now + Duration[f] + RetryDelay]]
      /\ coming' = coming \cup {sent[g] : g \in Gateways}
      /\ tracker' = TransmissionCallback(t, f)
  BY DEF Send, IInv, TypeOK
<1>2. tracker \in [Frames -> Entry] /\ now \in 0 .. MaxTime
  BY DEF IInv, TypeOK, Entry
<1>3. /\ t \in [Frames -> Entry]
      /\ \A k \in Frames :
           /\ t[k].outcomes = tracker[k].outcomes /\ t[k].sendTime = tracker[k].sendTime
           /\ t[k].macSendTime = IF k = f /\ sends[f].n = 0 /\ tracker[f].macSendTime = Never THEN now
                                 ELSE tracker[k].macSendTime
  BY <1>2, MacTransmissionTraced
<1> HIDE DEF t, sent
<1>4. /\ tracker' \in [Frames -> Entry]
      /\ \A k \in Frames :
           /\ tracker'[k].outcomes = t[k].outcomes /\ tracker'[k].macSendTime = t[k].macSendTime
           /\ tracker'[k].sendTime = IF k = f /\ t[f].sendTime = Never THEN now ELSE t[k].sendTime
  BY <1>1, <1>2, <1>3, TransmissionTraced
<1>5. now # Never /\ now \in Nat /\ MaxSends \in Nat
  BY <1>2, TimesAssumption DEF Never
<1>6. /\ tracker'[f].sendTime # Never
      /\ \A k \in Frames : tracker[k].sendTime # Never => tracker'[k].sendTime = tracker[k].sendTime
      /\ \A k \in Frames : k # f => tracker'[k].sendTime = tracker[k].sendTime
      /\ \A k \in Frames : \/ tracker'[k].sendTime = tracker[k].sendTime
                           \/ tracker[k].sendTime = Never /\ tracker'[k].sendTime = now
  <2>1. \A k \in Frames : tracker'[k].sendTime = IF k = f /\ tracker[k].sendTime = Never THEN now
                                                 ELSE tracker[k].sendTime
    BY <1>3, <1>4
  <2>2. IF f = f /\ tracker[f].sendTime = Never THEN tracker'[f].sendTime = now
        ELSE tracker'[f].sendTime = tracker[f].sendTime
    BY <2>1
  <2>3. tracker'[f].sendTime # Never
    BY ONLY <1>5, <2>2
  <2> QED
    BY ONLY <2>1, <2>3
<1>7. sends[f].n \in 0 .. MaxSends /\ sends[f].n + 1 \in 1 .. MaxSends
  BY <1>1, <1>5 DEF IInv, TypeOK
<1>8. /\ \A g \in Gateways : sent[g] \in [tx: Transmissions, gw: Gateways, at: Nat]
      /\ \A g \in Gateways : sent[g].tx[1] = f /\ sent[g].gw = g
  <2>1. <<f, sends[f].n + 1>> \in Transmissions /\ <<f, sends[f].n + 1>>[1] = f
    BY <1>7 DEF Transmissions
  <2>2. ASSUME NEW g \in Gateways PROVE now + Delay[f][g] \in Nat
    BY <1>5, FramesAssumption
  <2> QED
    BY <2>1, <2>2 DEF sent
<1>9. TypeOK'
  <2>1. sends' \in [Frames -> [n: 0 .. MaxSends, done: Nat]]
    <3>1. now + Duration[f] + RetryDelay \in Nat /\ sends[f].n + 1 \in 0 .. MaxSends
      BY <1>5, <1>7, DurationIsNat, TimesAssumption
    <3>2. [n |-> sends[f].n + 1, done |-> now + Duration[f] + RetryDelay] \in [n: 0 .. MaxSends, done: Nat]
      BY <3>1, Zenon
    <3> QED
      BY <1>1, <3>2 DEF IInv, TypeOK
  <2>2. coming' \subseteq [tx: Transmissions, gw: Gateways, at: Nat]
    BY <1>1, <1>8 DEF IInv, TypeOK
  <2>3. \A k \in Frames : (\E h \in heard : h.event.tx[1] = k) => tracker'[k].sendTime # Never
    BY <1>6 DEF IInv, TypeOK
  <2> QED
    BY <1>1, <1>4, <2>1, <2>2, <2>3 DEF IInv, TypeOK, Entry
<1>10. Timed' /\ Remembered'
  BY <1>1 DEF IInv, Timed, Remembered, HeardAt
<1>11. Entered'
  <2>1. \A c \in coming' : tracker'[c.tx[1]].sendTime # Never
    <3> SUFFICES ASSUME NEW c \in coming' PROVE tracker'[c.tx[1]].sendTime # Never
      OBVIOUS
    <3>1. CASE c \in coming
      <4>1. c.tx[1] \in Frames
        BY <3>1 DEF IInv, TypeOK, Transmissions
      <4> QED
        BY <1>6, <3>1, <4>1 DEF IInv, Entered
    <3>2. CASE c \notin coming
      BY <1>1, <1>6, <1>8, <3>2
    <3> QED
      BY <3>1, <3>2
  <2>2. \A k \in Frames : sends'[k].n > 0 => tracker'[k].sendTime # Never
    <3>1. \A k \in Frames : k # f => sends'[k] = sends[k]
      BY <1>1
    <3> QED
      BY <1>6, <3>1 DEF IInv, Entered
  <2>3. ASSUME NEW k \in Frames
        PROVE  tracker'[k].macSendTime = tracker'[k].sendTime /\ tracker'[k].sendTime <= now
    <3>1. /\ tracker[k].macSendTime = tracker[k].sendTime /\ tracker[k].sendTime <= now
          /\ sends[k].n > 0 => tracker[k].sendTime # Never
          /\ sends[f].n \in Nat
      BY <1>7 DEF IInv, Entered
    <3> QED
      BY <1>3, <1>4, <1>5, <3>1
  <2> QED
    BY <1>1, <2>1, <2>2, <2>3 DEF Entered
<1>12. Accounted'
  <2> SUFFICES ASSUME NEW k \in Frames, NEW g \in Gateways,
                      tracker'[k].sendTime # Never, tracker'[k].outcomes[g] = "UNSET"
               PROVE  Expected(k, g)'
    BY DEF Accounted
  <2>1. CASE k = f
    BY <1>1, <1>8, <2>1 DEF Expected
  <2>2. CASE k # f
    <3>1. Expected(k, g)
      BY <1>3, <1>4, <1>6, <2>2 DEF IInv, Accounted
    <3> QED
      BY <1>1, <3>1 DEF Expected
  <2> QED
    BY <2>1, <2>2
<1>13. Printed'
  BY <1>1, <1>6, LinesKept
<1> QED
  BY <1>9, <1>10, <1>11, <1>12, <1>13 DEF IInv

\* The list may lose a signal that is over for longer than the threshold, and
\* one that begins now is not.
LEMMA AddKeeps ==
  ASSUME NEW list, NEW e
  PROVE  /\ Add(list, e) \subseteq list \cup {e}
         /\ \A o \in (list \cup {e}) \ Add(list, e) : ~(o.end + OldEventThreshold >= now)
  BY DEF Add, CleanOldEvents

LEMMA TheOnlyOne ==
  ASSUME NEW x
  PROVE  (CHOOSE t \in {x} : TRUE) = x
  OBVIOUS

\* A signal that arrives is received or its loss reported, and remembered unless
\* the gateway transmits.
LEMMA StartReceiveKeeps ==
  ASSUME IInv, NEW c \in coming, StartReceive(c)
  PROVE  IInv'
<1> DEFINE f == c.tx[1]
           g == c.gw
           e == [tx |-> c.tx, start |-> now, end |-> now + Duration[f]]
           fate(traces) == IF traces = {} THEN "receiving" ELSE (CHOOSE t \in traces : TRUE)[2]
           entry(what) == [gw |-> g, event |-> e, known |-> ~radio[g].transmitting, fate |-> what]
<1>1. PICK r \in GW!StartReceive(radio[g], c.tx, Duration[f], 100 * RxPower[f][g] >= GatewaySensitivity(Sf[f])) :
        /\ radio' = [radio EXCEPT ![g] = r[1]]
        /\ tracker' = IF r[2] = {} THEN tracker ELSE Outcome(tracker, f, g, fate(r[2]))
        /\ heard' = heard \cup {entry(fate(r[2]))}
  BY DEF StartReceive
<1>2. /\ c.at = now /\ coming' = coming \ {c}
      /\ events' = IF radio[g].transmitting THEN events ELSE [events EXCEPT ![g] = Add(events[g], e)]
      /\ UNCHANGED <<now, matrix, sends, report>>
  BY DEF StartReceive, IInv, TypeOK
<1>3. c.tx \in Transmissions /\ f \in Frames /\ g \in Gateways /\ now \in 0 .. MaxTime /\ now \in Nat
  BY TimesAssumption DEF IInv, TypeOK, Transmissions
<1>4. Duration[f] \in Nat /\ now + Duration[f] \in Nat
  BY <1>3, DurationIsNat
<1>5. radio[g] \in GW!GatewayType /\ radio[g].transmitting \in BOOLEAN
  BY <1>3 DEF IInv, TypeOK, GW!GatewayType
<1>6. (100 * RxPower[f][g] >= GatewaySensitivity(Sf[f])) \in BOOLEAN
  OBVIOUS
<1> DEFINE w == fate(r[2])
<1>7. /\ r[1] \in GW!GatewayType
      /\ \/ r[2] = {} /\ w = "receiving"
         \/ r[2] # {} /\ w \in {"transmitting", "demodulators", "sensitivity"}
  <2>1. /\ r[1] \in GW!GatewayType
        /\ \/ r[2] = {}
           \/ \E o \in {"transmitting", "demodulators", "sensitivity"} : r[2] = {<<c.tx, o>>}
    <3> DEFINE strong == 100 * RxPower[f][g] >= GatewaySensitivity(Sf[f])
    <3>1. strong \in BOOLEAN /\ r \in GW!StartReceive(radio[g], c.tx, Duration[f], strong)
      BY <1>1, <1>6
    <3> HIDE DEF strong
    <3> QED
      BY <1>3, <1>4, <1>5, <3>1, RadioStarts
  <2>2. ASSUME NEW o \in {"transmitting", "demodulators", "sensitivity"}, r[2] = {<<c.tx, o>>}
        PROVE  r[2] # {} /\ w = o
    <3>1. r[2] # {} /\ w = (CHOOSE t \in {<<c.tx, o>>} : TRUE)[2]
      BY <2>2
    <3>2. (CHOOSE t \in {<<c.tx, o>>} : TRUE) = <<c.tx, o>>
      BY ONLY TheOnlyOne
    <3> QED
      BY <3>1, <3>2
  <2> QED
    BY <2>1, <2>2
<1> HIDE DEF w
<1>8. w \in Outcomes \cup {"receiving"} /\ (r[2] # {} => w \in Outcomes)
  BY <1>7 DEF Outcomes
<1>9. heard' = heard \cup {entry(w)}
      /\ tracker' = IF r[2] = {} THEN tracker ELSE Outcome(tracker, f, g, w)
  BY <1>1 DEF w
<1>10. tracker \in [Frames -> Entry] /\ tracker[f].sendTime # Never
  BY <1>3 DEF IInv, TypeOK, Entry, Entered
<1>11. /\ tracker' \in [Frames -> Entry]
       /\ \A k \in Frames :
            /\ tracker'[k].sendTime = tracker[k].sendTime
            /\ tracker'[k].macSendTime = tracker[k].macSendTime
            /\ \A j \in Gateways :
                 /\ tracker[k].outcomes[j] # "UNSET" => tracker'[k].outcomes[j] = tracker[k].outcomes[j]
                 /\ k # f \/ j # g => tracker'[k].outcomes[j] = tracker[k].outcomes[j]
       /\ r[2] # {} => tracker'[f].outcomes[g] # "UNSET"
  <2>1. CASE r[2] = {}
    BY <1>9, <1>10, <2>1
  <2>2. CASE r[2] # {}
    BY <1>3, <1>8, <1>9, <1>10, <2>2, OutcomeReported
  <2> QED
    BY <2>1, <2>2
<1>12. /\ e \in Event /\ e.end = now + Duration[f] /\ e.start = now /\ e.tx = c.tx
       /\ entry(w) \in [gw: Gateways, event: Event, known: BOOLEAN, fate: Outcomes \cup {"receiving"}]
       /\ entry(w).event = e /\ entry(w).gw = g /\ entry(w).fate = w
       /\ entry(w).known = ~radio[g].transmitting
  BY <1>3, <1>4, <1>5, <1>8, Zenon DEF Event
<1>13. /\ \A j \in Gateways : events'[j] \subseteq events[j] \cup {e}
       /\ \A j \in Gateways : j # g \/ radio[g].transmitting => events'[j] = events[j]
       /\ ~radio[g].transmitting => events'[g] = Add(events[g], e)
  <2>1. \A j \in Gateways : events'[j] = IF j = g /\ ~radio[g].transmitting THEN Add(events[g], e) ELSE events[j]
    BY <1>2, <1>3 DEF IInv, TypeOK
  <2>2. Add(events[g], e) \subseteq events[g] \cup {e}
    BY AddKeeps
  <2> QED
    BY <1>3, <1>5, <2>1, <2>2
<1> HIDE DEF f, g, e, entry
<1>14. TypeOK'
  <2>1. radio' \in [Gateways -> GW!GatewayType]
    BY <1>1, <1>3, <1>7 DEF IInv, TypeOK
  <2>2. \A j \in Gateways : events'[j] \subseteq Event
    BY <1>12, <1>13 DEF IInv, TypeOK
  <2>3. \A k \in Frames : (\E h \in heard' : h.event.tx[1] = k) => tracker'[k].sendTime # Never
    BY <1>9, <1>10, <1>11, <1>12 DEF IInv, TypeOK, f
  <2> QED
    BY <1>2, <1>9, <1>11, <1>12, <2>1, <2>2, <2>3 DEF IInv, TypeOK, Entry
<1>15. Timed'
  BY <1>9, <1>12 DEF IInv, Timed, f
<1>16. Remembered'
  <2>1. ASSUME NEW j \in Gateways, j # g \/ radio[g].transmitting
        PROVE  HeardAt(j)' = HeardAt(j) /\ events'[j] = events[j]
    BY <1>5, <1>9, <1>12, <1>13, <2>1 DEF HeardAt
  <2>2. CASE ~radio[g].transmitting
    <3>1. HeardAt(g)' = HeardAt(g) \cup {e}
      BY <1>9, <1>12, <2>2 DEF HeardAt
    <3>2. events'[g] = Add(events[g], e)
      BY <1>13, <2>2
    <3>3. \A o \in HeardAt(g)' \ events'[g] : o.end + OldEventThreshold < now
      <4> SUFFICES ASSUME NEW o \in HeardAt(g)', o \notin events'[g] PROVE o.end + OldEventThreshold < now
        OBVIOUS
      <4>1. CASE o \in events[g] \cup {e}
        <5>1. o \in Event
          BY <1>3, <1>12, <4>1 DEF IInv, TypeOK
        <5>2. o.end + OldEventThreshold \in Nat
          BY <5>1, TimesAssumption DEF Event
        <5> QED
          BY <1>3, <3>2, <4>1, <5>2, AddKeeps
      <4>2. CASE o \notin events[g] \cup {e}
        BY <1>3, <3>1, <4>2 DEF IInv, Remembered
      <4> QED
        BY <4>1, <4>2
    <3>4. events'[g] \subseteq HeardAt(g)'
      BY <1>3, <3>1, <3>2, AddKeeps DEF IInv, Remembered
    <3> QED
      BY <1>2, <2>1, <3>3, <3>4 DEF IInv, Remembered
  <2>3. CASE radio[g].transmitting
    BY <1>2, <2>1, <2>3 DEF IInv, Remembered
  <2> QED
    BY <2>2, <2>3
<1>17. Entered'
  <2>1. \A k \in coming : k.tx[1] \in Frames
    BY DEF IInv, TypeOK, Transmissions
  <2> QED
    BY <1>2, <1>11, <2>1 DEF IInv, Entered
<1>18. Accounted'
  <2> SUFFICES ASSUME NEW k \in Frames, NEW j \in Gateways,
                      tracker'[k].sendTime # Never, tracker'[k].outcomes[j] = "UNSET"
               PROVE  Expected(k, j)'
    BY DEF Accounted
  <2>1. Expected(k, j)
    BY <1>11 DEF IInv, Accounted
  <2>2. CASE k = f /\ j = g
    <3>1. w = "receiving"
      BY <1>7, <1>11, <2>2
    <3> QED
      BY <1>9, <1>12, <2>2, <3>1 DEF Expected, f
  <2>3. CASE ~(k = f /\ j = g)
    BY <1>2, <1>9, <2>1, <2>3 DEF Expected, f, g
  <2> QED
    BY <2>2, <2>3
<1>19. Printed'
  BY <1>2, <1>11, LinesKept
<1> QED
  BY <1>14, <1>15, <1>16, <1>17, <1>18, <1>19 DEF IInv

\* A signal whose fate is settled is still one that the gateway heard.
LEMMA SettledIsHeard ==
  ASSUME NEW o \in Outcomes, NEW cut \in SUBSET heard, IInv,
         heard' = (heard \ cut) \cup {[h EXCEPT !.fate = o] : h \in cut}
  PROVE  /\ \A g \in Gateways : HeardAt(g)' = HeardAt(g)
         /\ \A h \in heard' : \E k \in heard : h.event = k.event /\ h.gw = k.gw
         /\ heard' \subseteq [gw: Gateways, event: Event, known: BOOLEAN, fate: Outcomes \cup {"receiving"}]
<1> DEFINE T == [gw: Gateways, event: Event, known: BOOLEAN, fate: Outcomes \cup {"receiving"}]
<1>1. heard \subseteq T
  BY DEF IInv, TypeOK
<1>2. ASSUME NEW h \in T
      PROVE  /\ [h EXCEPT !.fate = o].event = h.event /\ [h EXCEPT !.fate = o].gw = h.gw
             /\ [h EXCEPT !.fate = o].known = h.known /\ [h EXCEPT !.fate = o] \in T
  BY Zenon
<1> HIDE DEF T
<1>3. /\ \A h \in heard' : \E k \in heard : h.event = k.event /\ h.gw = k.gw /\ h.known = k.known
      /\ \A k \in heard : \E h \in heard' : h.event = k.event /\ h.gw = k.gw /\ h.known = k.known
  <2>1. ASSUME NEW h \in heard' PROVE \E k \in heard : h.event = k.event /\ h.gw = k.gw /\ h.known = k.known
    <3>1. CASE h \in heard
      BY <3>1
    <3>2. ASSUME NEW k \in cut, h = [k EXCEPT !.fate = o]
          PROVE  \E x \in heard : h.event = x.event /\ h.gw = x.gw /\ h.known = x.known
      BY <1>1, <1>2, <3>2
    <3> QED
      BY <3>1, <3>2
  <2>2. ASSUME NEW k \in heard PROVE \E h \in heard' : h.event = k.event /\ h.gw = k.gw /\ h.known = k.known
    <3>1. CASE k \in cut
      <4>1. [k EXCEPT !.fate = o] \in heard'
        BY <3>1
      <4> QED
        BY <1>1, <1>2, <4>1
    <3>2. CASE k \notin cut
      BY <3>2
    <3> QED
      BY <3>1, <3>2
  <2> QED
    BY <2>1, <2>2
<1>4. heard' \subseteq T
  BY <1>1, <1>2
<1>5. ASSUME NEW g \in Gateways PROVE HeardAt(g)' = HeardAt(g)
  <2>1. \A e : e \in HeardAt(g) <=> \E k \in heard : k.gw = g /\ k.known /\ k.event = e
    BY DEF HeardAt
  <2>2. \A e : e \in HeardAt(g)' <=> \E k \in heard' : k.gw = g /\ k.known /\ k.event = e
    BY DEF HeardAt
  <2>3. \A e : e \in HeardAt(g)' <=> e \in HeardAt(g)
    <3>1. ASSUME NEW e, e \in HeardAt(g)' PROVE e \in HeardAt(g)
      <4>1. PICK h \in heard' : h.gw = g /\ h.known /\ h.event = e
        BY <2>2, <3>1
      <4>2. PICK k \in heard : h.event = k.event /\ h.gw = k.gw /\ h.known = k.known
        BY <1>3
      <4> QED
        BY <2>1, <4>1, <4>2
    <3>2. ASSUME NEW e, e \in HeardAt(g) PROVE e \in HeardAt(g)'
      <4>1. PICK k \in heard : k.gw = g /\ k.known /\ k.event = e
        BY <2>1, <3>2
      <4>2. PICK h \in heard' : h.event = k.event /\ h.gw = k.gw /\ h.known = k.known
        BY <1>3
      <4> QED
        BY <2>2, <4>1, <4>2
    <3> QED
      BY <3>1, <3>2
  <2> QED
    BY <2>3
<1> QED
  BY <1>3, <1>4, <1>5 DEF T

\* A reception is over, with one outcome or another.
LEMMA EndReceiveKeeps ==
  ASSUME IInv, NEW h \in heard, EndReceive(h)
  PROVE  IInv'
<1> DEFINE f == h.event.tx[1]
           g == h.gw
           o == IF IsDestroyedByInterference(h.gw, h.event, events[h.gw]) THEN "interfered" ELSE "received"
<1>1. /\ h.fate = "receiving" /\ UNCHANGED <<now, matrix, sends, coming, events, report>>
      /\ radio' = [radio EXCEPT ![g] = GW!EndReceive(radio[g], h.event.tx)]
  BY DEF EndReceive, IInv, TypeOK
<1>2. /\ tracker' = Outcome(tracker, f, g, o)
      /\ heard' = (heard \ {h}) \cup {[k EXCEPT !.fate = o] : k \in {h}}
  BY NothingReceived DEF EndReceive, Settle
<1>3. o \in Outcomes /\ "receiving" \notin Outcomes
  BY DEF Outcomes
<1> HIDE DEF o
<1>4. h.event.tx \in Transmissions /\ f \in Frames /\ g \in Gateways
  BY DEF IInv, TypeOK, Event, Transmissions
<1>5. tracker \in [Frames -> Entry]
  BY DEF IInv, TypeOK, Entry
<1>6. /\ tracker' \in [Frames -> Entry]
      /\ \A k \in Frames :
           /\ tracker'[k].sendTime = tracker[k].sendTime
           /\ tracker'[k].macSendTime = tracker[k].macSendTime
           /\ \A j \in Gateways :
                /\ tracker[k].outcomes[j] # "UNSET" => tracker'[k].outcomes[j] = tracker[k].outcomes[j]
                /\ k # f \/ j # g => tracker'[k].outcomes[j] = tracker[k].outcomes[j]
      /\ tracker'[f].outcomes[g] # "UNSET"
  BY <1>2, <1>3, <1>4, <1>5, OutcomeReported
<1>7. /\ \A j \in Gateways : HeardAt(j)' = HeardAt(j)
      /\ \A x \in heard' : \E y \in heard : x.event = y.event /\ x.gw = y.gw
      /\ heard' \subseteq [gw: Gateways, event: Event, known: BOOLEAN, fate: Outcomes \cup {"receiving"}]
  <2>1. {h} \in SUBSET heard
    OBVIOUS
  <2> QED
    BY <1>2, <1>3, <2>1, SettledIsHeard
<1>8. TypeOK'
  <2>1. radio' \in [Gateways -> GW!GatewayType]
    BY <1>1, <1>4, RadioEnds DEF IInv, TypeOK
  <2>2. \A k \in Frames : (\E x \in heard' : x.event.tx[1] = k) => tracker'[k].sendTime # Never
    BY <1>6, <1>7 DEF IInv, TypeOK
  <2> QED
    BY <1>1, <1>6, <1>7, <2>1, <2>2 DEF IInv, TypeOK, Entry
<1>9. Timed'
  BY <1>7 DEF IInv, Timed
<1>10. Remembered'
  BY <1>1, <1>7 DEF IInv, Remembered
<1>11. Entered'
  <2>1. \A c \in coming : c.tx[1] \in Frames
    BY DEF IInv, TypeOK, Transmissions
  <2> QED
    BY <1>1, <1>6, <2>1 DEF IInv, Entered
<1>12. Accounted'
  <2> SUFFICES ASSUME NEW k \in Frames, NEW j \in Gateways,
                      tracker'[k].sendTime # Never, tracker'[k].outcomes[j] = "UNSET"
               PROVE  Expected(k, j)'
    BY DEF Accounted
  <2>1. Expected(k, j) /\ ~(k = f /\ j = g)
    BY <1>6 DEF IInv, Accounted
  <2> QED
    BY <1>1, <1>2, <2>1 DEF Expected
<1>13. Printed'
  BY <1>1, <1>6, LinesKept
<1> QED
  BY <1>8, <1>9, <1>10, <1>11, <1>12, <1>13 DEF IInv

\* A downlink settles the fate of everything its gateway receives.
LEMMA GatewaySendKeeps ==
  ASSUME IInv, NEW g \in Gateways, NEW d \in TxTimes, GatewaySend(g, d)
  PROVE  IInv'
<1> DEFINE cut == {h \in heard : h.gw = g /\ h.fate = "receiving"}
           hit(f) == \E h \in cut : h.event.tx[1] = f
<1>1. /\ UNCHANGED <<now, matrix, sends, coming, events, report>>
      /\ radio' = [radio EXCEPT ![g] = GW!MacSend(radio[g], "uplinks", d)]
      /\ heard' = (heard \ cut) \cup {[h EXCEPT !.fate = "transmitting"] : h \in cut}
  BY DEF GatewaySend, IInv, TypeOK
<1>2. \A k \in Frames : tracker'[k] = IF hit(k) THEN Outcome(tracker, k, g, "transmitting")[k] ELSE tracker[k]
  BY DEF GatewaySend
<1>3. tracker' = [k \in Frames |-> tracker'[k]]
  BY DEF GatewaySend
<1>4. tracker \in [Frames -> Entry] /\ "transmitting" \in Outcomes
  BY DEF IInv, TypeOK, Entry, Outcomes
<1>5. cut \in SUBSET heard
  OBVIOUS
<1>6. /\ \A j \in Gateways : HeardAt(j)' = HeardAt(j)
      /\ \A x \in heard' : \E y \in heard : x.event = y.event /\ x.gw = y.gw
      /\ heard' \subseteq [gw: Gateways, event: Event, known: BOOLEAN, fate: Outcomes \cup {"receiving"}]
  BY <1>1, <1>4, <1>5, SettledIsHeard
<1>7. ASSUME NEW k \in Frames
      PROVE  /\ tracker'[k] \in Entry
             /\ tracker'[k].sendTime = tracker[k].sendTime
             /\ tracker'[k].macSendTime = tracker[k].macSendTime
             /\ \A j \in Gateways :
                  /\ tracker[k].outcomes[j] # "UNSET" => tracker'[k].outcomes[j] = tracker[k].outcomes[j]
                  /\ j # g => tracker'[k].outcomes[j] = tracker[k].outcomes[j]
             /\ hit(k) => tracker'[k].outcomes[g] # "UNSET"
  <2>1. CASE hit(k)
    <3> DEFINE t == Outcome(tracker, k, g, "transmitting")
    <3>1. /\ t \in [Frames -> Entry]
          /\ \A i \in Frames :
               /\ t[i].sendTime = tracker[i].sendTime
               /\ t[i].macSendTime = tracker[i].macSendTime
               /\ \A j \in Gateways :
                    /\ tracker[i].outcomes[j] # "UNSET" => t[i].outcomes[j] = tracker[i].outcomes[j]
                    /\ i # k \/ j # g => t[i].outcomes[j] = tracker[i].outcomes[j]
          /\ t[k].outcomes[g] # "UNSET"
      BY <1>4, OutcomeReported
    <3>2. tracker'[k] = t[k]
      BY <1>2, <2>1
    <3> HIDE DEF t
    <3> QED
      BY <3>1, <3>2
  <2>2. CASE ~hit(k)
    <3>1. tracker'[k] = tracker[k]
      BY <1>2, <2>2
    <3> QED
      BY <1>4, <2>2, <3>1
  <2> QED
    BY <2>1, <2>2
<1>8. TypeOK'
  <2>1. radio' \in [Gateways -> GW!GatewayType]
    <3>1. d \in Nat \ {0}
      BY TimesAssumption
    <3> QED
      BY <1>1, <3>1, RadioSends DEF IInv, TypeOK
  <2>2. \A k \in Frames : (\E x \in heard' : x.event.tx[1] = k) => tracker'[k].sendTime # Never
    BY <1>6, <1>7 DEF IInv, TypeOK
  <2>3. tracker' \in [Frames -> Entry]
    BY <1>3, <1>7
  <2> QED
    BY <1>1, <1>6, <2>1, <2>2, <2>3 DEF IInv, TypeOK, Entry
<1>9. Timed'
  BY <1>6 DEF IInv, Timed
<1>10. Remembered'
  BY <1>1, <1>6 DEF IInv, Remembered
<1>11. Entered'
  <2>1. \A c \in coming : c.tx[1] \in Frames
    BY DEF IInv, TypeOK, Transmissions
  <2> QED
    BY <1>1, <1>7, <2>1 DEF IInv, Entered
<1>12. Accounted'
  <2> SUFFICES ASSUME NEW k \in Frames, NEW j \in Gateways,
                      tracker'[k].sendTime # Never, tracker'[k].outcomes[j] = "UNSET"
               PROVE  Expected(k, j)'
    BY DEF Accounted
  <2>1. Expected(k, j) /\ (j = g => ~hit(k))
    BY <1>7 DEF IInv, Accounted
  <2> QED
    BY <1>1, <2>1 DEF Expected
<1>13. Printed'
  BY <1>1, <1>7, LinesKept
<1> QED
  BY <1>8, <1>9, <1>10, <1>11, <1>12, <1>13 DEF IInv

LEMMA TxFinishedKeeps ==
  ASSUME IInv, NEW g \in Gateways, TxFinished(g)
  PROVE  IInv'
<1>1. /\ UNCHANGED <<now, matrix, sends, coming, events, tracker, report, heard>>
      /\ radio' \in [Gateways -> GW!GatewayType]
  BY RadioSettles DEF TxFinished, IInv, TypeOK
<1>2. TypeOK'
  BY <1>1 DEF IInv, TypeOK
<1>3. Timed' /\ Remembered' /\ Entered' /\ Accounted'
  BY <1>1 DEF IInv, Timed, Remembered, HeardAt, Entered, Accounted, Expected
<1>4. Printed'
  BY <1>1, LinesKept
<1> QED
  BY <1>2, <1>3, <1>4 DEF IInv

LEMMA TickKeeps ==
  ASSUME IInv, Tick
  PROVE  IInv'
<1>1. /\ UNCHANGED <<matrix, sends, coming, events, tracker, report, heard>>
      /\ now' = now + 1 /\ now < MaxTime /\ report.due > now /\ now \in 0 .. MaxTime
      /\ OldEventThreshold \in Nat /\ MaxTime \in Nat
  BY TimesAssumption DEF Tick, IInv, TypeOK
<1>2. radio' \in [Gateways -> GW!GatewayType]
  BY RadioSettles DEF Tick, IInv, TypeOK
<1>3. TypeOK'
  BY <1>1, <1>2 DEF IInv, TypeOK
<1>4. Remembered'
  <2> SUFFICES ASSUME NEW g \in Gateways, NEW e \in HeardAt(g) \ events[g]
               PROVE  e.end + OldEventThreshold < now + 1
    BY <1>1 DEF IInv, Remembered, HeardAt
  <2>1. e \in Event
    BY DEF HeardAt, IInv, TypeOK
  <2>2. e.end + OldEventThreshold \in Nat /\ e.end + OldEventThreshold < now
    BY <1>1, <2>1 DEF Event, IInv, Remembered
  <2> QED
    BY <1>1, <2>2
<1>5. Entered'
  <2>1. \A f \in Frames : tracker[f].sendTime \in 0 .. MaxTime \cup {Never}
    BY DEF IInv, TypeOK
  <2>2. \A f \in Frames : tracker[f].sendTime <= now => tracker[f].sendTime <= now + 1
    BY <1>1, <2>1 DEF Never
  <2> QED
    BY <1>1, <2>2 DEF IInv, Entered
<1>6. Timed' /\ Accounted'
  BY <1>1 DEF IInv, Timed, Accounted, Expected
<1>7. Printed'
  BY <1>1, LinesKept
<1> QED
  BY <1>3, <1>4, <1>5, <1>6, <1>7 DEF IInv

\* What was sent before this line was sent before the last one or is on this one.
LEMMA PrintKeeps ==
  ASSUME IInv, DoPrintPerformance
  PROVE  IInv'
<1> DEFINE L == LastUpdate
           line(g) == CountPhyPacketsPerGw(L, now, g)
           global == CountMacPacketsGlobally(L, now)
           phy(g) == [sent |-> report.phy[g].sent + line(g).sent,
                      booked |-> report.phy[g].booked + Booked(line(g))]
<1>1. /\ UNCHANGED <<now, matrix, sends, coming, radio, events, tracker, heard>>
      /\ report.due = now
      /\ report' = [due |-> now + ReportInterval, phy |-> [g \in Gateways |-> phy(g)],
                    global |-> [n \in {"sent", "received"} |-> report.global[n] + global[n]]]
  BY DEF DoPrintPerformance, PrintPhyPacketsPerGw
<1>2. /\ now \in Nat /\ ReportInterval \in Nat \ {0} /\ L \in Int /\ L <= now
      /\ now + ReportInterval \in Nat
  BY <1>1, TimesAssumption DEF IInv, TypeOK, Printed, LastUpdate
<1>3. \A g \in Gateways :
        /\ line(g).sent \in Nat /\ line(g).sent = Cardinality(SentIn(L, now))
        /\ Booked(line(g)) \in Nat /\ Booked(line(g)) <= line(g).sent
  BY LineAddsUp
<1>4. \A n \in {"sent", "received"} : global[n] \in Nat
  <2> DEFINE sent == {f \in Frames : Within(tracker[f].macSendTime, L, now)}
             got == {f \in sent : \E g \in Gateways : tracker[f].receptionTimes[g] # Never}
  <2>1. Cardinality(sent) \in Nat /\ Cardinality(got) \in Nat
    <3>1. sent \in SUBSET Frames /\ got \in SUBSET Frames
      OBVIOUS
    <3> QED
      BY <3>1, FramesAreFinite
  <2>2. global["sent"] = Cardinality(sent) /\ global["received"] = Cardinality(got)
    BY DEF CountMacPacketsGlobally
  <2> QED
    BY <2>1, <2>2
<1> HIDE DEF L, line, global
<1>5. ASSUME NEW g \in Gateways
      PROVE  /\ report.phy[g].sent \in Nat /\ report.phy[g].booked \in Nat
             /\ phy(g).sent = report.phy[g].sent + line(g).sent
             /\ phy(g).booked = report.phy[g].booked + Booked(line(g))
             /\ phy(g) \in [sent: Nat, booked: Nat]
  <2>1. report.phy[g].sent \in Nat /\ report.phy[g].booked \in Nat
    BY DEF IInv, TypeOK
  <2>2. report.phy[g].sent + line(g).sent \in Nat /\ report.phy[g].booked + Booked(line(g)) \in Nat
    BY <1>3, <2>1
  <2> QED
    BY <2>1, <2>2, Zenon
<1>6. TypeOK'
  <2>1. \A n \in {"sent", "received"} : report.global[n] + global[n] \in Nat
    BY <1>4 DEF IInv, TypeOK
  <2>2. report' \in [due: Nat, phy: [Gateways -> [sent: Nat, booked: Nat]],
                     global: [{"sent", "received"} -> Nat]]
    BY <1>1, <1>2, <1>5, <2>1
  <2> QED
    BY <1>1, <2>2 DEF IInv, TypeOK
<1>7. Timed' /\ Remembered' /\ Entered' /\ Accounted'
  BY <1>1 DEF IInv, Timed, Remembered, HeardAt, Entered, Accounted, Expected
<1>8. Printed'
  <2>1. LastUpdate' = now /\ report'.due = now + ReportInterval
    BY <1>1, <1>2 DEF LastUpdate
  <2>2. ASSUME NEW g \in Gateways
        PROVE  /\ report'.phy[g].sent >= Cardinality(SentIn(0, now - 1))
               /\ report'.phy[g].booked <= report'.phy[g].sent
    <3> DEFINE before == SentIn(0, L - 1)
               these == SentIn(L, now)
               all == SentIn(0, now - 1)
    <3>1. before \in SUBSET Frames /\ these \in SUBSET Frames /\ all \subseteq before \cup these
      <4>1. \A f \in Frames : tracker[f].sendTime \in Int
        BY TimesAssumption DEF IInv, TypeOK, Never
      <4> QED
        BY <1>2, <4>1 DEF SentIn, Within
    <3>2. report.phy[g].sent >= Cardinality(before) /\ report.phy[g].booked <= report.phy[g].sent
      BY DEF IInv, Printed, L
    <3>3. line(g).sent = Cardinality(these)
      BY <1>3
    <3> HIDE DEF before, these, all
    <3>4. /\ IsFiniteSet(before) /\ IsFiniteSet(these)
          /\ IsFiniteSet(before \cap these) /\ Cardinality(before \cap these) \in Nat
          /\ Cardinality(before) \in Nat /\ Cardinality(these) \in Nat
      <4>1. before \cap these \in SUBSET Frames
        BY <3>1
      <4> QED
        BY <3>1, <4>1, FramesAreFinite
    <3>5. /\ IsFiniteSet(before \cup these)
          /\ Cardinality(before \cup these) = Cardinality(before) + Cardinality(these) - Cardinality(before \cap these)
      BY <3>4, FS_Union
    <3>6. Cardinality(all) <= Cardinality(before \cup these) /\ Cardinality(all) \in Nat
      <4>1. IsFiniteSet(all) /\ Cardinality(all) <= Cardinality(before \cup these)
        BY <3>1, <3>5, FS_Subset
      <4> QED
        BY <4>1, FS_CardinalityType
    <3>7. report'.phy[g] = phy(g)
      BY <1>1
    <3>8. report'.phy[g].sent >= Cardinality(all)
      BY <1>5, <3>2, <3>3, <3>4, <3>5, <3>6, <3>7
    <3>9. report'.phy[g].booked <= report'.phy[g].sent
      BY <1>3, <1>5, <3>2, <3>7
    <3> QED
      BY <3>8, <3>9 DEF all
  <2>3. SentIn(0, LastUpdate - 1)' = SentIn(0, now - 1)
    BY <1>1, <2>1 DEF SentIn, Within
  <2> QED
    BY <1>1, <1>2, <2>1, <2>2, <2>3 DEF Printed
<1> QED
  BY <1>6, <1>7, <1>8 DEF IInv

LEMMA StutterKeeps ==
  ASSUME IInv, UNCHANGED vars
  PROVE  IInv'
<1>1. TypeOK'
  BY DEF IInv, TypeOK, vars
<1>2. Timed' /\ Remembered' /\ Entered' /\ Accounted'
  BY DEF IInv, Timed, Remembered, HeardAt, Entered, Accounted, Expected, vars
<1>3. Printed'
  BY LinesKept DEF vars
<1> QED
  BY <1>1, <1>2, <1>3 DEF IInv

LEMMA StepHolds == IInv /\ [Next]_vars => IInv'
  BY SendKeeps, StartReceiveKeeps, EndReceiveKeeps, GatewaySendKeeps, TxFinishedKeeps, PrintKeeps,
     TickKeeps, StutterKeeps DEF Next

-----------------------------------------------------------------------------
(* Theorems *)

\* What a gateway reports on is always an entry of the tracker.
THEOREM TypeCorrect == Spec => []TypeOK
<1>1. IInv => TypeOK
  BY DEF IInv
<1> QED
  BY <1>1, InitHolds, StepHolds, PTL DEF Spec

\* A signal that a gateway heard and forgot overlaps with none that ends now and
\* is no longer than the threshold, so that both lists have the same interferers.
LEMMA ForgottenIsHarmless ==
  ASSUME IInv, NEW h \in heard, h.event.end = now, Duration[h.event.tx[1]] <= OldEventThreshold,
         NEW sf
  PROVE  Interferers(h.event, events[h.gw], sf) = Interferers(h.event, HeardAt(h.gw), sf)
<1> DEFINE e == h.event
           g == h.gw
<1>1. /\ e \in Event /\ g \in Gateways /\ e.tx[1] \in Frames
      /\ e.end = e.start + Duration[e.tx[1]]
  BY DEF IInv, TypeOK, Timed, Event, Transmissions
<1>2. Duration[e.tx[1]] \in Nat /\ e.start \in Int /\ e.end \in Nat /\ OldEventThreshold \in Nat
  BY <1>1, DurationIsNat, TimesAssumption DEF Event
<1>3. ASSUME NEW o \in HeardAt(g), o \notin events[g]
      PROVE  ~(GetOverlapTime(e, o) > 0)
  <2>1. o \in Event /\ o.end + OldEventThreshold < now
    BY <1>1, <1>3 DEF IInv, TypeOK, Remembered, HeardAt
  <2>2. o.end <= e.start
    BY <1>1, <1>2, <2>1 DEF Event
  <2> QED
    BY <2>2 DEF GetOverlapTime
<1>4. events[g] \subseteq HeardAt(g)
  BY <1>1 DEF IInv, Remembered
<1> QED
  BY <1>3, <1>4 DEF Interferers

\* Whatever the signals, the powers and the length of the list: a reception no
\* longer than the threshold is decided with all the signals that overlapped it.
THEOREM NothingForgotten == Spec => []NoInterfererForgotten
<1>1. IInv => NoInterfererForgotten
  <2> SUFFICES ASSUME IInv, NEW h \in heard, h.event.end = now,
                      Duration[h.event.tx[1]] <= OldEventThreshold
               PROVE  IsDestroyedByInterference(h.gw, h.event, events[h.gw])
                      = IsDestroyedByInterference(h.gw, h.event, HeardAt(h.gw))
    BY DEF NoInterfererForgotten
  <2>1. \A sf \in 7 .. 12 :
          Interferers(h.event, events[h.gw], sf) = Interferers(h.event, HeardAt(h.gw), sf)
    BY ForgottenIsHarmless
  <2> QED
    BY <2>1 DEF IsDestroyedByInterference
<1> QED
  BY <1>1, InitHolds, StepHolds, PTL DEF Spec

\* The numbers of the tracker add up for any interval and at every gateway.
THEOREM NumbersAddUp == Spec => []CountsAddUp
<1>1. IInv => CountsAddUp
  <2> SUFFICES ASSUME IInv PROVE CountsAddUp
    OBVIOUS
  <2>1. ASSUME coming = {}, \A h \in heard : h.fate # "receiving", NEW from, NEW to, from \in 0 .. now
        PROVE  /\ \A g \in Gateways :
                    CountPhyPacketsPerGw(from, to, g).sent = Booked(CountPhyPacketsPerGw(from, to, g))
               /\ CountMacPacketsGlobally(from, to).sent = Cardinality(SentIn(from, to))
    <3>1. ASSUME NEW g \in Gateways
          PROVE  CountPhyPacketsPerGw(from, to, g).sent = Booked(CountPhyPacketsPerGw(from, to, g))
      <4>1. \A f \in SentIn(from, to) : tracker[f].outcomes[g] \in Outcomes
        BY <2>1 DEF SentIn, Within, IInv, TypeOK, Accounted, Expected
      <4> QED
        BY <4>1, LineAddsUp
    <3>2. {f \in Frames : Within(tracker[f].macSendTime, from, to)} = SentIn(from, to)
      BY DEF SentIn, IInv, Entered
    <3>3. CountMacPacketsGlobally(from, to).sent = Cardinality(SentIn(from, to))
      BY <3>2 DEF CountMacPacketsGlobally
    <3> QED
      BY <3>1, <3>3
  <2>2. \A g \in Gateways :
          /\ report.phy[g].sent >= Cardinality(SentIn(0, LastUpdate - 1))
          /\ report.phy[g].booked <= report.phy[g].sent
    BY DEF IInv, Printed
  <2> QED
    BY <2>1, <2>2 DEF CountsAddUp
<1> QED
  BY <1>1, InitHolds, StepHolds, PTL DEF Spec

-----------------------------------------------------------------------------
(* Sums over sets *)

\* Induction, as a statement about a set of numbers.
LEMMA EveryNumber ==
  ASSUME NEW T \in SUBSET Nat, 0 \in T, \A n \in T : n + 1 \in T
  PROVE  T = Nat
<1> SUFFICES ASSUME Nat \ T # {} PROVE FALSE
  OBVIOUS
<1>1. PICK n \in Nat \ T : \A m \in Nat \ T : ~(<<m, n>> \in OpToRel(<, Nat))
  BY WFMin, NatLessThanWellFounded
<1>2. n \in Nat /\ n # 0 /\ n - 1 \in Nat /\ n - 1 < n
  OBVIOUS
<1>3. n - 1 \notin T
  BY <1>2
<1> QED
  BY <1>1, <1>2, <1>3 DEF OpToRel

Chosen(s) == CHOOSE x \in s : TRUE

\* The sum of the weights of the elements of s, by recursion on the subsets of S.
Sums(sum, w, S) ==
  sum = [s \in SUBSET S |-> IF s = {} THEN 0 ELSE w[Chosen(s)] + sum[s \ {Chosen(s)}]]

LEMMA OneLess ==
  ASSUME NEW S, IsFiniteSet(S), NEW s \in SUBSET S, NEW n \in Nat, Cardinality(s) <= n + 1
  PROVE  /\ Cardinality(s) <= n \/ (s # {} /\ Cardinality(s) = n + 1)
         /\ s # {} => /\ Chosen(s) \in s /\ s \ {Chosen(s)} \in SUBSET S
                      /\ Cardinality(s \ {Chosen(s)}) <= n
<1>1. IsFiniteSet(s) /\ Cardinality(s) \in Nat
  BY FS_Subset, FS_CardinalityType
<1>2. s = {} => Cardinality(s) = 0
  BY FS_EmptySet
<1>3. ASSUME s # {}
      PROVE  /\ Chosen(s) \in s /\ s \ {Chosen(s)} \in SUBSET S
             /\ Cardinality(s \ {Chosen(s)}) <= n
  <2>1. Chosen(s) \in s
    BY <1>3 DEF Chosen
  <2>2. Cardinality(s \ {Chosen(s)}) = Cardinality(s) - 1
    BY <1>1, <2>1, FS_RemoveElement
  <2>3. Cardinality(s) - 1 <= n
    BY <1>1
  <2> QED
    BY <2>1, <2>2, <2>3
<1>4. Cardinality(s) <= n \/ Cardinality(s) = n + 1
  BY <1>1
<1> QED
  BY <1>2, <1>3, <1>4

LEMMA NoneLess ==
  ASSUME NEW S, IsFiniteSet(S), NEW s \in SUBSET S
  PROVE  Cardinality(s) <= 0 <=> s = {}
<1>1. IsFiniteSet(s) /\ Cardinality(s) \in Nat
  BY FS_Subset, FS_CardinalityType
<1>2. Cardinality(s) = 0 <=> s = {}
  BY <1>1, FS_EmptySet
<1> QED
  BY <1>1, <1>2

\* The recursion defines a function: for the empty set, and for the sets of n + 1
\* elements if it does for those of n.
LEMMA SumExists ==
  ASSUME NEW S, IsFiniteSet(S), NEW w \in [S -> Nat]
  PROVE  \E sum \in [SUBSET S -> Nat] : Sums(sum, w, S)
<1> DEFINE next(f, s) == IF s = {} THEN 0 ELSE w[Chosen(s)] + f[s \ {Chosen(s)}]
           upTo(f, n) == \A s \in SUBSET S : Cardinality(s) <= n => f[s] = next(f, s)
           Good == {n \in Nat : \E f \in [SUBSET S -> Nat] : upTo(f, n)}
<1>1. 0 \in Good
  <2> DEFINE f == [s \in SUBSET S |-> 0]
  <2>1. \A s \in SUBSET S : Cardinality(s) <= 0 => f[s] = next(f, s)
    BY NoneLess
  <2>2. f \in [SUBSET S -> Nat] /\ upTo(f, 0)
    BY <2>1
  <2> HIDE DEF f, upTo
  <2> QED
    BY <2>2
<1>2. ASSUME NEW n \in Good
      PROVE  n + 1 \in Good
  <2>1. n \in Nat /\ n + 1 \in Nat
    OBVIOUS
  <2>2. PICK g \in [SUBSET S -> Nat] : upTo(g, n)
    OBVIOUS
  <2> DEFINE f == [s \in SUBSET S |-> IF Cardinality(s) <= n THEN g[s] ELSE next(g, s)]
  <2>3. f \in [SUBSET S -> Nat]
    <3>1. ASSUME NEW s \in SUBSET S PROVE next(g, s) \in Nat
      <4>1. s # {} => Chosen(s) \in S /\ s \ {Chosen(s)} \in SUBSET S
        BY DEF Chosen
      <4> QED
        BY <4>1
    <3> QED
      BY <3>1
  <2>4. ASSUME NEW s \in SUBSET S, Cardinality(s) <= n + 1
        PROVE  f[s] = next(f, s)
    <3>1. f[s] = next(g, s)
      BY <2>2
    <3>2. s # {} => s \ {Chosen(s)} \in SUBSET S /\ Cardinality(s \ {Chosen(s)}) <= n
      BY <2>1, <2>4, OneLess
    <3>3. next(f, s) = next(g, s)
      BY <3>2
    <3> QED
      BY <3>1, <3>3
  <2>5. upTo(f, n + 1)
    BY <2>4
  <2> HIDE DEF f, upTo
  <2> QED
    BY <2>1, <2>3, <2>5
<1>3. Good = Nat
  <2> HIDE DEF upTo
  <2>1. Good \in SUBSET Nat
    OBVIOUS
  <2> HIDE DEF Good
  <2> QED
    BY <1>1, <1>2, <2>1, EveryNumber
<1>4. Cardinality(S) \in Nat
  BY FS_CardinalityType
<1>5. PICK f \in [SUBSET S -> Nat] : upTo(f, Cardinality(S))
  <2> HIDE DEF upTo
  <2> QED
    BY <1>3, <1>4
<1>6. \A s \in SUBSET S : Cardinality(s) <= Cardinality(S)
  BY FS_Subset
<1>7. f = [s \in SUBSET S |-> next(f, s)]
  BY <1>5, <1>6
<1> QED
  BY <1>7 DEF Sums

\* A sum of natural numbers is one, and at least each of them.
LEMMA SumBounds ==
  ASSUME NEW S, IsFiniteSet(S), NEW w \in [S -> Nat], NEW sum, Sums(sum, w, S)
  PROVE  sum[S] \in Nat /\ \A x \in S : sum[S] >= w[x]
<1> DEFINE good(s) == sum[s] \in Nat /\ \A x \in s : sum[s] >= w[x]
           Good == {n \in Nat : \A s \in SUBSET S : Cardinality(s) <= n => good(s)}
<1>1. \A s \in SUBSET S : sum[s] = IF s = {} THEN 0 ELSE w[Chosen(s)] + sum[s \ {Chosen(s)}]
  BY Zenon DEF Sums
<1>2. 0 \in Good
  <2>1. {} \in SUBSET S
    OBVIOUS
  <2>2. sum[{}] = 0
    BY <1>1, <2>1
  <2>3. good({})
    BY <2>2
  <2> HIDE DEF good
  <2> QED
    BY <2>3, NoneLess
<1>3. ASSUME NEW n \in Good
      PROVE  n + 1 \in Good
  <2>1. n \in Nat
    OBVIOUS
  <2>2. ASSUME NEW s \in SUBSET S, Cardinality(s) <= n + 1
        PROVE  good(s)
    <3>1. CASE s = {}
      BY <1>1, <3>1
    <3>2. CASE s # {}
      <4> DEFINE c == Chosen(s)
                 t == s \ {c}
      <4>1. c \in s /\ t \in SUBSET S /\ Cardinality(t) <= n
        BY <2>1, <2>2, <3>2, OneLess
      <4>2. sum[s] = w[c] + sum[t]
        BY <1>1, <3>2
      <4>3. \A x \in s : x = c \/ x \in t
        OBVIOUS
      <4> HIDE DEF c, t
      <4>4. good(t)
        BY <4>1
      <4>5. \A x \in S : w[x] \in Nat
        OBVIOUS
      <4>6. w[c] \in Nat
        BY <4>1
      <4>7. sum[s] \in Nat
        BY <4>2, <4>4, <4>6
      <4>8. ASSUME NEW x \in s PROVE sum[s] >= w[x]
        BY <4>2, <4>3, <4>4, <4>5, <4>6
      <4> QED
        BY <4>7, <4>8
    <3> QED
      BY <3>1, <3>2
  <2> HIDE DEF good
  <2> QED
    BY <2>1, <2>2
<1> HIDE DEF good
<1>4. Good \in SUBSET Nat
  OBVIOUS
<1>5. Good = Nat
  <2> HIDE DEF Good
  <2> QED
    BY <1>2, <1>3, <1>4, EveryNumber
<1>6. Cardinality(S) \in Nat /\ Cardinality(S) <= Cardinality(S)
  BY FS_CardinalityType
<1>7. good(S)
  BY <1>5, <1>6
<1> QED
  BY <1>7 DEF good

-----------------------------------------------------------------------------
(* The energy of interferers *)

\* The energy of interferers is at least that of each of them.
LEMMA EnergyAddsUp ==
  ASSUME NEW g, NEW e, NEW S, IsFiniteSet(S),
         \A o \in S : GetOverlapTime(e, o) * Linear(RxPower[o.tx[1]][g]) \in Nat
  PROVE  /\ cumulativeInterferenceEnergy(g, e, S) \in Nat
         /\ \A o \in S : cumulativeInterferenceEnergy(g, e, S)
                         >= GetOverlapTime(e, o) * Linear(RxPower[o.tx[1]][g])
<1> DEFINE energy(o) == GetOverlapTime(e, o) * Linear(RxPower[o.tx[1]][g])
           w == [o \in S |-> energy(o)]
           rhs(f) == [s \in SUBSET S |-> IF s = {} THEN 0 ELSE energy(Chosen(s)) + f[s \ {Chosen(s)}]]
           sum == CHOOSE f : f = rhs(f)
<1>1. cumulativeInterferenceEnergy(g, e, S) = sum[S]
  BY Zenon DEF cumulativeInterferenceEnergy, MapThenSumSet, MapThenFoldSet, Chosen
<1> HIDE DEF energy
<1>2. w \in [S -> Nat] /\ \A o \in S : w[o] = energy(o)
  BY DEF energy
<1>3. ASSUME NEW s \in SUBSET S, s # {} PROVE Chosen(s) \in S
  BY <1>3 DEF Chosen
<1>4. \A f : f = rhs(f) <=> Sums(f, w, S)
  BY <1>2, <1>3 DEF Sums
<1> HIDE DEF w, rhs
<1>5. \E f : f = rhs(f)
  BY <1>2, <1>4, SumExists
<1>6. sum = rhs(sum)
  BY <1>5
<1> HIDE DEF sum
<1>7. Sums(sum, w, S)
  BY <1>4, <1>6
<1>8. sum[S] \in Nat /\ \A o \in S : sum[S] >= w[o]
  BY <1>2, <1>7, SumBounds
<1> QED
  BY <1>1, <1>2, <1>8 DEF energy

\* The isolation that a signal needs against others of its spreading factor.
LEMMA OwnIsolation ==
  ASSUME NEW sf \in 7 .. 12
  PROVE  Ratio(collisionSnirGoursaud[sf][sf - 6]) = 39811
<1>1. collisionSnirGoursaud[sf][sf - 6] = 6
  <2>1. CASE sf = 7
    BY <2>1 DEF collisionSnirGoursaud
  <2>2. CASE sf = 8
    BY <2>2 DEF collisionSnirGoursaud
  <2>3. CASE sf = 9
    BY <2>3 DEF collisionSnirGoursaud
  <2>4. CASE sf = 10
    BY <2>4 DEF collisionSnirGoursaud
  <2>5. CASE sf = 11
    BY <2>5 DEF collisionSnirGoursaud
  <2>6. CASE sf = 12
    BY <2>6 DEF collisionSnirGoursaud
  <2> QED
    BY <2>1, <2>2, <2>3, <2>4, <2>5, <2>6
<1>2. Ratio(6) = 39811
  BY DEF Ratio, Decade
<1> QED
  BY <1>1, <1>2

LEMMA OwnSurvival ==
  ASSUME NEW sf \in 7 .. 12, NEW signal, NEW interference
  PROVE  Survives(sf, sf, signal, interference)
         <=> \/ interference = 0
             \/ matrix = "GOURSAUD" /\ signal * 10000 >= 39811 * interference
  BY OwnIsolation DEF Survives

-----------------------------------------------------------------------------
(* Two frames on one channel *)

\* Every frame is heard with some energy.  In the code a power is a positive number;
\* here that is one which amounts to a unit.
Audible == \A f \in Frames, g \in Gateways : Linear(RxPower[f][g]) \in Nat \ {0}

\* What a signal adds to the energy of interferers at a gateway.
Share(g, e, o) == GetOverlapTime(e, o) * Linear(RxPower[o.tx[1]][g])

Rivals(e, o) ==
  /\ e.tx # o.tx
  /\ Sf[e.tx[1]] = Sf[o.tx[1]] /\ Frequency[e.tx[1]] = Frequency[o.tx[1]]
  /\ GetOverlapTime(e, o) > 0

\* A signal is strong enough for another one of its spreading factor.
Withstands(g, e, o) ==
  LET f == e.tx[1]
  IN  Survives(Sf[f], Sf[f], (e.end - e.start) * Linear(RxPower[f][g]), Share(g, e, o))

FiniteLists == \A g \in Gateways : IsFiniteSet(events[g])

\* A gateway receives what it remembers, and has received what is over.
ReceivedIsKnown ==
  \A h \in heard :
    /\ h.fate \in {"receiving", "received"} => h.known
    /\ h.fate = "received" => h.event.end <= now

\* What was received withstood each of its rivals that was still remembered.
Judged ==
  \A h \in heard : h.fate = "received" =>
    \A e \in HeardAt(h.gw) :
      Rivals(h.event, e) /\ e.end + OldEventThreshold >= h.event.end => Withstands(h.gw, h.event, e)

Fair == FiniteLists /\ ReceivedIsKnown /\ Judged

LEMMA OverlapIsInt ==
  ASSUME NEW e \in Event, NEW o \in Event
  PROVE  GetOverlapTime(e, o) \in Int
  BY DEF GetOverlapTime, AtMost, AtLeast, Event

LEMMA OverlapBounds ==
  ASSUME NEW e, NEW o, e.start \in Int, e.end \in Int, o.start \in Int, o.end \in Int,
         e.start <= e.end, o.start <= o.end
  PROVE  GetOverlapTime(e, o) >= 0 /\ (GetOverlapTime(e, o) > 0 => GetOverlapTime(e, o) <= o.end - e.start)
<1>1. CASE e.end <= o.start \/ o.end <= e.start
  BY <1>1 DEF GetOverlapTime
<1>2. CASE ~(e.end <= o.start \/ o.end <= e.start)
  <2> DEFINE first == AtMost(e.end, o.end)
             last == AtLeast(e.start, o.start)
  <2>1. GetOverlapTime(e, o) = first - last
    BY <1>2 DEF GetOverlapTime
  <2>2. first \in Int /\ first <= o.end /\ (first = e.end \/ first = o.end)
    BY DEF AtMost
  <2>3. last \in Int /\ last >= e.start /\ (last = e.start \/ last = o.start)
    BY DEF AtLeast
  <2> HIDE DEF first, last
  <2> QED
    BY <1>2, <2>1, <2>2, <2>3
<1> QED
  BY <1>1, <1>2

\* A signal that withstands all its interferers together withstands each.
LEMMA TogetherAndEach ==
  ASSUME IInv, FiniteLists, Audible, NEW h \in heard,
         ~IsDestroyedByInterference(h.gw, h.event, events[h.gw]),
         NEW e \in events[h.gw], Rivals(h.event, e)
  PROVE  Withstands(h.gw, h.event, e)
<1> DEFINE g == h.gw
           f == h.event.tx[1]
           sf == Sf[f]
           S == Interferers(h.event, events[g], sf)
           all == cumulativeInterferenceEnergy(g, h.event, S)
           signal == (h.event.end - h.event.start) * Linear(RxPower[f][g])
           share == Share(g, h.event, e)
<1>1. /\ g \in Gateways /\ h.event \in Event /\ f \in Frames /\ sf \in 7 .. 12
      /\ events[g] \subseteq Event
  BY FramesAssumption DEF IInv, TypeOK, Event, Transmissions
<1>2. e \in S
  BY DEF Rivals, Interferers
<1>3. IsFiniteSet(S)
  <2>1. S \subseteq events[g]
    BY DEF Interferers
  <2> QED
    BY <1>1, <2>1, FS_Subset DEF FiniteLists
<1>4. ASSUME NEW o \in S
      PROVE  GetOverlapTime(h.event, o) * Linear(RxPower[o.tx[1]][g]) \in Nat
  <2>1. o \in Event /\ GetOverlapTime(h.event, o) > 0 /\ o.tx[1] \in Frames
    BY <1>1 DEF Interferers, Event, Transmissions
  <2>2. GetOverlapTime(h.event, o) \in Nat /\ Linear(RxPower[o.tx[1]][g]) \in Nat
    BY <1>1, <2>1, OverlapIsInt DEF Audible
  <2> QED
    BY <2>2
<1>5. all \in Nat /\ share \in Nat /\ all >= share
  BY <1>2, <1>3, <1>4, EnergyAddsUp DEF Share
<1>6. Survives(sf, sf, signal, all)
  BY <1>1 DEF IsDestroyedByInterference
<1>7. signal \in Int
  <2>1. h.event.end - h.event.start \in Int /\ Linear(RxPower[f][g]) \in Nat
    BY <1>1, TimesAssumption DEF Event, Audible
  <2> QED
    BY <2>1
<1>8. Survives(sf, sf, signal, share)
  <2> HIDE DEF all, signal, share, sf
  <2>1. all = 0 \/ (matrix = "GOURSAUD" /\ signal * 10000 >= 39811 * all)
    BY <1>1, <1>6, OwnSurvival
  <2>2. share = 0 \/ (matrix = "GOURSAUD" /\ signal * 10000 >= 39811 * share)
    BY <1>5, <1>7, <2>1
  <2> QED
    BY <1>1, <2>2, OwnSurvival
<1> QED
  BY <1>8 DEF Withstands

LEMMA FairInit == Init => Fair
  BY FS_EmptySet DEF Init, Fair, FiniteLists, ReceivedIsKnown, Judged

\* A signal that begins overlaps with none that is over.
LEMMA StartIsFair ==
  ASSUME IInv, Fair, NEW c \in coming, StartReceive(c)
  PROVE  Fair'
<1> DEFINE f == c.tx[1]
           g == c.gw
           e == [tx |-> c.tx, start |-> now, end |-> now + Duration[f]]
           fate(traces) == IF traces = {} THEN "receiving" ELSE (CHOOSE t \in traces : TRUE)[2]
           entry(what) == [gw |-> g, event |-> e, known |-> ~radio[g].transmitting, fate |-> what]
<1>1. PICK r \in GW!StartReceive(radio[g], c.tx, Duration[f], 100 * RxPower[f][g] >= GatewaySensitivity(Sf[f])) :
        heard' = heard \cup {entry(fate(r[2]))}
  BY DEF StartReceive
<1>2. /\ UNCHANGED <<now, matrix>> /\ now \in Nat
      /\ events' = IF radio[g].transmitting THEN events ELSE [events EXCEPT ![g] = Add(events[g], e)]
  BY TimesAssumption DEF StartReceive, IInv, TypeOK
<1>3. c.tx \in Transmissions /\ f \in Frames /\ g \in Gateways
  BY DEF IInv, TypeOK, Transmissions
<1>4. Duration[f] \in Nat /\ radio[g] \in GW!GatewayType /\ radio[g].transmitting \in BOOLEAN
  BY <1>3, DurationIsNat DEF IInv, TypeOK, GW!GatewayType
<1> DEFINE w == fate(r[2])
<1>5. w # "received" /\ (w = "receiving" => ~radio[g].transmitting)
  <2>1. CASE radio[g].transmitting
    <3>1. r[2] = {<<c.tx, "transmitting">>}
      BY <1>1, <2>1 DEF GW!StartReceive
    <3>2. (CHOOSE t \in {<<c.tx, "transmitting">>} : TRUE) = <<c.tx, "transmitting">>
      BY ONLY TheOnlyOne
    <3> QED
      BY <3>1, <3>2
  <2>2. CASE ~radio[g].transmitting
    <3> DEFINE strong == 100 * RxPower[f][g] >= GatewaySensitivity(Sf[f])
    <3>1. strong \in BOOLEAN /\ r \in GW!StartReceive(radio[g], c.tx, Duration[f], strong)
      BY <1>1
    <3> HIDE DEF strong
    <3>2. \/ r[2] = {}
          \/ \E o \in {"transmitting", "demodulators", "sensitivity"} : r[2] = {<<c.tx, o>>}
      BY <1>3, <1>4, <3>1, RadioStarts
    <3>3. ASSUME NEW o \in {"transmitting", "demodulators", "sensitivity"}, r[2] = {<<c.tx, o>>}
          PROVE  w = o
      <4>1. w = (CHOOSE t \in {<<c.tx, o>>} : TRUE)[2]
        BY <3>3
      <4>2. (CHOOSE t \in {<<c.tx, o>>} : TRUE) = <<c.tx, o>>
        BY ONLY TheOnlyOne
      <4> QED
        BY <4>1, <4>2
    <3> QED
      BY <2>2, <3>2, <3>3
  <2> QED
    BY <1>4, <2>1, <2>2
<1> HIDE DEF w
<1>6. heard' = heard \cup {entry(w)}
  BY <1>1 DEF w
<1>7. /\ e.start = now /\ entry(w).event = e /\ entry(w).gw = g /\ entry(w).fate = w
      /\ entry(w).known = ~radio[g].transmitting
  OBVIOUS
<1> HIDE DEF e, entry, f
<1>8. FiniteLists'
  <2>1. IsFiniteSet(events[g] \cup {e})
    BY <1>3, FS_AddElement DEF Fair, FiniteLists
  <2>2. IsFiniteSet(Add(events[g], e))
    <3>1. Add(events[g], e) \subseteq events[g] \cup {e}
      BY AddKeeps
    <3> QED
      BY <2>1, <3>1, FS_Subset
  <2> QED
    BY <1>2, <2>2 DEF Fair, FiniteLists, IInv, TypeOK
<1>9. ReceivedIsKnown'
  BY <1>2, <1>5, <1>6, <1>7 DEF Fair, ReceivedIsKnown
<1>10. Judged'
  <2> SUFFICES ASSUME NEW h \in heard', h.fate = "received", NEW o \in HeardAt(h.gw)',
                      Rivals(h.event, o), o.end + OldEventThreshold >= h.event.end
               PROVE  Withstands(h.gw, h.event, o)'
    BY DEF Judged
  <2>1. h \in heard
    BY <1>5, <1>6, <1>7
  <2>2. CASE o \in HeardAt(h.gw)
    BY <1>2, <2>1, <2>2 DEF Fair, Judged, Withstands, Survives, Share
  <2>3. CASE o \notin HeardAt(h.gw)
    <3>1. o = e
      BY <1>6, <1>7, <2>3 DEF HeardAt
    <3>2. h.event.end <= e.start
      BY <1>7, <2>1 DEF Fair, ReceivedIsKnown
    <3> QED
      BY <3>1, <3>2 DEF Rivals, GetOverlapTime
  <2> QED
    BY <2>2, <2>3
<1> QED
  BY <1>8, <1>9, <1>10 DEF Fair

\* A reception ends well after a look at all that was remembered.
LEMMA EndIsFair ==
  ASSUME IInv, Fair, Audible, NEW h \in heard, EndReceive(h)
  PROVE  Fair'
<1> DEFINE destroyed == IsDestroyedByInterference(h.gw, h.event, events[h.gw])
           o == IF destroyed THEN "interfered" ELSE "received"
           settled == [h EXCEPT !.fate = o]
<1>1. /\ h.fate = "receiving" /\ h.event.end = now /\ UNCHANGED <<now, matrix, events>>
      /\ heard' = (heard \ {h}) \cup {settled}
  BY DEF EndReceive, Settle
<1>2. /\ h.gw \in Gateways /\ now \in Nat /\ h.known
      /\ settled.event = h.event /\ settled.gw = h.gw /\ settled.known = h.known /\ settled.fate = o
  <2>1. h \in [gw: Gateways, event: Event, known: BOOLEAN, fate: Outcomes \cup {"receiving"}]
    BY DEF IInv, TypeOK
  <2>2. h.known
    BY <1>1 DEF Fair, ReceivedIsKnown
  <2>3. now \in Nat
    BY TimesAssumption DEF IInv, TypeOK
  <2> HIDE DEF o
  <2> QED
    BY <2>1, <2>2, <2>3, Zenon
<1>3. \A g \in Gateways : HeardAt(g)' = HeardAt(g)
  <2>1. o \in Outcomes /\ {h} \in SUBSET heard
    BY DEF Outcomes
  <2>2. heard' = (heard \ {h}) \cup {[k EXCEPT !.fate = o] : k \in {h}}
    BY <1>1
  <2> HIDE DEF o
  <2> QED
    BY <2>1, <2>2, SettledIsHeard
<1>4. o = "received" => ~destroyed
  OBVIOUS
<1> HIDE DEF o, settled
<1>5. FiniteLists' /\ ReceivedIsKnown'
  <2>1. settled.known /\ settled.event.end <= now
    BY <1>1, <1>2
  <2>2. \A k \in heard : /\ k.fate \in {"receiving", "received"} => k.known
                         /\ k.fate = "received" => k.event.end <= now
    BY DEF Fair, ReceivedIsKnown
  <2>3. \A k \in heard' : k \in heard \/ k = settled
    BY <1>1
  <2>4. ReceivedIsKnown'
    BY <1>1, <2>1, <2>2, <2>3 DEF ReceivedIsKnown
  <2> QED
    BY <1>1, <2>4 DEF Fair, FiniteLists
<1>6. Judged'
  <2> SUFFICES ASSUME NEW k \in heard', k.fate = "received", NEW e \in HeardAt(k.gw)',
                      Rivals(k.event, e), e.end + OldEventThreshold >= k.event.end
               PROVE  Withstands(k.gw, k.event, e)'
    BY DEF Judged
  <2>1. k.gw \in Gateways /\ e \in HeardAt(k.gw)
    BY <1>1, <1>2, <1>3 DEF IInv, TypeOK
  <2>2. Withstands(k.gw, k.event, e)
    <3>1. CASE k \in heard
      BY <2>1, <3>1 DEF Fair, Judged
    <3>2. CASE k = settled
      <4>1. e \in events[h.gw]
        <5>1. e \in Event /\ OldEventThreshold \in Nat
          BY <2>1, TimesAssumption DEF HeardAt, IInv, TypeOK
        <5>2. ~(e.end + OldEventThreshold < now)
          BY <1>1, <1>2, <3>2, <5>1 DEF Event
        <5> QED
          BY <1>2, <2>1, <3>2, <5>2 DEF IInv, Remembered
      <4> QED
        BY <1>2, <1>4, <3>2, <4>1, TogetherAndEach DEF Fair
    <3> QED
      BY <1>1, <3>1, <3>2
  <2> QED
    BY <1>1, <2>2 DEF Withstands, Survives, Share
<1> QED
  BY <1>5, <1>6 DEF Fair

\* What a downlink cuts off is not received.
LEMMA DownlinkIsFair ==
  ASSUME IInv, Fair, NEW g \in Gateways, NEW d \in TxTimes, GatewaySend(g, d)
  PROVE  Fair'
<1> DEFINE cut == {h \in heard : h.gw = g /\ h.fate = "receiving"}
<1>1. /\ UNCHANGED <<now, matrix, events>>
      /\ heard' = (heard \ cut) \cup {[h EXCEPT !.fate = "transmitting"] : h \in cut}
  BY DEF GatewaySend
<1>2. cut \in SUBSET heard /\ "transmitting" \in Outcomes
  BY DEF Outcomes
<1>3. \A j \in Gateways : HeardAt(j)' = HeardAt(j)
  BY <1>1, <1>2, SettledIsHeard
<1>4. \A h \in heard' : h \in heard \/ h.fate = "transmitting"
  <2>1. \A h \in heard : [h EXCEPT !.fate = "transmitting"].fate = "transmitting"
    BY DEF IInv, TypeOK
  <2> QED
    BY <1>1, <2>1
<1> HIDE DEF cut
<1>5. FiniteLists' /\ ReceivedIsKnown'
  BY <1>1, <1>4 DEF Fair, FiniteLists, ReceivedIsKnown
<1>6. Judged'
  <2> SUFFICES ASSUME NEW k \in heard', k.fate = "received", NEW e \in HeardAt(k.gw)',
                      Rivals(k.event, e), e.end + OldEventThreshold >= k.event.end
               PROVE  Withstands(k.gw, k.event, e)'
    BY DEF Judged
  <2>1. k \in heard /\ k.gw \in Gateways
    BY <1>4 DEF IInv, TypeOK
  <2>2. Withstands(k.gw, k.event, e)
    BY <1>3, <2>1 DEF Fair, Judged
  <2> QED
    BY <1>1, <2>2 DEF Withstands, Survives, Share
<1> QED
  BY <1>5, <1>6 DEF Fair

\* The other steps leave signals and lists alone.
LEMMA RestIsFair ==
  ASSUME IInv, Fair, UNCHANGED <<matrix, events, heard>>, now' = now \/ now' = now + 1
  PROVE  Fair'
<1>1. FiniteLists'
  BY DEF Fair, FiniteLists
<1>2. ReceivedIsKnown'
  <2>1. \A h \in heard : h.event.end \in Nat
    BY DEF IInv, TypeOK, Event
  <2>2. now \in Nat
    BY TimesAssumption DEF IInv, TypeOK
  <2> QED
    BY <2>1, <2>2 DEF Fair, ReceivedIsKnown
<1>3. Judged'
  BY DEF Fair, Judged, HeardAt, Withstands, Survives, Share
<1> QED
  BY <1>1, <1>2, <1>3 DEF Fair

LEMMA StepIsFair == Audible /\ IInv /\ Fair /\ [Next]_vars => Fair'
<1> SUFFICES ASSUME Audible, IInv, Fair, [Next]_vars PROVE Fair'
  OBVIOUS
<1>1. ASSUME NEW f \in Frames, Send(f) PROVE Fair'
  BY <1>1, RestIsFair DEF Send
<1>2. ASSUME NEW g \in Gateways, TxFinished(g) PROVE Fair'
  BY <1>2, RestIsFair DEF TxFinished
<1>3. CASE DoPrintPerformance
  BY <1>3, RestIsFair DEF DoPrintPerformance
<1>4. CASE Tick
  BY <1>4, RestIsFair DEF Tick
<1>5. CASE UNCHANGED vars
  BY <1>5, RestIsFair DEF vars
<1> QED
  BY <1>1, <1>2, <1>3, <1>4, <1>5, StartIsFair, EndIsFair, DownlinkIsFair DEF Next

-----------------------------------------------------------------------------
(* At most one of two *)

\* What a frame lasts beyond the threshold is less than a quarter of it and a rival.
\* A rival that is forgotten before the frame ends has overlapped with no more.
\* Frames no longer than the threshold need nothing of this; for the longest, with
\* SF12 and 2.63 s against 2 s, and a short rival it does not hold.
Rememberable ==
  \A f, o \in Frames :
    f # o /\ Sf[f] = Sf[o] /\ Frequency[f] = Frequency[o] /\ Duration[f] > OldEventThreshold
    => LET rest == Duration[f] - OldEventThreshold - 1
       IN  15 * rest * rest <= Duration[f] * Duration[o]

LEMMA ProductsOrdered ==
  ASSUME NEW a \in Nat, NEW b \in Nat, NEW c \in Nat, NEW d \in Nat, a >= c, b >= d
  PROVE  a * b >= c * d
<1>1. a * b >= c * b
  OBVIOUS
<1>2. c * b >= c * d
  OBVIOUS
<1>3. a * b \in Nat /\ c * b \in Nat /\ c * d \in Nat
  OBVIOUS
<1> QED
  BY <1>1, <1>2, <1>3

\* Two frames, each of which is stronger than its share of the other one allows.
LEMMA BothTooStrong ==
  ASSUME NEW a \in Nat, NEW b \in Nat, NEW p \in Nat \ {0}, NEW q \in Nat \ {0}, NEW t \in Nat,
         a * p * 10000 >= 39811 * (t * q), b * q * 10000 >= 39811 * (t * p)
  PROVE  15 * t * t <= a * b
<1>1. (a * p * 10000) * (b * q * 10000) >= (39811 * (t * q)) * (39811 * (t * p))
  <2>1. a * p * 10000 \in Nat /\ b * q * 10000 \in Nat /\ 39811 * (t * q) \in Nat /\ 39811 * (t * p) \in Nat
    OBVIOUS
  <2> QED
    BY <2>1, ProductsOrdered
<1> DEFINE x == a * b
           y == t * t
           z == p * q
<1>2. /\ (a * p * 10000) * (b * q * 10000) = 100000000 * x * z
      /\ (39811 * (t * q)) * (39811 * (t * p)) = 1584915721 * y * z
  OBVIOUS
<1>3. x \in Nat /\ y \in Nat /\ z \in Nat /\ z > 0
  OBVIOUS
<1> HIDE DEF x, y, z
<1>4. 100000000 * x >= 1584915721 * y
  <2> SUFFICES ASSUME 100000000 * x < 1584915721 * y PROVE FALSE
    BY <1>3
  <2>1. (100000000 * x) * z < (1584915721 * y) * z
    BY <1>3
  <2> QED
    BY <1>1, <1>2, <1>3, <2>1
<1>5. 15 * y <= x
  BY <1>3, <1>4
<1>6. 15 * t * t = 15 * y
  BY DEF y
<1> QED
  BY <1>5, <1>6 DEF x

\* One of two frames that share more than this withstood the other when it ended.
LEMMA EachWithstood ==
  ASSUME IInv, Fair, Rememberable, NEW h \in heard, NEW k \in heard,
         h.fate = "received", k.fate = "received", h.gw = k.gw,
         h.event.tx[1] # k.event.tx[1], Sf[h.event.tx[1]] = Sf[k.event.tx[1]],
         Frequency[h.event.tx[1]] = Frequency[k.event.tx[1]],
         15 * GetOverlapTime(h.event, k.event) * GetOverlapTime(h.event, k.event)
         > Duration[h.event.tx[1]] * Duration[k.event.tx[1]]
  PROVE  GetOverlapTime(h.event, k.event) > 0 /\ Withstands(h.gw, h.event, k.event)
<1> DEFINE f == h.event.tx[1]
           o == k.event.tx[1]
           t == GetOverlapTime(h.event, k.event)
           T == OldEventThreshold
<1>1. /\ h.event \in Event /\ k.event \in Event /\ f \in Frames /\ o \in Frames
      /\ h.event.end = h.event.start + Duration[f] /\ k.event.end = k.event.start + Duration[o]
  BY DEF IInv, TypeOK, Timed, Event, Transmissions
<1>2. Duration[f] \in Nat /\ Duration[o] \in Nat /\ T \in Nat /\ t \in Int
      /\ h.event.start \in Int /\ k.event.start \in Int /\ h.event.end \in Nat /\ k.event.end \in Nat
  BY <1>1, DurationIsNat, OverlapIsInt, TimesAssumption DEF Event
<1>3. t >= 0 /\ (t > 0 => t <= k.event.end - h.event.start)
  BY <1>1, <1>2, OverlapBounds
<1>4. 15 * t * t > Duration[f] * Duration[o] /\ Duration[f] * Duration[o] \in Nat
  BY <1>2
<1> HIDE DEF t
<1>5. t > 0
  BY <1>2, <1>3, <1>4
<1>6. k.event.end + T >= h.event.end
  <2> SUFFICES ASSUME k.event.end + T < h.event.end PROVE FALSE
    BY <1>2
  <2> DEFINE rest == Duration[f] - T - 1
  <2>1. t <= rest /\ rest \in Nat /\ Duration[f] > T
    BY <1>1, <1>2, <1>3, <1>5
  <2>2. 15 * rest * rest <= Duration[f] * Duration[o]
    BY <1>1, <2>1 DEF Rememberable
  <2> HIDE DEF rest
  <2>3. t * t <= rest * rest /\ t * t \in Nat /\ rest * rest \in Nat
    BY <1>2, <1>5, <2>1, ProductsOrdered
  <2>4. 15 * t * t = 15 * (t * t) /\ 15 * rest * rest = 15 * (rest * rest)
    BY <1>2, <2>1
  <2> QED
    BY <1>4, <2>2, <2>3, <2>4
<1>7. k.event \in HeardAt(h.gw)
  BY DEF Fair, ReceivedIsKnown, HeardAt
<1>8. Rivals(h.event, k.event)
  BY <1>5 DEF Rivals, t
<1> QED
  BY <1>5, <1>6, <1>7, <1>8 DEF Fair, Judged, t

\* Whatever the number of signals and whatever was forgotten: of two frames that
\* share so much of their time a gateway receives one at most.
THEOREM NeverBoth ==
  ASSUME Audible, Rememberable
  PROVE  Spec => []OneSurvives
<1>1. IInv /\ Fair => OneSurvives
  <2> SUFFICES ASSUME IInv, Fair, NEW h \in heard, NEW k \in heard,
                      h.fate = "received", k.fate = "received", h.gw = k.gw,
                      h.event.tx[1] # k.event.tx[1], Sf[h.event.tx[1]] = Sf[k.event.tx[1]],
                      Frequency[h.event.tx[1]] = Frequency[k.event.tx[1]],
                      15 * GetOverlapTime(h.event, k.event) * GetOverlapTime(h.event, k.event)
                      > Duration[h.event.tx[1]] * Duration[k.event.tx[1]]
               PROVE  FALSE
    BY DEF OneSurvives
  <2> DEFINE f == h.event.tx[1]
             o == k.event.tx[1]
             g == h.gw
             t == GetOverlapTime(h.event, k.event)
             p == Linear(RxPower[f][g])
             q == Linear(RxPower[o][g])
  <2>1. /\ h.event \in Event /\ k.event \in Event /\ f \in Frames /\ o \in Frames /\ g \in Gateways
        /\ h.event.end = h.event.start + Duration[f] /\ k.event.end = k.event.start + Duration[o]
        /\ Sf[f] \in 7 .. 12
    BY FramesAssumption DEF IInv, TypeOK, Timed, Event, Transmissions
  <2>2. /\ Duration[f] \in Nat /\ Duration[o] \in Nat /\ t \in Int
        /\ h.event.end - h.event.start = Duration[f] /\ k.event.end - k.event.start = Duration[o]
    BY <2>1, DurationIsNat, OverlapIsInt DEF Event
  <2>3. p \in Nat \ {0} /\ q \in Nat \ {0}
    BY <2>1 DEF Audible
  <2>4. GetOverlapTime(k.event, h.event) = t
    BY <2>1 DEF GetOverlapTime, AtMost, AtLeast, Event
  <2>5. t > 0 /\ Withstands(g, h.event, k.event)
    BY EachWithstood
  <2>6. Withstands(g, k.event, h.event)
    <3>1. 15 * t * t > Duration[o] * Duration[f]
      BY <2>2
    <3> HIDE DEF t
    <3> QED
      BY <2>4, <3>1, EachWithstood
  <2> HIDE DEF t, p, q
  <2>7. /\ Survives(Sf[f], Sf[f], Duration[f] * p, t * q)
        /\ Survives(Sf[f], Sf[f], Duration[o] * q, t * p)
    BY <2>2, <2>4, <2>5, <2>6 DEF Withstands, Share, t, p, q
  <2>8. t * q # 0 /\ t * p # 0
    BY <2>2, <2>3, <2>5
  <2>9. /\ Duration[f] * p * 10000 >= 39811 * (t * q)
        /\ Duration[o] * q * 10000 >= 39811 * (t * p)
    BY <2>1, <2>7, <2>8, OwnSurvival
  <2>10. 15 * t * t <= Duration[f] * Duration[o]
    BY <2>2, <2>3, <2>5, <2>9, BothTooStrong
  <2> QED
    BY <2>2, <2>10 DEF t
<1>2. IInv /\ Fair /\ [Next]_vars => IInv' /\ Fair'
  BY StepHolds, StepIsFair
<1> QED
  BY <1>1, <1>2, InitHolds, FairInit, PTL DEF Spec
=============================================================================
