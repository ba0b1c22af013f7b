------------------------- MODULE NetworkServer_proofs -------------------------
(***************************************************************************)
(* What holds of the network server for any number of devices, gateways    *)
(* and attempts, any powers, duty cycles and on-air times: it refines      *)
(* ConfirmedDelivery, plans one opportunity per attempt, and its replies   *)
(* meet the window they are meant for.                                     *)
(*                                                                         *)
(* The frame counter of a device must not come back while the server still *)
(* remembers it, which is NoWrap.                                          *)
(***************************************************************************)
EXTENDS NetworkServer, SequenceTheorems, FiniteSetTheorems, TLAPS

\* The devices make fewer attempts than there are frame counters.
NoWrap == \A d \in Devices : MaxAttempts[d] <= FCntMod

-----------------------------------------------------------------------------
(* The invariant *)

DeviceType ==
  [packet : Nat, fcnt : Nat, tries : Nat, age : 0..Closed, attempts : Nat,
   outcome : {"none", "open", "acked", "failed"}]
CopyType ==
  [dev : Devices, packet : Nat, confirmed : BOOLEAN, fcnt : Nat, gw : Gateways, power : Powers]
EntryType == [fcnt : Nat, packet : Nat, heard : SUBSET (Gateways \X Powers)]
StatusType == [list : Seq(EntryType), reply : [needs : BOOLEAN, ack : BOOLEAN]]
OppType == [dev : Devices, win : 1..2, left : 0..1]
ReplyType == [gw : Gateways, dev : Devices, win : 1..2, ack : BOOLEAN]

Typed ==
  /\ dev \in [Devices -> DeviceType]
  /\ up \subseteq CopyType
  /\ status \in [Devices -> StatusType]
  /\ opps \in Seq(OppType)
  /\ down \subseteq ReplyType
  /\ gws \in [Gateways -> GW!GatewayType]

\* The counter of the n-th attempt of a device, for n up to the modulus.
Counter(n) == IF n = FCntMod THEN 0 ELSE n

\* The server has the latest attempt of the device.
Has(d) == status[d].list # <<>> /\ Last(status[d].list).fcnt = dev[d].fcnt

\* Counters are those of the attempts made; the entry with the counter of the
\* latest attempt is the last one and holds its packet.
Numbered ==
  \A d \in Devices :
    /\ dev[d].attempts <= MaxAttempts[d] /\ dev[d].fcnt = Counter(dev[d].attempts)
    /\ dev[d].age < Closed \/ dev[d].outcome = "open"
       => dev[d].packet > 0 /\ dev[d].attempts > 0
    /\ \A i \in 1..Len(status[d].list) :
         /\ \E n \in 1..dev[d].attempts : status[d].list[i].fcnt = Counter(n)
         /\ status[d].list[i].fcnt = dev[d].fcnt
            => status[d].list[i].packet = dev[d].packet /\ Has(d)

\* Copies on their way are those of an attempt that was just made.
CopiesAreCurrent ==
  \A c \in up : /\ dev[c.dev].age = 0
                /\ c.fcnt = dev[c.dev].fcnt /\ c.packet = dev[c.dev].packet

\* An opportunity is for the latest attempt and its timer agrees with the windows;
\* a device has at most one, and one while its attempt is new.
OneEach == \A i, j \in 1..Len(opps) : opps[i].dev = opps[j].dev => i = j
OnTime ==
  \A i \in 1..Len(opps) :
    /\ dev[opps[i].dev].age = opps[i].win - opps[i].left
    /\ Has(opps[i].dev)
Planned ==
  \A d \in Devices : dev[d].age = 0 /\ Has(d) => \E i \in 1..Len(opps) : opps[i].dev = d

\* A reply on its way is for an open window of a device whose attempt the server
\* has, and nothing else is planned for that device.
RepliesMeetWindows ==
  /\ \A x \in down :
       /\ dev[x.dev].age = x.win /\ Has(x.dev)
       /\ \A i \in 1..Len(opps) : opps[i].dev # x.dev
  /\ \A x, y \in down : x.dev = y.dev => x = y

Good ==
  Typed /\ Numbered /\ CopiesAreCurrent /\ OneEach /\ OnTime /\ Planned /\ RepliesMeetWindows

-----------------------------------------------------------------------------
(* The operators *)

LEMMA RemoveAtProperties ==
  ASSUME NEW S, NEW q \in Seq(S), NEW k \in 1..Len(q)
  PROVE  /\ RemoveAt(q, k) \in Seq(S)
         /\ Len(RemoveAt(q, k)) = Len(q) - 1
         /\ \A i \in 1..(Len(q) - 1) : RemoveAt(q, k)[i] = q[IF i < k THEN i ELSE i + 1]
<1> DEFINE front == SubSeq(q, 1, k - 1)
           back == SubSeq(q, k + 1, Len(q))
<1>1. Len(q) \in Nat /\ k \in Nat /\ 1 <= k /\ k <= Len(q)
  BY LenProperties
<1>2. /\ front \in Seq(S) /\ Len(front) = k - 1
      /\ \A i \in 1..(k - 1) : front[i] = q[i]
  BY <1>1, SubSeqProperties
<1>3. /\ back \in Seq(S) /\ Len(back) = Len(q) - k
      /\ \A i \in 1..(Len(q) - k) : back[i] = q[k + i]
  BY <1>1, SubSeqProperties
<1>4. RemoveAt(q, k) = front \o back
  BY DEF RemoveAt
<1> HIDE DEF front, back
<1>5. /\ front \o back \in Seq(S)
      /\ Len(front \o back) = Len(front) + Len(back)
      /\ \A i \in 1..(Len(front) + Len(back)) :
           (front \o back)[i] = IF i <= Len(front) THEN front[i] ELSE back[i - Len(front)]
  BY <1>2, <1>3, ConcatProperties
<1>6. ASSUME NEW i \in 1..(Len(q) - 1)
      PROVE  (front \o back)[i] = q[IF i < k THEN i ELSE i + 1]
  <2>1. (front \o back)[i] = IF i <= Len(front) THEN front[i] ELSE back[i - Len(front)]
    BY <1>1, <1>2, <1>3, <1>5
  <2>2. CASE i < k
    BY <1>1, <1>2, <2>1, <2>2
  <2>3. CASE ~ (i < k)
    <3>1. i - (k - 1) \in 1..(Len(q) - k) /\ k + (i - (k - 1)) = i + 1
      BY <1>1, <2>3
    <3> QED
      BY <1>1, <1>2, <1>3, <2>1, <2>3, <3>1
  <2> QED
    BY <2>2, <2>3
<1> QED
  BY <1>1, <1>2, <1>3, <1>4, <1>5, <1>6

\* Counters follow one another, and within one round they do not come back.
LEMMA RemainderIsUnique ==
  ASSUME NEW b \in Nat \ {0}, NEW q \in Int, NEW r \in 0..(b - 1)
  PROVE  (q * b + r) % b = r
  OBVIOUS

LEMMA CountersFollow ==
  ASSUME NEW n \in Nat, n + 1 <= FCntMod
  PROVE  /\ Counter(n) \in Nat
         /\ NextFCnt(Counter(n)) = Counter(n + 1)
         /\ Counter(n + 1) \in Nat
         /\ \A k \in 1..n : Counter(k) # Counter(n + 1)
<1>1. FCntMod \in Nat \ {0}
  BY NetworkServerAssumption
<1>2. CASE n + 1 = FCntMod
  <2>1. (1 * FCntMod + 0) % FCntMod = 0
    BY <1>1, RemainderIsUnique
  <2>2. 1 * FCntMod + 0 = n + 1
    BY <1>1, <1>2
  <2>3. (n + 1) % FCntMod = 0
    BY <2>1, <2>2
  <2> QED
    BY <1>1, <1>2, <2>3 DEF Counter, NextFCnt
<1>3. CASE n + 1 < FCntMod
  <2>1. (0 * FCntMod + (n + 1)) % FCntMod = n + 1
    BY <1>1, <1>3, RemainderIsUnique
  <2>2. 0 * FCntMod + (n + 1) = n + 1
    BY <1>1
  <2>3. (n + 1) % FCntMod = n + 1
    BY <2>1, <2>2
  <2> QED
    BY <1>1, <1>3, <2>3 DEF Counter, NextFCnt
<1> QED
  BY <1>1, <1>2, <1>3

\* Another copy of a frame in the list changes who heard it and nothing else.
LEMMA InsertKnown ==
  ASSUME NEW list \in Seq(EntryType), NEW c \in CopyType, Known(list, c.fcnt) # {}
  PROVE  LET new == InsertReceivedPacket(list, c)
         IN  /\ new \in Seq(EntryType) /\ Len(new) = Len(list)
             /\ \A i \in 1..Len(list) :
                  new[i].fcnt = list[i].fcnt /\ new[i].packet = list[i].packet
<1> DEFINE k == CHOOSE i \in Known(list, c.fcnt) : \A j \in Known(list, c.fcnt) : j <= i
           old == list[k].heard
           heard == IF \E h \in old : h[1] = c.gw THEN old ELSE old \cup {<<c.gw, c.power>>}
           e(i) == IF i = k THEN [list[i] EXCEPT !.heard = heard] ELSE list[i]
           new == InsertReceivedPacket(list, c)
<1>1. Len(list) \in Nat /\ list \in [1..Len(list) -> EntryType] /\ DOMAIN list = 1..Len(list)
  BY LenProperties
<1>2. new = [list EXCEPT ![k].heard = heard]
  BY DEF InsertReceivedPacket
<1>3. <<c.gw, c.power>> \in Gateways \X Powers
  BY DEF CopyType
<1> HIDE DEF k
<1>4. k \in 1..Len(list) => heard \in SUBSET (Gateways \X Powers)
  BY <1>1, <1>3 DEF EntryType
<1> HIDE DEF heard
<1>5. new = [i \in 1..Len(list) |-> e(i)]
  BY <1>1, <1>2
<1>6. ASSUME NEW i \in 1..Len(list)
      PROVE  e(i) \in EntryType /\ e(i).fcnt = list[i].fcnt /\ e(i).packet = list[i].packet
  BY <1>1, <1>4 DEF EntryType
<1> HIDE DEF e, new
<1>7. [i \in 1..Len(list) |-> e(i)] \in Seq(EntryType)
  BY ONLY <1>1, <1>6, IsASeq
<1>8. Len(new) = Len(list)
  BY <1>1, <1>5, <1>7, LenProperties
<1> QED
  BY <1>5, <1>6, <1>7, <1>8 DEF new

LEMMA InsertNew ==
  ASSUME NEW list \in Seq(EntryType), NEW c \in CopyType, Known(list, c.fcnt) = {}
  PROVE  LET new == InsertReceivedPacket(list, c)
         IN  /\ new \in Seq(EntryType) /\ Len(new) = Len(list) + 1
             /\ \A i \in 1..Len(list) : new[i] = list[i]
             /\ new[Len(list) + 1].fcnt = c.fcnt /\ new[Len(list) + 1].packet = c.packet
<1> DEFINE e == [fcnt |-> c.fcnt, packet |-> c.packet, heard |-> {<<c.gw, c.power>>}]
<1>1. e \in EntryType
  BY DEF EntryType, CopyType
<1>2. InsertReceivedPacket(list, c) = Append(list, e)
  BY DEF InsertReceivedPacket
<1> QED
  BY <1>1, <1>2, AppendProperties, LenProperties

LEMMA OpportunityAdded ==
  ASSUME NEW os \in Seq(OppType), NEW d \in Devices, NEW w \in 1..2
  PROVE  /\ ScheduleOpportunity(os, d, w) \in Seq(OppType)
         /\ Len(ScheduleOpportunity(os, d, w)) = Len(os) + 1
         /\ \A i \in 1..Len(os) : ScheduleOpportunity(os, d, w)[i] = os[i]
         /\ ScheduleOpportunity(os, d, w)[Len(os) + 1] = [dev |-> d, win |-> w, left |-> 1]
  BY AppendProperties, LenProperties DEF ScheduleOpportunity, OppType

\* A gateway stays one whatever the server asks of it.
LEMMA GatewayKeepsType ==
  ASSUME NEW g \in GW!GatewayType
  PROVE  /\ GW!TxFinished(g) \in GW!GatewayType
         /\ GW!Elapse(g) \in GW!GatewayType \/ 0 \in g.txs
         /\ \A b \in SubBands, t \in TxTimes : GW!MacSend(g, b, t) \in GW!GatewayType
<1>1. GW!TxFinished(g) \in GW!GatewayType
  BY DEF GW!GatewayType, GW!TxFinished
<1>2. ASSUME 0 \notin g.txs
      PROVE  GW!Elapse(g) \in GW!GatewayType
  <2>1. {n - 1 : n \in g.txs} \in SUBSET Nat
    BY <1>2 DEF GW!GatewayType
  <2>2. [b \in SubBands |-> IF g.wait[b] > 0 THEN g.wait[b] - 1 ELSE 0] \in [SubBands -> Nat]
    BY DEF GW!GatewayType
  <2>3. [s \in {} |-> IF s \in g.ending THEN g.left[s] - 1 ELSE g.left[s]] \in [{} -> Nat]
    OBVIOUS
  <2> QED
    BY <2>1, <2>2, <2>3 DEF GW!GatewayType, GW!Elapse
<1>3. ASSUME NEW b \in SubBands, NEW t \in TxTimes
      PROVE  GW!MacSend(g, b, t) \in GW!GatewayType
  <2>1. t \in Nat \ {0} /\ DutyDiv[b] \in Nat \ {0}
    BY NetworkServerAssumption
  <2>2. GW!OffTime(b, t) \in Nat
    <3>1. t * DutyDiv[b] = t + t * (DutyDiv[b] - 1) /\ t * (DutyDiv[b] - 1) \in Nat
      BY <2>1
    <3> QED
      BY <2>1, <3>1 DEF GW!OffTime
  <2>3. GW!Held(g) = {}
    BY DEF GW!Held, GW!Busy
  <2>4. [p \in {} |-> None] \in [{} -> {} \cup {None}]
    OBVIOUS
  <2>5. [s \in {} |-> IF s \in GW!Held(g) THEN 0 ELSE g.left[s]] \in [{} -> Nat]
    OBVIOUS
  <2>6. GW!Interrupt(g) \in GW!GatewayType
    BY <2>3, <2>4, <2>5 DEF GW!GatewayType, GW!Interrupt
  <2>7. GW!PhySend(g, t) \in GW!GatewayType
    BY <2>1, <2>6 DEF GW!GatewayType, GW!PhySend
  <2> QED
    BY <2>2, <2>7 DEF GW!GatewayType, GW!MacSend
<1> QED
  BY <1>1, <1>2, <1>3

-----------------------------------------------------------------------------
(* The steps *)

LEMMA HasMeans ==
  ASSUME Typed, NEW d \in Devices
  PROVE  LET list == status[d].list
         IN  /\ list \in Seq(EntryType) /\ Len(list) \in Nat
             /\ \A i \in 1..Len(list) : list[i] \in EntryType
             /\ Has(d) <=> Len(list) > 0 /\ list[Len(list)].fcnt = dev[d].fcnt
<1>1. status[d].list \in Seq(EntryType)
  BY DEF Typed, StatusType
<1>2. status[d].list # <<>> <=> Len(status[d].list) > 0
  BY <1>1, EmptySeq, LenProperties
<1> QED
  BY <1>1, <1>2, ElementOfSeq, LenProperties DEF Has, Last

LEMMA OppMeans ==
  ASSUME Typed
  PROVE  /\ Len(opps) \in Nat /\ DOMAIN opps = 1..Len(opps)
         /\ \A i \in 1..Len(opps) :
              /\ opps[i] \in OppType /\ opps[i].dev \in Devices
              /\ opps[i].win \in 1..2 /\ opps[i].left \in 0..1
<1>1. opps \in Seq(OppType)
  BY DEF Typed
<1>2. Len(opps) \in Nat /\ DOMAIN opps = 1..Len(opps)
  BY <1>1, LenProperties
<1>3. ASSUME NEW i \in 1..Len(opps)
      PROVE  opps[i] \in OppType
  BY <1>1, ElementOfSeq
<1>4. ASSUME NEW o \in OppType
      PROVE  o.dev \in Devices /\ o.win \in 1..2 /\ o.left \in 0..1
  BY DEF OppType
<1> QED
  BY <1>2, <1>3, <1>4

LEMMA InitGood ==
  ASSUME Init
  PROVE  Good
<1>1. MaxAttempts \in [Devices -> Nat] /\ FCntMod \in Nat \ {0}
  BY NetworkServerAssumption
<1>2. <<>> \in Seq(EntryType) /\ <<>> \in Seq(OppType) /\ Len(<<>>) = 0
  BY EmptySeq
<1>3. Typed
  <2>1. GW!IdleGateway \in GW!GatewayType
    BY DEF GW!IdleGateway, GW!GatewayType
  <2> QED
    BY <1>2, <2>1 DEF Init, Typed, DeviceType, StatusType, NoReply, Closed
<1>4. Numbered
  BY <1>1, <1>2 DEF Init, Numbered, Counter, Closed
<1> QED
  BY <1>2, <1>3, <1>4
  DEF Init, Good, CopiesAreCurrent, OneEach, OnTime, Planned, RepliesMeetWindows, Has

\* An attempt with the next counter, of a device whose windows are over.
LEMMA AttemptKeeps ==
  ASSUME NoWrap, Good,
         NEW d \in Devices, dev[d].age = Closed, dev[d].attempts < MaxAttempts[d],
         NEW new \in [packet : Nat \ {0}, fcnt : {NextFCnt(dev[d].fcnt)}, tries : Nat, age : {0},
                     attempts : {dev[d].attempts + 1}, outcome : {"none", "open"}],
         NEW confirmed \in BOOLEAN,
         dev' = [dev EXCEPT ![d] = new],
         Attempt(d, new.packet, confirmed, NextFCnt(dev[d].fcnt)),
         UNCHANGED <<status, opps, down, gws>>
  PROVE  Good'
<1> DEFINE fcnt == NextFCnt(dev[d].fcnt)
           n == dev[d].attempts
<1>1. Typed /\ dev \in [Devices -> DeviceType] /\ n \in Nat /\ dev[d].fcnt = Counter(n)
  BY DEF Good, Typed, Numbered, DeviceType
<1>2. MaxAttempts[d] \in Nat /\ FCntMod \in Nat \ {0} /\ n + 1 <= FCntMod
  BY <1>1, NetworkServerAssumption DEF NoWrap
<1>3. fcnt = Counter(n + 1) /\ fcnt \in Nat /\ \A k \in 1..n : Counter(k) # fcnt
  BY <1>1, <1>2, CountersFollow
<1> HIDE DEF n, fcnt
<1>4. /\ dev'[d] = new /\ new \in DeviceType /\ new.packet \in Nat \ {0}
      /\ new.fcnt = fcnt /\ new.age = 0 /\ new.attempts = n + 1
  BY <1>1, <1>3 DEF n, fcnt, DeviceType, Closed
<1>5. \A e \in Devices : e # d => dev'[e] = dev[e]
  BY <1>1
<1>6. \A c \in up' : \/ c \in up
                     \/ /\ c \in CopyType /\ c.dev = d /\ c.fcnt = fcnt /\ c.packet = new.packet
  <2>1. PICK hearing \in SUBSET Gateways : \E power \in [hearing -> Powers] :
          up' = up \cup {[dev |-> d, packet |-> new.packet, confirmed |-> confirmed,
                          fcnt |-> fcnt, gw |-> g, power |-> power[g]] : g \in hearing}
    BY DEF Attempt, fcnt
  <2> QED
    BY <1>3, <1>4, <2>1 DEF CopyType
<1>7. Typed'
  <2>1. dev' \in [Devices -> DeviceType]
    BY <1>1, <1>3, <1>4, <1>5 DEF DeviceType, Closed
  <2>2. up' \subseteq CopyType
    BY <1>1, <1>6 DEF Typed
  <2> QED
    BY <1>1, <2>1, <2>2 DEF Typed
<1>8. ASSUME NEW i \in 1..Len(status[d].list)
      PROVE  /\ status[d].list[i].fcnt # fcnt
             /\ \E k \in 1..(n + 1) : status[d].list[i].fcnt = Counter(k)
  <2>1. PICK k \in 1..n : status[d].list[i].fcnt = Counter(k)
    BY DEF Good, Numbered, n
  <2> QED
    BY <1>1, <1>3, <2>1
<1>9. Numbered'
  <2>1. ASSUME NEW e \in Devices, e # d
        PROVE  Has(e)' = Has(e)
    BY <1>5, <2>1 DEF Has
  <2>2. ASSUME NEW e \in Devices, e # d
        PROVE  /\ dev'[e].attempts <= MaxAttempts[e] /\ dev'[e].fcnt = Counter(dev'[e].attempts)
               /\ dev'[e].age < Closed \/ dev'[e].outcome = "open"
                  => dev'[e].packet > 0 /\ dev'[e].attempts > 0
               /\ \A i \in 1..Len(status'[e].list) :
                    /\ \E k \in 1..dev'[e].attempts : status'[e].list[i].fcnt = Counter(k)
                    /\ status'[e].list[i].fcnt = dev'[e].fcnt
                       => status'[e].list[i].packet = dev'[e].packet /\ Has(e)'
    BY <1>5, <2>1, <2>2 DEF Good, Numbered
  <2>3. /\ dev'[d].attempts <= MaxAttempts[d] /\ dev'[d].fcnt = Counter(dev'[d].attempts)
        /\ dev'[d].age < Closed \/ dev'[d].outcome = "open"
           => dev'[d].packet > 0 /\ dev'[d].attempts > 0
        /\ \A i \in 1..Len(status'[d].list) :
             /\ \E k \in 1..dev'[d].attempts : status'[d].list[i].fcnt = Counter(k)
             /\ status'[d].list[i].fcnt # dev'[d].fcnt
    BY <1>1, <1>2, <1>3, <1>4, <1>8 DEF n
  <2> QED
    BY <2>2, <2>3 DEF Numbered
<1>10. CopiesAreCurrent'
  BY <1>1, <1>4, <1>5, <1>6 DEF Good, CopiesAreCurrent, Typed, CopyType, Closed
<1>11. \A i \in 1..Len(opps) : opps[i].dev # d /\ opps[i].dev \in Devices
  BY <1>1, OppMeans DEF Good, OnTime, Closed
<1>12. \A x \in down : x.dev # d /\ x.dev \in Devices
  BY <1>1 DEF Good, RepliesMeetWindows, Typed, ReplyType, Closed
<1>13. \A e \in Devices \ {d} : Has(e)' = Has(e)
  BY <1>5 DEF Has
<1>14. ~ Has(d)'
  <2>1. Has(d)' <=> /\ Len(status[d].list) > 0
                    /\ status[d].list[Len(status[d].list)].fcnt = dev'[d].fcnt
    <3>1. /\ status[d].list \in Seq(EntryType)
      BY <1>1, HasMeans
    <3>2. status[d].list # <<>> <=> Len(status[d].list) > 0
      BY <3>1, EmptySeq, LenProperties
    <3> QED
      BY <3>2 DEF Has, Last
  <2>2. Len(status[d].list) \in Nat
    BY <1>1, HasMeans
  <2> QED
    BY <1>4, <1>8, <2>1, <2>2
<1>15. OneEach' /\ OnTime'
  BY <1>5, <1>11, <1>13 DEF Good, OneEach, OnTime
<1>16. Planned'
  BY <1>5, <1>13, <1>14 DEF Good, Planned
<1>17. RepliesMeetWindows'
  BY <1>5, <1>12, <1>13 DEF Good, RepliesMeetWindows
<1> QED
  BY <1>7, <1>9, <1>10, <1>15, <1>16, <1>17 DEF Good

LEMMA NewPacketKeeps ==
  ASSUME NoWrap, Good, NEW d \in Devices, NEW confirmed \in BOOLEAN, NewPacket(d, confirmed)
  PROVE  Good'
<1> DEFINE new == [packet |-> dev[d].packet + 1, fcnt |-> NextFCnt(dev[d].fcnt), tries |-> 1,
                   age |-> 0, attempts |-> dev[d].attempts + 1,
                   outcome |-> IF confirmed THEN "open" ELSE "none"]
<1>1. dev \in [Devices -> DeviceType] /\ dev[d].packet \in Nat
  BY DEF Good, Typed, DeviceType
<1>2. new \in [packet : Nat \ {0}, fcnt : {NextFCnt(dev[d].fcnt)}, tries : Nat, age : {0},
               attempts : {dev[d].attempts + 1}, outcome : {"none", "open"}]
  BY <1>1
<1>3. dev' = [dev EXCEPT ![d] = new]
  BY <1>1 DEF NewPacket
<1>4. dev'[d].packet = new.packet /\ dev'[d].fcnt = NextFCnt(dev[d].fcnt)
  BY <1>1, <1>3
<1>5. Attempt(d, new.packet, confirmed, NextFCnt(dev[d].fcnt))
  BY <1>4 DEF NewPacket
<1>6. /\ dev[d].age = Closed /\ dev[d].attempts < MaxAttempts[d]
      /\ UNCHANGED <<status, opps, down, gws>>
  BY DEF NewPacket
<1> HIDE DEF new
<1> QED
  BY <1>2, <1>3, <1>5, <1>6, AttemptKeeps

LEMMA RetransmissionKeeps ==
  ASSUME NoWrap, Good, NEW d \in Devices, Retransmission(d)
  PROVE  Good'
<1> DEFINE new == [dev[d] EXCEPT !.fcnt = NextFCnt(@), !.tries = @ + 1, !.age = 0,
                                 !.attempts = @ + 1]
<1>1. dev \in [Devices -> DeviceType] /\ dev[d] \in DeviceType
  BY DEF Good, Typed
<1>2. dev[d].packet \in Nat \ {0} /\ dev[d].outcome = "open"
  BY <1>1 DEF DeviceType, Good, Numbered, Retransmission
<1>3. /\ new.packet = dev[d].packet
      /\ new \in [packet : Nat \ {0}, fcnt : {NextFCnt(dev[d].fcnt)}, tries : Nat, age : {0},
                  attempts : {dev[d].attempts + 1}, outcome : {"none", "open"}]
  <2> DEFINE r == dev[d]
             f == NextFCnt(dev[d].fcnt)
             t == dev[d].tries + 1
             a == dev[d].attempts + 1
  <2>1. new = [r EXCEPT !.fcnt = f, !.tries = t, !.age = 0, !.attempts = a]
    OBVIOUS
  <2>2. t \in Nat
    BY <1>1 DEF DeviceType
  <2> HIDE DEF new, f, t, a
  <2>3. /\ new.packet = r.packet
        /\ new \in [packet : Nat \ {0}, fcnt : {f}, tries : Nat, age : {0},
                    attempts : {a}, outcome : {"none", "open"}]
    BY <1>1, <1>2, <2>1, <2>2, Zenon DEF DeviceType
  <2> QED
    BY <2>3 DEF f, a
<1>4. dev' = [dev EXCEPT ![d] = new]
  BY <1>1 DEF Retransmission, DeviceType
<1>5. dev'[d].fcnt = NextFCnt(dev[d].fcnt)
  BY <1>1, <1>3, <1>4
<1>6. Attempt(d, new.packet, TRUE, NextFCnt(dev[d].fcnt))
  BY <1>3, <1>5 DEF Retransmission
<1>7. /\ dev[d].age = Closed /\ dev[d].attempts < MaxAttempts[d]
      /\ UNCHANGED <<status, opps, down, gws>>
  BY DEF Retransmission
<1> HIDE DEF new
<1> QED
  BY <1>3, <1>4, <1>6, <1>7, AttemptKeeps

\* Steps that make no attempt and tell the server nothing keep the numbering.
LEMMA NumberingKept ==
  ASSUME Numbered, status' = status,
         \A d \in Devices :
           /\ dev'[d].fcnt = dev[d].fcnt /\ dev'[d].packet = dev[d].packet
           /\ dev'[d].attempts = dev[d].attempts
           /\ dev'[d].age < Closed \/ dev'[d].outcome = "open"
              => dev[d].age < Closed \/ dev[d].outcome = "open"
  PROVE  Numbered' /\ \A d \in Devices : Has(d)' = Has(d)
<1>1. \A d \in Devices : Has(d)' = Has(d)
  BY DEF Has
<1> QED
  BY <1>1 DEF Numbered

LEMMA GiveUpKeeps ==
  ASSUME Good, NEW d \in Devices, GiveUp(d)
  PROVE  Good'
<1>1. dev \in [Devices -> DeviceType] /\ UNCHANGED <<up, status, opps, down, gws>>
      /\ dev' = [dev EXCEPT ![d].outcome = "failed"] /\ dev[d].outcome = "open"
  BY DEF Good, Typed, GiveUp
<1>2. \A e \in Devices :
        /\ dev'[e].packet = dev[e].packet /\ dev'[e].fcnt = dev[e].fcnt
        /\ dev'[e].attempts = dev[e].attempts /\ dev'[e].age = dev[e].age
        /\ dev'[e].outcome = IF e = d THEN "failed" ELSE dev[e].outcome
  BY <1>1 DEF DeviceType
<1>3. dev' \in [Devices -> DeviceType]
  <2>1. ASSUME NEW r \in DeviceType
        PROVE  [r EXCEPT !.outcome = "failed"] \in DeviceType
    BY DEF DeviceType
  <2> QED
    BY <1>1, <2>1
<1>4. Typed'
  BY <1>1, <1>3 DEF Good, Typed
<1>5. Numbered' /\ \A e \in Devices : Has(e)' = Has(e)
  BY <1>1, <1>2, NumberingKept DEF Good
<1>6. \A c \in up : c.dev \in Devices
  BY DEF Good, Typed, CopyType
<1>7. \A i \in 1..Len(opps) : opps[i].dev \in Devices
  BY OppMeans DEF Good
<1>8. \A x \in down : x.dev \in Devices
  BY DEF Good, Typed, ReplyType
<1>9. CopiesAreCurrent' /\ OneEach' /\ OnTime' /\ Planned' /\ RepliesMeetWindows'
  BY <1>1, <1>2, <1>5, <1>6, <1>7, <1>8
  DEF Good, CopiesAreCurrent, OneEach, OnTime, Planned, RepliesMeetWindows
<1> QED
  BY <1>4, <1>5, <1>9 DEF Good

\* What a copy of the latest attempt does to the list of its device: it is the
\* first copy, or one that changes neither counters nor packets.
LEMMA CopyInserted ==
  ASSUME Good, NEW c \in up
  PROVE  LET d == c.dev
             old == status[d].list
             new == InsertReceivedPacket(old, c)
         IN  /\ new \in Seq(EntryType)
             /\ \/ /\ Has(d) /\ AlreadyReceived(old, c) /\ Len(new) = Len(old)
                   /\ \A i \in 1..Len(old) :
                        new[i].fcnt = old[i].fcnt /\ new[i].packet = old[i].packet
                \/ /\ ~ Has(d) /\ ~ AlreadyReceived(old, c) /\ Len(new) = Len(old) + 1
                   /\ \A i \in 1..Len(old) : new[i] = old[i] /\ old[i].fcnt # dev[d].fcnt
                   /\ new[Len(old) + 1].fcnt = dev[d].fcnt
                   /\ new[Len(old) + 1].packet = dev[d].packet
<1> DEFINE d == c.dev
           old == status[d].list
           new == InsertReceivedPacket(old, c)
<1>1. c \in CopyType /\ d \in Devices /\ c.fcnt = dev[d].fcnt /\ c.packet = dev[d].packet
  BY DEF Good, Typed, CopyType, CopiesAreCurrent
<1>2. /\ old \in Seq(EntryType) /\ Len(old) \in Nat /\ DOMAIN old = 1..Len(old)
      /\ Has(d) <=> Len(old) > 0 /\ old[Len(old)].fcnt = dev[d].fcnt
  BY <1>1, HasMeans, LenProperties DEF Good
<1>3. AlreadyReceived(old, c) <=> Has(d)
  BY <1>1 DEF AlreadyReceived, Has
<1>4. \A i \in 1..Len(old) : old[i].fcnt = dev[d].fcnt => Has(d)
  BY <1>1 DEF Good, Numbered
<1> HIDE DEF d, old
<1>5. CASE Has(d)
  <2>1. Known(old, c.fcnt) # {}
    BY <1>1, <1>2, <1>5 DEF Known
  <2> QED
    BY <1>1, <1>2, <1>3, <1>5, <2>1, InsertKnown DEF d, old
<1>6. CASE ~ Has(d)
  <2>1. Known(old, c.fcnt) = {}
    BY <1>1, <1>2, <1>4, <1>6 DEF Known
  <2> QED
    BY <1>1, <1>2, <1>3, <1>4, <1>6, <2>1, InsertNew DEF d, old
<1> QED
  BY <1>5, <1>6

LEMMA ServerReceivesKeeps ==
  ASSUME Good, NEW c \in up, ServerReceives(c)
  PROVE  Good' /\ Has(c.dev)'
<1> DEFINE d == c.dev
           old == status[d].list
           new == InsertReceivedPacket(old, c)
           rest == [list |-> new, reply |-> ReplyAfter(status[d].reply, c)]
<1>1. /\ c \in CopyType /\ d \in Devices /\ dev[d].age = 0
      /\ dev \in [Devices -> DeviceType] /\ dev[d].attempts \in Nat
      /\ status \in [Devices -> StatusType]
      /\ opps \in Seq(OppType) /\ Typed
  BY DEF Good, Typed, CopyType, CopiesAreCurrent, DeviceType
<1>2. /\ up' = up \ {c} /\ UNCHANGED <<dev, down, gws>>
      /\ opps' = IF AlreadyReceived(old, c) THEN opps ELSE ScheduleOpportunity(opps, d, 1)
      /\ status' = [status EXCEPT ![d] = rest]
  BY DEF ServerReceives, Receive
<1>3. /\ new \in Seq(EntryType)
      /\ \/ /\ Has(d) /\ AlreadyReceived(old, c) /\ Len(new) = Len(old)
            /\ \A i \in 1..Len(old) :
                 new[i].fcnt = old[i].fcnt /\ new[i].packet = old[i].packet
         \/ /\ ~ Has(d) /\ ~ AlreadyReceived(old, c) /\ Len(new) = Len(old) + 1
            /\ \A i \in 1..Len(old) : new[i] = old[i] /\ old[i].fcnt # dev[d].fcnt
            /\ new[Len(old) + 1].fcnt = dev[d].fcnt
            /\ new[Len(old) + 1].packet = dev[d].packet
  BY CopyInserted
<1>4. /\ old \in Seq(EntryType) /\ Len(old) \in Nat
      /\ Has(d) <=> Len(old) > 0 /\ old[Len(old)].fcnt = dev[d].fcnt
  BY <1>1, HasMeans
<1>5. rest \in StatusType
  <2>1. status[d].reply \in [needs : BOOLEAN, ack : BOOLEAN]
    BY <1>1 DEF StatusType
  <2>2. ReplyAfter(status[d].reply, c) \in [needs : BOOLEAN, ack : BOOLEAN]
    BY <2>1 DEF ReplyAfter
  <2> QED
    BY <1>3, <2>2 DEF StatusType
<1>6. /\ rest.list = new /\ status'[d] = rest /\ status' \in [Devices -> StatusType]
      /\ \A e \in Devices \ {d} : status'[e] = status[e]
  BY <1>1, <1>2, <1>5
<1>7. \A e \in Devices \ {d} : Has(e)' = Has(e)
  BY <1>2, <1>6 DEF Has
<1> HIDE DEF rest, new, old
<1>8. Has(d)' <=> Len(new) > 0 /\ new[Len(new)].fcnt = dev[d].fcnt
  <2>1. new # <<>> <=> Len(new) > 0
    BY <1>3, EmptySeq, LenProperties
  <2> QED
    BY <1>2, <1>6, <2>1 DEF Has, Last
<1>9. Has(d)'
  BY <1>3, <1>4, <1>8
<1>10. /\ \A i \in 1..Len(old) : \E n \in 1..dev[d].attempts : old[i].fcnt = Counter(n)
       /\ \A i \in 1..Len(old) : old[i].fcnt = dev[d].fcnt => old[i].packet = dev[d].packet
       /\ dev[d].fcnt = Counter(dev[d].attempts)
       /\ dev[d].packet > 0 /\ dev[d].attempts > 0 /\ dev[d].attempts <= MaxAttempts[d]
  BY <1>1 DEF Good, Numbered, Closed, old
<1>a. LET os == ScheduleOpportunity(opps, d, 1)
      IN  /\ os \in Seq(OppType) /\ Len(os) = Len(opps) + 1
          /\ \A i \in 1..Len(opps) : os[i] = opps[i]
          /\ os[Len(opps) + 1] = [dev |-> d, win |-> 1, left |-> 1]
  <2>1. opps \in Seq(OppType) /\ d \in Devices /\ 1 \in 1..2
    BY <1>1
  <2> HIDE DEF d
  <2> QED
    BY ONLY <2>1, OpportunityAdded
<1>11. opps' \in Seq(OppType)
  BY <1>1, <1>2, <1>a
<1>12. Typed'
  BY <1>1, <1>2, <1>6, <1>11 DEF Typed
<1>13. Numbered'
  <2>1. ASSUME NEW i \in 1..Len(new)
        PROVE  /\ \E n \in 1..dev[d].attempts : new[i].fcnt = Counter(n)
               /\ new[i].fcnt = dev[d].fcnt => new[i].packet = dev[d].packet
    <3>1. CASE Has(d)
      BY <1>3, <1>10, <3>1
    <3>2. CASE ~ Has(d) /\ i = Len(old) + 1
      <4>1. dev[d].attempts \in 1..dev[d].attempts
        BY <1>1, <1>10
      <4> QED
        BY <1>3, <1>10, <3>2, <4>1
    <3>3. CASE ~ Has(d) /\ i # Len(old) + 1
      <4>1. i \in 1..Len(old) /\ new[i] = old[i]
        BY <1>3, <1>4, <3>3
      <4> QED
        BY <1>10, <4>1
    <3> QED
      BY <3>1, <3>2, <3>3
  <2>2. ASSUME NEW e \in Devices \ {d}
        PROVE  /\ dev'[e].attempts <= MaxAttempts[e] /\ dev'[e].fcnt = Counter(dev'[e].attempts)
               /\ dev'[e].age < Closed \/ dev'[e].outcome = "open"
                  => dev'[e].packet > 0 /\ dev'[e].attempts > 0
               /\ \A i \in 1..Len(status'[e].list) :
                    /\ \E k \in 1..dev'[e].attempts : status'[e].list[i].fcnt = Counter(k)
                    /\ status'[e].list[i].fcnt = dev'[e].fcnt
                       => status'[e].list[i].packet = dev'[e].packet /\ Has(e)'
    BY <1>2, <1>6, <1>7 DEF Good, Numbered
  <2>3. /\ dev'[d].attempts <= MaxAttempts[d] /\ dev'[d].fcnt = Counter(dev'[d].attempts)
        /\ dev'[d].age < Closed \/ dev'[d].outcome = "open"
           => dev'[d].packet > 0 /\ dev'[d].attempts > 0
        /\ \A i \in 1..Len(status'[d].list) :
             /\ \E k \in 1..dev'[d].attempts : status'[d].list[i].fcnt = Counter(k)
             /\ status'[d].list[i].fcnt = dev'[d].fcnt
                => status'[d].list[i].packet = dev'[d].packet /\ Has(d)'
    <3>1. status'[d].list = new /\ dev' = dev
      BY <1>2, <1>6
    <3> QED
      BY <1>9, <1>10, <2>1, <3>1
  <2> QED
    BY <2>2, <2>3 DEF Numbered
<1>14. CopiesAreCurrent'
  BY <1>2 DEF Good, CopiesAreCurrent
<1>15. RepliesMeetWindows' /\ OneEach' /\ OnTime' /\ Planned'
  <2>1. \A x \in down : x.dev \in Devices \ {d} /\ Has(x.dev)' = Has(x.dev)
    BY <1>1, <1>7 DEF Good, RepliesMeetWindows, Typed, ReplyType
  <2>2. /\ Len(opps) \in Nat
        /\ \A i \in 1..Len(opps) : opps[i].dev \in Devices /\ (opps[i].dev = d => Has(d))
    BY <1>1, OppMeans DEF Good, OnTime
  <2>3. CASE Has(d)
    <3>1. opps' = opps
      BY <1>2, <1>3, <2>3
    <3>2. \A e \in Devices : Has(e)' <=> Has(e)
      BY <1>7, <1>9, <2>3
    <3> QED
      BY <1>2, <2>1, <2>2, <3>1, <3>2
      DEF Good, RepliesMeetWindows, OneEach, OnTime, Planned
  <2>4. CASE ~ Has(d)
    <3>1. /\ Len(opps') = Len(opps) + 1
          /\ \A i \in 1..Len(opps) : opps'[i] = opps[i]
          /\ opps'[Len(opps) + 1] = [dev |-> d, win |-> 1, left |-> 1]
      BY <1>2, <1>3, <1>a, <2>4
    <3>2. \A i \in 1..Len(opps) : opps[i].dev \in Devices \ {d}
      BY <2>2, <2>4
    <3>3. \A i \in 1..Len(opps') : i \in 1..Len(opps) \/ i = Len(opps) + 1
      BY <2>2, <3>1
    <3>4. Len(opps) + 1 \in 1..Len(opps') /\ 1..Len(opps) \subseteq 1..Len(opps')
      BY <2>2, <3>1
    <3>5. OneEach'
      <4>1. \A i \in 1..Len(opps) : opps'[i].dev = opps[i].dev
        BY <3>1
      <4>2. opps'[Len(opps) + 1].dev = d
        BY <3>1
      <4> QED
        BY <3>2, <3>3, <4>1, <4>2 DEF Good, OneEach
    <3>6. OnTime'
      <4>1. opps'[Len(opps) + 1].dev = d /\ opps'[Len(opps) + 1].win - opps'[Len(opps) + 1].left = 0
        BY <3>1
      <4>2. ASSUME NEW i \in 1..Len(opps)
            PROVE  /\ dev'[opps'[i].dev].age = opps'[i].win - opps'[i].left
                   /\ Has(opps[i].dev)' /\ opps'[i].dev = opps[i].dev
        BY <1>2, <1>7, <3>1, <3>2 DEF Good, OnTime
      <4>3. \A e : opps'[Len(opps) + 1].dev = e => e = d
        BY <4>1
      <4>4. ASSUME NEW i \in 1..Len(opps')
            PROVE  /\ dev'[opps'[i].dev].age = opps'[i].win - opps'[i].left
                   /\ status'[opps'[i].dev].list # <<>>
                   /\ Last(status'[opps'[i].dev].list).fcnt = dev'[opps'[i].dev].fcnt
        <5>1. CASE i \in 1..Len(opps)
          BY <4>2, <5>1 DEF Has
        <5>2. CASE i = Len(opps) + 1
          BY <1>1, <1>2, <1>9, <4>1, <5>2 DEF Has
        <5> QED
          BY <3>3, <5>1, <5>2
      <4> QED
        BY <4>4 DEF OnTime, Has
    <3>7. Planned'
      <4>1. ASSUME NEW e \in Devices \ {d}, dev'[e].age = 0, Has(e)'
            PROVE  \E i \in 1..Len(opps') : opps'[i].dev = e
        <5>1. PICK i \in 1..Len(opps) : opps[i].dev = e
          BY <1>2, <1>7, <4>1 DEF Good, Planned
        <5> QED
          BY <3>1, <3>4, <5>1
      <4>2. \E i \in 1..Len(opps') : opps'[i].dev = d
        BY <3>1, <3>4
      <4> QED
        BY <4>1, <4>2 DEF Planned
    <3>8. RepliesMeetWindows'
      <4>1. \A x \in down : \A i \in 1..Len(opps') : opps'[i].dev # x.dev
        BY <2>1, <3>1, <3>3 DEF Good, RepliesMeetWindows
      <4> QED
        BY <1>2, <2>1, <4>1 DEF Good, RepliesMeetWindows
    <3> QED
      BY <3>5, <3>6, <3>7, <3>8
  <2> QED
    BY <2>3, <2>4
<1> QED
  BY <1>9, <1>12, <1>13, <1>14, <1>15 DEF Good, d

\* What is left when an opportunity is taken: those of the other devices.
LEMMA OpportunityTaken ==
  ASSUME Good, NEW i \in 1..Len(opps)
  PROVE  /\ RemoveAt(opps, i) \in Seq(OppType) /\ Len(RemoveAt(opps, i)) \in Nat
         /\ \A j \in 1..Len(RemoveAt(opps, i)) :
              /\ RemoveAt(opps, i)[j].dev # opps[i].dev
              /\ \E k \in 1..Len(opps) : RemoveAt(opps, i)[j] = opps[k]
         /\ \A k \in 1..Len(opps) \ {i} :
              \E j \in 1..Len(RemoveAt(opps, i)) : RemoveAt(opps, i)[j] = opps[k]
         /\ \A j, k \in 1..Len(RemoveAt(opps, i)) :
              RemoveAt(opps, i)[j].dev = RemoveAt(opps, i)[k].dev => j = k
<1> DEFINE rest == RemoveAt(opps, i)
           at(j) == IF j < i THEN j ELSE j + 1
<1>1. opps \in Seq(OppType) /\ Len(opps) \in Nat
  BY LenProperties DEF Good, Typed
<1>2. /\ rest \in Seq(OppType) /\ Len(rest) = Len(opps) - 1
      /\ \A j \in 1..(Len(opps) - 1) : rest[j] = opps[at(j)]
  BY <1>1, RemoveAtProperties
<1>3. \A j \in 1..Len(rest) : at(j) \in 1..Len(opps) /\ at(j) # i /\ rest[j] = opps[at(j)]
  BY <1>1, <1>2
<1>4. \A j, k \in 1..Len(rest) : at(j) = at(k) => j = k
  BY <1>1, <1>2
<1>5. \A k \in 1..Len(opps) \ {i} : \E j \in 1..Len(rest) : at(j) = k
  <2> TAKE k \in 1..Len(opps) \ {i}
  <2>1. CASE k < i
    BY <1>1, <1>2, <2>1
  <2>2. CASE k > i
    <3>1. k - 1 \in 1..Len(rest) /\ at(k - 1) = k
      BY <1>1, <1>2, <2>2
    <3> QED
      BY <3>1
  <2> QED
    BY <2>1, <2>2
<1> HIDE DEF rest, at
<1>6. \A j, k \in 1..Len(opps) : opps[j].dev = opps[k].dev => j = k
  BY DEF Good, OneEach
<1>7. \A j \in 1..Len(rest) : rest[j].dev # opps[i].dev
  BY <1>3, <1>6
<1>8. \A j, k \in 1..Len(rest) : rest[j].dev = rest[k].dev => j = k
  BY <1>3, <1>4, <1>6
<1>9. \A k \in 1..Len(opps) \ {i} : \E j \in 1..Len(rest) : rest[j] = opps[k]
  BY <1>3, <1>5
<1>10. Len(rest) \in Nat
  BY <1>2, LenProperties
<1> QED
  BY <1>2, <1>3, <1>7, <1>8, <1>9, <1>10 DEF rest

\* An opportunity that is taken leads to a reply, to the second window, or nowhere.
LEMMA OpportunityServed ==
  ASSUME Good, NEW i \in 1..Len(opps), opps[i].left = 0,
         dev' = dev, up' = up, gws' = gws,
         status' \in [Devices -> StatusType],
         \A d \in Devices : status'[d].list = status[d].list,
         \/ opps' = RemoveAt(opps, i) /\ down' = down
         \/ /\ opps' = RemoveAt(opps, i)
            /\ \E r \in ReplyType :
                 r.dev = opps[i].dev /\ r.win = opps[i].win /\ down' = down \cup {r}
         \/ /\ opps[i].win = 1 /\ down' = down
            /\ opps' = ScheduleOpportunity(RemoveAt(opps, i), opps[i].dev, 2)
  PROVE  Good'
<1> DEFINE d == opps[i].dev
           rest == RemoveAt(opps, i)
<1>1. /\ Typed /\ d \in Devices /\ opps[i] \in OppType /\ opps[i].win \in 1..2
      /\ Len(opps) \in Nat /\ \A k \in 1..Len(opps) : opps[k].dev \in Devices
  BY OppMeans DEF Good
<1>2. dev[d].age = opps[i].win /\ Has(d)
  BY <1>1 DEF Good, OnTime
<1>3. /\ rest \in Seq(OppType) /\ Len(rest) \in Nat
      /\ \A j \in 1..Len(rest) : rest[j].dev # d /\ \E k \in 1..Len(opps) : rest[j] = opps[k]
      /\ \A k \in 1..Len(opps) \ {i} : \E j \in 1..Len(rest) : rest[j] = opps[k]
      /\ \A j, k \in 1..Len(rest) : rest[j].dev = rest[k].dev => j = k
  BY OpportunityTaken
<1> HIDE DEF d, rest
<1>4. \A e \in Devices : Has(e)' <=> Has(e)
  BY DEF Has
<1>5. Numbered'
  BY <1>4 DEF Good, Numbered
<1>6. CopiesAreCurrent'
  BY DEF Good, CopiesAreCurrent
<1>7. \A j \in 1..Len(rest) :
        /\ rest[j].dev \in Devices /\ dev[rest[j].dev].age = rest[j].win - rest[j].left
        /\ Has(rest[j].dev)
  BY <1>1, <1>3 DEF Good, OnTime
<1>8. \A e \in Devices : dev[e].age = 0 /\ Has(e) => \E j \in 1..Len(rest) : rest[j].dev = e
  <2> TAKE e \in Devices
  <2> HAVE dev[e].age = 0 /\ Has(e)
  <2>1. PICK k \in 1..Len(opps) : opps[k].dev = e
    BY DEF Good, Planned
  <2>2. k # i
    BY <1>1, <1>2, <2>1 DEF d
  <2> QED
    BY <1>3, <2>1, <2>2
<1>9. \A x \in down : /\ x.dev \in Devices /\ dev[x.dev].age = x.win /\ Has(x.dev)
                      /\ x.dev # d /\ \A j \in 1..Len(rest) : rest[j].dev # x.dev
  BY <1>1, <1>3 DEF Good, RepliesMeetWindows, Typed, ReplyType, d
<1>10. ASSUME opps' = rest
       PROVE  OneEach' /\ OnTime' /\ Planned'
  BY <1>3, <1>4, <1>7, <1>8, <1>10 DEF OneEach, OnTime, Planned
<1>11. CASE opps' = rest /\ down' = down
  <2>1. Typed'
    BY <1>3, <1>11 DEF Good, Typed
  <2>2. RepliesMeetWindows'
    BY <1>4, <1>9, <1>11 DEF Good, RepliesMeetWindows
  <2> QED
    BY <1>5, <1>6, <1>10, <1>11, <2>1, <2>2 DEF Good
<1>12. CASE /\ opps' = rest
            /\ \E r \in ReplyType : r.dev = d /\ r.win = opps[i].win /\ down' = down \cup {r}
  <2>1. PICK r \in ReplyType : r.dev = d /\ r.win = opps[i].win /\ down' = down \cup {r}
    BY <1>12
  <2>2. Typed'
    BY <1>3, <1>12, <2>1 DEF Good, Typed
  <2>3. RepliesMeetWindows'
    BY <1>1, <1>2, <1>3, <1>4, <1>9, <1>12, <2>1 DEF Good, RepliesMeetWindows
  <2> QED
    BY <1>5, <1>6, <1>10, <1>12, <2>2, <2>3 DEF Good
<1>13. CASE /\ opps[i].win = 1 /\ down' = down /\ opps' = ScheduleOpportunity(rest, d, 2)
  <2>1. /\ opps' \in Seq(OppType) /\ Len(opps') = Len(rest) + 1
        /\ \A j \in 1..Len(rest) : opps'[j] = rest[j]
        /\ opps'[Len(rest) + 1] = [dev |-> d, win |-> 2, left |-> 1]
    <3>1. rest \in Seq(OppType) /\ d \in Devices /\ 2 \in 1..2
      BY <1>1, <1>3
    <3>2. LET os == ScheduleOpportunity(rest, d, 2)
          IN  /\ os \in Seq(OppType) /\ Len(os) = Len(rest) + 1
              /\ \A j \in 1..Len(rest) : os[j] = rest[j]
              /\ os[Len(rest) + 1] = [dev |-> d, win |-> 2, left |-> 1]
      BY ONLY <3>1, OpportunityAdded
    <3> QED
      BY <1>13, <3>2
  <2>2. /\ opps'[Len(rest) + 1].dev = d
        /\ opps'[Len(rest) + 1].win - opps'[Len(rest) + 1].left = 1
    BY <2>1
  <2>3. /\ \A j \in 1..Len(opps') : j \in 1..Len(rest) \/ j = Len(rest) + 1
        /\ Len(rest) + 1 \in 1..Len(opps') /\ 1..Len(rest) \subseteq 1..Len(opps')
    BY <1>3, <2>1
  <2>4. Typed'
    BY <1>13, <2>1 DEF Good, Typed
  <2>5. OneEach'
    <3>1. \A j \in 1..Len(rest) : opps'[j].dev = rest[j].dev /\ opps'[j].dev # d
      BY <1>3, <2>1
    <3>2. \A j, k \in 1..Len(rest) : opps'[j].dev = opps'[k].dev => j = k
      BY <1>3, <3>1
    <3> QED
      BY <2>2, <2>3, <3>1, <3>2 DEF OneEach
  <2>6. OnTime'
    <3>1. ASSUME NEW j \in 1..Len(opps')
          PROVE  /\ opps'[j].dev \in Devices
                 /\ dev[opps'[j].dev].age = opps'[j].win - opps'[j].left
                 /\ Has(opps'[j].dev)
      BY <1>1, <1>2, <1>7, <1>13, <2>1, <2>2, <2>3
    <3> QED
      BY <1>4, <3>1 DEF OnTime
  <2>7. Planned'
    BY <1>4, <1>8, <2>1, <2>3 DEF Planned
  <2>8. RepliesMeetWindows'
    <3>1. \A x \in down : \A j \in 1..Len(opps') : opps'[j].dev # x.dev
      BY <1>9, <2>1, <2>2, <2>3
    <3> QED
      BY <1>4, <1>9, <1>13, <3>1 DEF Good, RepliesMeetWindows
  <2> QED
    BY <1>5, <1>6, <2>4, <2>5, <2>6, <2>7, <2>8 DEF Good
<1> QED
  BY <1>11, <1>12, <1>13 DEF d, rest

LEMMA InitializeReplyKeeps ==
  ASSUME status \in [Devices -> StatusType], NEW d \in Devices, InitializeReply(d)
  PROVE  /\ status' \in [Devices -> StatusType]
         /\ \A e \in Devices : status'[e].list = status[e].list
<1>1. \A r \in StatusType : /\ [r EXCEPT !.reply = NoReply] \in StatusType
                          /\ [r EXCEPT !.reply = NoReply].list = r.list
  BY DEF StatusType, NoReply
<1>2. status' = [status EXCEPT ![d] = [status[d] EXCEPT !.reply = NoReply]]
  BY DEF InitializeReply
<1> QED
  BY <1>1, <1>2

\* A gateway that is chosen can transmit in the window it is chosen for.
LEMMA BestGatewayIsFree ==
  ASSUME Typed, NEW d \in Devices, Has(d), NEW win, NEW g \in BestGateways(d, win)
  PROVE  g \in Gateways /\ ~ gws[g].transmitting /\ gws[g].wait[BandOf[win]] = 0
<1>1. PICK h \in PowerGatewayMap(Last(status[d].list).heard) :
        g = h[1] /\ IsAvailableForTransmission(g, BandOf[win])
  BY DEF BestGateways, Available
<1>2. Last(status[d].list) \in EntryType
  BY HasMeans DEF Last
<1>3. h \in Gateways \X Powers
  BY <1>1, <1>2 DEF PowerGatewayMap, EntryType
<1> QED
  BY <1>1, <1>3 DEF IsAvailableForTransmission

LEMMA OpportunityKeeps ==
  ASSUME Good, NEW i \in 1..Len(opps), OnReceiveWindowOpportunity(i)
  PROVE  Good'
<1> DEFINE d == opps[i].dev
           win == opps[i].win
<1>1. /\ Typed /\ status \in [Devices -> StatusType] /\ d \in Devices /\ win \in 1..2
      /\ opps[i].left = 0 /\ Has(d)
  BY OppMeans DEF Good, Typed, OnTime, OnReceiveWindowOpportunity
<1>2. dev' = dev /\ up' = up /\ gws' = gws
  BY DEF OnReceiveWindowOpportunity
<1> HIDE DEF d, win
<1>3. CASE NoGateway(i)
  <2>1. \/ /\ win = 1 /\ opps' = ScheduleOpportunity(RemoveAt(opps, i), d, 2)
           /\ down' = down /\ status' = status
        \/ /\ opps' = RemoveAt(opps, i) /\ down' = down /\ InitializeReply(d)
    BY <1>3 DEF NoGateway, d, win
  <2>2. /\ status' \in [Devices -> StatusType]
        /\ \A e \in Devices : status'[e].list = status[e].list
    BY <1>1, <2>1, InitializeReplyKeeps
  <2> QED
    BY <1>1, <1>2, <2>1, <2>2, OpportunityServed DEF d, win
<1>4. CASE GatewayFound(i)
  <2>1. PICK g \in BestGateways(d, win) :
          \/ /\ down' = down \cup {[gw |-> g, dev |-> d, win |-> win,
                                   ack |-> status[d].reply.ack]}
             /\ InitializeReply(d)
          \/ down' = down /\ status' = status
    BY <1>4 DEF GatewayFound, d, win
  <2>2. /\ status' \in [Devices -> StatusType]
        /\ \A e \in Devices : status'[e].list = status[e].list
    BY <1>1, <2>1, InitializeReplyKeeps
  <2>3. opps' = RemoveAt(opps, i)
    BY <1>4 DEF GatewayFound
  <2>4. CASE down' = down
    BY <1>1, <1>2, <2>2, <2>3, <2>4, OpportunityServed
  <2>5. CASE down' = down \cup {[gw |-> g, dev |-> d, win |-> win, ack |-> status[d].reply.ack]}
    <3> DEFINE r == [gw |-> g, dev |-> d, win |-> win, ack |-> status[d].reply.ack]
    <3>1. r \in ReplyType /\ r.dev = d /\ r.win = win
      <4>1. status[d].reply.ack \in BOOLEAN
        BY <1>1 DEF StatusType
      <4>2. g \in Gateways
        BY <1>1, BestGatewayIsFree
      <4> QED
        BY <1>1, <4>1, <4>2 DEF ReplyType
    <3>2. down' = down \cup {r}
      BY <2>5
    <3> HIDE DEF r
    <3> QED
      BY <1>1, <1>2, <2>2, <2>3, <3>1, <3>2, OpportunityServed DEF d, win
  <2> QED
    BY <2>1, <2>4, <2>5
<1> QED
  BY <1>3, <1>4 DEF OnReceiveWindowOpportunity

LEMMA GatewaySendsKeeps ==
  ASSUME Good, NEW x \in down, GatewaySends(x)
  PROVE  Good'
<1> DEFINE d == x.dev
<1>1. /\ x \in ReplyType /\ d \in Devices /\ x.gw \in Gateways /\ x.win \in 1..2
      /\ dev \in [Devices -> DeviceType] /\ gws \in [Gateways -> GW!GatewayType]
      /\ dev[d].age = x.win /\ Has(d) /\ \A i \in 1..Len(opps) : opps[i].dev # d
  BY DEF Good, Typed, ReplyType, RepliesMeetWindows
<1>2. down' = down \ {x} /\ up' = up /\ status' = status /\ opps' = opps
  BY DEF GatewaySends
<1>3. gws' \in [Gateways -> GW!GatewayType]
  <2>1. PICK t \in TxTimes : gws' = [gws EXCEPT ![x.gw] = GW!MacSend(gws[x.gw], BandOf[x.win], t)]
    BY DEF GatewaySends
  <2>2. BandOf[x.win] \in SubBands
    BY <1>1, NetworkServerAssumption
  <2>3. GW!MacSend(gws[x.gw], BandOf[x.win], t) \in GW!GatewayType
    BY <1>1, <2>2, GatewayKeepsType
  <2> QED
    BY <1>1, <2>1, <2>3
<1> DEFINE new == [dev[d] EXCEPT !.outcome = "acked", !.age = Closed]
<1>4. /\ new \in DeviceType /\ new.packet = dev[d].packet /\ new.fcnt = dev[d].fcnt
      /\ new.attempts = dev[d].attempts /\ new.age = Closed /\ new.outcome = "acked"
  <2>1. Closed \in 0..Closed
    BY DEF Closed
  <2>2. ASSUME NEW r \in DeviceType
        PROVE  /\ [r EXCEPT !.outcome = "acked", !.age = Closed] \in DeviceType
               /\ [r EXCEPT !.outcome = "acked", !.age = Closed].packet = r.packet
               /\ [r EXCEPT !.outcome = "acked", !.age = Closed].fcnt = r.fcnt
               /\ [r EXCEPT !.outcome = "acked", !.age = Closed].attempts = r.attempts
               /\ [r EXCEPT !.outcome = "acked", !.age = Closed].age = Closed
               /\ [r EXCEPT !.outcome = "acked", !.age = Closed].outcome = "acked"
    BY <2>1, Zenon DEF DeviceType
  <2>3. dev[d] \in DeviceType
    BY <1>1
  <2> QED
    BY <2>2, <2>3
<1>5. dev' = dev \/ (dev[d].outcome = "open" /\ dev' = [dev EXCEPT ![d] = new])
  <2>1. \/ dev' = dev
        \/ /\ dev[d].outcome = "open"
           /\ dev' = [dev EXCEPT ![d].outcome = "acked", ![d].age = Closed]
    BY DEF GatewaySends, Addressee
  <2> QED
    BY <1>1, <2>1 DEF DeviceType
<1> HIDE DEF d, new
<1>6. \A e \in Devices :
        /\ dev'[e].packet = dev[e].packet /\ dev'[e].fcnt = dev[e].fcnt
        /\ dev'[e].attempts = dev[e].attempts
        /\ \/ dev'[e].age = dev[e].age /\ dev'[e].outcome = dev[e].outcome
           \/ e = d /\ dev'[e].age = Closed /\ dev'[e].outcome = "acked"
  BY <1>1, <1>4, <1>5
<1>7. Typed'
  <2>1. dev' \in [Devices -> DeviceType]
    BY <1>1, <1>4, <1>5
  <2> QED
    BY <1>2, <1>3, <2>1 DEF Good, Typed
<1>8. Numbered' /\ \A e \in Devices : Has(e)' = Has(e)
  BY <1>2, <1>6, NumberingKept DEF Good, Closed
<1>9. CopiesAreCurrent'
  <2>1. \A c \in up : c.dev \in Devices \ {d}
    BY <1>1 DEF Good, Typed, CopyType, CopiesAreCurrent
  <2> QED
    BY <1>2, <1>6, <2>1 DEF Good, CopiesAreCurrent
<1>10. OneEach' /\ OnTime'
  <2>1. \A i \in 1..Len(opps) : opps[i].dev \in Devices \ {d}
    BY <1>1, OppMeans DEF Good
  <2> QED
    BY <1>2, <1>6, <1>8, <2>1 DEF Good, OneEach, OnTime
<1>11. Planned'
  <2>1. ASSUME NEW e \in Devices, dev'[e].age = 0
        PROVE  dev[e].age = 0
    BY <1>1, <1>6, <2>1 DEF Closed
  <2> QED
    BY <1>2, <1>8, <2>1 DEF Good, Planned
<1>12. RepliesMeetWindows'
  <2>1. \A y \in down' : y \in down /\ y.dev \in Devices \ {d}
    BY <1>1, <1>2 DEF Good, RepliesMeetWindows, Typed, ReplyType, d
  <2> QED
    BY <1>2, <1>6, <1>8, <2>1 DEF Good, RepliesMeetWindows
<1> QED
  BY <1>7, <1>8, <1>9, <1>10, <1>11, <1>12 DEF Good

LEMMA ReplySentKeeps ==
  ASSUME Good, NEW g \in Gateways, ReplySent(g)
  PROVE  Good'
<1>1. gws \in [Gateways -> GW!GatewayType] /\ UNCHANGED <<dev, up, status, opps, down>>
      /\ gws' = [gws EXCEPT ![g] = GW!TxFinished(gws[g])]
  BY DEF Good, Typed, ReplySent
<1>2. gws' \in [Gateways -> GW!GatewayType]
  BY <1>1, GatewayKeepsType
<1>3. Typed'
  BY <1>1, <1>2 DEF Good, Typed
<1>4. \A d \in Devices : Has(d)' = Has(d)
  BY <1>1 DEF Has
<1> QED
  BY <1>1, <1>3, <1>4
  DEF Good, Numbered, CopiesAreCurrent, OneEach, OnTime, Planned, RepliesMeetWindows, Has

LEMMA TickKeeps ==
  ASSUME Good, Tick
  PROVE  Good'
<1>1. /\ up' = {} /\ down' = {} /\ up = {} /\ down = {} /\ status' = status
      /\ dev' = [d \in Devices |-> [dev[d] EXCEPT !.age = IF @ < Closed THEN @ + 1 ELSE @]]
      /\ opps' = [i \in DOMAIN opps |-> [opps[i] EXCEPT !.left = @ - 1]]
      /\ gws' = [g \in Gateways |-> GW!Elapse(gws[g])]
      /\ \A i \in DOMAIN opps : opps[i].left > 0
      /\ \A g \in Gateways : 0 \notin gws[g].txs
  BY DEF Tick, GW!Settled
<1>2. /\ dev \in [Devices -> DeviceType] /\ gws \in [Gateways -> GW!GatewayType]
      /\ opps \in Seq(OppType) /\ Len(opps) \in Nat /\ DOMAIN opps = 1..Len(opps)
      /\ \A i \in 1..Len(opps) : /\ opps[i] \in OppType /\ opps[i].dev \in Devices
                               /\ opps[i].win \in 1..2 /\ opps[i].left \in 0..1
  BY OppMeans DEF Good, Typed
<1>3. ASSUME NEW d \in Devices
      PROVE  /\ dev'[d] \in DeviceType
             /\ dev'[d].packet = dev[d].packet /\ dev'[d].fcnt = dev[d].fcnt
             /\ dev'[d].attempts = dev[d].attempts /\ dev'[d].outcome = dev[d].outcome
             /\ dev[d].age \in 0..Closed
             /\ dev'[d].age = IF dev[d].age < Closed THEN dev[d].age + 1 ELSE dev[d].age
  <2> DEFINE age == IF dev[d].age < Closed THEN dev[d].age + 1 ELSE dev[d].age
  <2>1. dev[d] \in DeviceType /\ dev[d].age \in 0..Closed
    BY <1>2 DEF DeviceType
  <2>2. age \in 0..Closed
    BY <2>1 DEF Closed
  <2>3. dev'[d] = [dev[d] EXCEPT !.age = age]
    BY <1>1
  <2> HIDE DEF age
  <2>4. ASSUME NEW r \in DeviceType
        PROVE  /\ [r EXCEPT !.age = age] \in DeviceType
               /\ [r EXCEPT !.age = age].packet = r.packet
               /\ [r EXCEPT !.age = age].fcnt = r.fcnt
               /\ [r EXCEPT !.age = age].attempts = r.attempts
               /\ [r EXCEPT !.age = age].outcome = r.outcome
               /\ [r EXCEPT !.age = age].age = age
    BY <2>2, Zenon DEF DeviceType
  <2> QED
    BY <2>1, <2>3, <2>4 DEF age
<1>4. ASSUME NEW i \in 1..Len(opps)
      PROVE  /\ opps[i].left = 1 /\ [opps[i] EXCEPT !.left = @ - 1] \in OppType
             /\ opps'[i].dev = opps[i].dev /\ opps'[i].win = opps[i].win /\ opps'[i].left = 0
  <2>1. opps[i].left = 1
    BY <1>1, <1>2
  <2>2. opps'[i] = [opps[i] EXCEPT !.left = 0]
    BY <1>1, <1>2, <2>1
  <2>3. ASSUME NEW o \in OppType
        PROVE  /\ [o EXCEPT !.left = 0] \in OppType /\ [o EXCEPT !.left = 0].dev = o.dev
               /\ [o EXCEPT !.left = 0].win = o.win /\ [o EXCEPT !.left = 0].left = 0
    <3>1. 0 \in 0..1
      OBVIOUS
    <3> QED
      BY <3>1, Zenon DEF OppType
  <2> QED
    BY <1>2, <2>1, <2>2, <2>3
<1>5. opps' \in Seq(OppType) /\ Len(opps') = Len(opps)
  <2> DEFINE e(i) == [opps[i] EXCEPT !.left = @ - 1]
  <2>1. opps' = [i \in 1..Len(opps) |-> e(i)]
    BY <1>1, <1>2
  <2>2. \A i \in 1..Len(opps) : e(i) \in OppType
    BY <1>4
  <2>3. Len(opps) \in Nat
    BY <1>2
  <2> HIDE DEF e
  <2>4. [i \in 1..Len(opps) |-> e(i)] \in Seq(OppType)
    BY ONLY <2>2, <2>3, IsASeq
  <2>5. opps' \in Seq(OppType)
    BY <2>1, <2>4
  <2>6. DOMAIN opps' = 1..Len(opps')  /\ Len(opps') \in Nat
    BY <2>5, LenProperties
  <2>7. DOMAIN opps' = 1..Len(opps)
    BY <2>1
  <2> QED
    BY <2>3, <2>5, <2>6, <2>7
<1>6. Typed'
  <2>1. gws' \in [Gateways -> GW!GatewayType]
    BY <1>1, <1>2, GatewayKeepsType
  <2>2. dev' \in [Devices -> DeviceType]
    BY <1>1, <1>3
  <2> QED
    BY <1>1, <1>5, <2>1, <2>2 DEF Good, Typed
<1>7. Numbered' /\ \A d \in Devices : Has(d)' = Has(d)
  <2>1. \A d \in Devices :
          dev'[d].age < Closed \/ dev'[d].outcome = "open"
          => dev[d].age < Closed \/ dev[d].outcome = "open"
    BY <1>3 DEF Closed
  <2> QED
    BY <1>1, <1>3, <2>1, NumberingKept DEF Good
<1>8. OneEach' /\ OnTime' /\ Planned'
  <2>1. OneEach'
    BY <1>4, <1>5 DEF Good, OneEach
  <2>2. OnTime'
    <3>1. ASSUME NEW i \in 1..Len(opps)
          PROVE  /\ dev'[opps'[i].dev].age = opps'[i].win - opps'[i].left
                 /\ status'[opps'[i].dev].list # <<>>
                 /\ Last(status'[opps'[i].dev].list).fcnt = dev'[opps'[i].dev].fcnt
      <4>1. dev[opps[i].dev].age = opps[i].win - 1 /\ Has(opps[i].dev)
        BY <1>4 DEF Good, OnTime
      <4>2. dev'[opps[i].dev].age = opps[i].win
        BY <1>2, <1>3, <4>1 DEF Closed
      <4>3. /\ status'[opps[i].dev].list # <<>>
            /\ Last(status'[opps[i].dev].list).fcnt = dev'[opps[i].dev].fcnt
        BY <1>1, <1>2, <1>3, <4>1 DEF Has
      <4>4. opps'[i].win - opps'[i].left = opps[i].win
        <5>1. opps'[i].win = opps[i].win /\ opps'[i].left = 0
          BY <1>4
        <5>2. opps[i].win \in Int
          BY <1>2
        <5> QED
          BY ONLY <5>1, <5>2
      <4>5. opps'[i].dev = opps[i].dev
        BY <1>4
      <4> QED
        BY <4>2, <4>3, <4>4, <4>5
    <3> QED
      BY <1>5, <3>1 DEF OnTime, Has
  <2>3. Planned'
    <3>1. \A d \in Devices : dev'[d].age # 0
      BY <1>3 DEF Closed
    <3> QED
      BY <3>1 DEF Planned
  <2> QED
    BY <2>1, <2>2, <2>3
<1>9. CopiesAreCurrent' /\ RepliesMeetWindows'
  BY <1>1 DEF CopiesAreCurrent, RepliesMeetWindows
<1> QED
  BY <1>6, <1>7, <1>8, <1>9 DEF Good

LEMMA NextKeeps ==
  ASSUME NoWrap, Good, [Next]_vars
  PROVE  Good'
<1>1. CASE UNCHANGED vars
  BY <1>1
  DEF vars, Good, Typed, Numbered, CopiesAreCurrent, OneEach, OnTime, Planned,
      RepliesMeetWindows, Has
<1>2. CASE Next
  <2>1. DOMAIN opps = 1..Len(opps)
    BY OppMeans DEF Good
  <2> QED
    BY <1>2, <2>1, NewPacketKeeps, RetransmissionKeeps, GiveUpKeeps, ServerReceivesKeeps,
       OpportunityKeeps, GatewaySendsKeeps, ReplySentKeeps, TickKeeps
    DEF Next, RunEvent
<1> QED
  BY <1>1, <1>2

THEOREM GoodHolds ==
  ASSUME NoWrap
  PROVE  Spec => []Good
<1>1. Init => Good
  BY InitGood
<1>2. Good /\ [Next]_vars => Good'
  BY NextKeeps
<1> QED
  BY <1>1, <1>2, PTL DEF Spec

\* A reply reaches its gateway while the window it is for is open.
THEOREM RepliesInWindow ==
  ASSUME NoWrap
  PROVE  Spec => []ReplyInWindow
<1>1. Good => ReplyInWindow
  BY DEF Good, RepliesMeetWindows, ReplyInWindow
<1> QED
  BY <1>1, GoodHolds, PTL

-----------------------------------------------------------------------------
(* What the server saw of a gateway *)

\* If windows are spaced, the only reply on its way finds its gateway free.
AloneAndFree == ForwardedCanBeSent /\ \A x, y \in down : x = y

LEMMA NextKeepsFree ==
  ASSUME Spaced, Good, AloneAndFree, [Next]_vars
  PROVE  AloneAndFree'
<1>1. /\ Typed /\ gws \in [Gateways -> GW!GatewayType]
      /\ \A x \in down : x \in ReplyType /\ x.gw \in Gateways
  BY DEF Good, Typed, ReplyType
<1>2. CASE down' = down /\ gws' = gws
  BY <1>2 DEF AloneAndFree, ForwardedCanBeSent
<1>3. CASE down' = {}
  BY <1>3 DEF AloneAndFree, ForwardedCanBeSent
<1>4. ASSUME NEW i \in DOMAIN opps, OnReceiveWindowOpportunity(i)
      PROVE  AloneAndFree'
  <2>1. down = {} /\ gws' = gws
    BY <1>4 DEF OnReceiveWindowOpportunity
  <2>2. CASE NoGateway(i)
    BY <1>2, <2>1, <2>2 DEF NoGateway
  <2>3. CASE GatewayFound(i)
    <3> DEFINE d == opps[i].dev
               win == opps[i].win
    <3>1. d \in Devices /\ Has(d)
      BY OppMeans DEF Good, OnTime
    <3>2. PICK g \in BestGateways(d, win) :
            \/ down' = down
            \/ down' = {[gw |-> g, dev |-> d, win |-> win, ack |-> status[d].reply.ack]}
      BY <2>1, <2>3 DEF GatewayFound
    <3>3. ~ gws[g].transmitting /\ gws[g].wait[BandOf[win]] = 0
      BY <1>1, <3>1, BestGatewayIsFree
    <3> QED
      BY <1>2, <2>1, <3>2, <3>3 DEF AloneAndFree, ForwardedCanBeSent
  <2> QED
    BY <1>4, <2>2, <2>3 DEF OnReceiveWindowOpportunity
<1>5. ASSUME NEW x \in down, GatewaySends(x)
      PROVE  AloneAndFree'
  <2>1. down' = {}
    BY <1>5 DEF GatewaySends, AloneAndFree
  <2> QED
    BY <1>3, <2>1
<1>6. ASSUME NEW g \in Gateways, ReplySent(g)
      PROVE  AloneAndFree'
  <2>1. down' = down /\ gws' = [gws EXCEPT ![g] = GW!TxFinished(gws[g])]
    BY <1>6 DEF ReplySent
  <2>2. ASSUME NEW h \in Gateways
        PROVE  /\ gws'[h].wait = gws[h].wait
               /\ ~ gws[h].transmitting => ~ gws'[h].transmitting
    <3>1. ASSUME NEW r \in GW!GatewayType
          PROVE  GW!TxFinished(r).transmitting = FALSE /\ GW!TxFinished(r).wait = r.wait
      BY DEF GW!GatewayType, GW!TxFinished
    <3> QED
      BY <1>1, <2>1, <3>1
  <2> QED
    BY <1>1, <2>1, <2>2 DEF AloneAndFree, ForwardedCanBeSent
<1>7. ASSUME Next
      PROVE  AloneAndFree'
  <2>1. ASSUME NEW d \in Devices, NEW confirmed \in BOOLEAN,
               NewPacket(d, confirmed) \/ Retransmission(d) \/ GiveUp(d)
        PROVE  AloneAndFree'
    BY <1>2, <2>1 DEF NewPacket, Retransmission, GiveUp
  <2>2. ASSUME NEW c \in up, ServerReceives(c)
        PROVE  AloneAndFree'
    BY <1>2, <2>2 DEF ServerReceives
  <2>3. CASE Tick
    BY <1>3, <2>3 DEF Tick
  <2> QED
    BY <1>4, <1>5, <1>6, <1>7, <2>1, <2>2, <2>3 DEF Next, RunEvent
<1> QED
  BY <1>2, <1>7 DEF vars

\* If no two devices' windows open within a link delay, a gateway that is handed
\* a downlink can transmit it: nothing has changed since the server looked.
THEOREM RepliesCanBeSent ==
  ASSUME NoWrap, Spaced
  PROVE  Spec => []ForwardedCanBeSent
<1>1. Init => AloneAndFree
  BY DEF Init, AloneAndFree, ForwardedCanBeSent
<1>2. Good /\ AloneAndFree /\ [Next]_vars => AloneAndFree'
  BY NextKeepsFree
<1>3. AloneAndFree => ForwardedCanBeSent
  BY DEF AloneAndFree
<1> QED
  BY <1>1, <1>2, <1>3, GoodHolds, PTL DEF Spec

-----------------------------------------------------------------------------
(* One opportunity for each attempt *)

\* Only NetworkServer::Receive takes a copy from the links.
LEMMA CopyTaken ==
  ASSUME [Next]_vars, NEW c \in up, c \notin up'
  PROVE  ServerReceives(c)
<1>1. CASE UNCHANGED vars
  BY <1>1 DEF vars
<1>2. CASE Next
  <2>1. ASSUME NEW d \in Devices, NEW confirmed \in BOOLEAN,
               NewPacket(d, confirmed) \/ Retransmission(d) \/ GiveUp(d)
        PROVE  up \subseteq up'
    BY <2>1 DEF NewPacket, Retransmission, GiveUp, Attempt
  <2>2. ASSUME NEW e \in up, ServerReceives(e)
        PROVE  c = e
    BY <2>2 DEF ServerReceives
  <2>3. ASSUME \/ \E i \in DOMAIN opps : OnReceiveWindowOpportunity(i)
               \/ \E x \in down : GatewaySends(x)
               \/ \E g \in Gateways : ReplySent(g)
               \/ Tick
        PROVE  up' = up
    BY <2>3 DEF OnReceiveWindowOpportunity, GatewaySends, ReplySent, Tick
  <2> QED
    BY <1>2, <2>1, <2>2, <2>3 DEF Next, RunEvent
<1> QED
  BY <1>1, <1>2

\* However many gateways forward an attempt, one opportunity is planned for it.
THEOREM OneOpportunityPlanned ==
  ASSUME NoWrap
  PROVE  Spec => OneOpportunity
<1>1. ASSUME Good, [Next]_vars, NEW c \in up, c \notin up'
      PROVE  Cardinality({i \in DOMAIN opps' : opps'[i].dev = c.dev}) = 1
  <2>1. ServerReceives(c)
    BY <1>1, CopyTaken
  <2>2. Good' /\ Has(c.dev)'
    BY <1>1, <2>1, ServerReceivesKeeps
  <2>3. c.dev \in Devices /\ dev'[c.dev].age = 0
    BY <1>1, <2>1 DEF Good, Typed, CopyType, CopiesAreCurrent, ServerReceives
  <2>4. PICK i \in 1..Len(opps') : opps'[i].dev = c.dev
    <3>1. \A d \in Devices : dev'[d].age = 0 /\ status'[d].list # <<>>
                            /\ Last(status'[d].list).fcnt = dev'[d].fcnt
                            => \E i \in 1..Len(opps') : opps'[i].dev = d
      BY <2>2 DEF Good, Planned, Has
    <3> QED
      BY <2>2, <2>3, <3>1 DEF Has
  <2>5. \A j \in 1..Len(opps') : opps'[j].dev = c.dev => j = i
    BY <2>2, <2>4 DEF Good, OneEach
  <2>6. opps' \in Seq(OppType)
    BY <2>2 DEF Good, Typed
  <2>7. DOMAIN opps' = 1..Len(opps')
    BY <2>6, LenProperties
  <2>8. {j \in DOMAIN opps' : opps'[j].dev = c.dev} = {i}
    BY <2>4, <2>5, <2>7
  <2> QED
    BY <2>8, FS_Singleton
<1>2. Good /\ [Next]_vars =>
        [\A c \in up : c \notin up' =>
           Cardinality({i \in DOMAIN opps' : opps'[i].dev = c.dev}) = 1]_vars
  BY <1>1
<1> QED
  BY <1>2, GoodHolds, PTL DEF Spec, OneOpportunity

-----------------------------------------------------------------------------
(* The network implements ConfirmedDelivery *)

Current == [d \in Devices |-> dev[d].packet]
Received == [d \in Devices |-> {status[d].list[i].packet : i \in DOMAIN status[d].list}]
Outcome == [d \in Devices |-> dev[d].outcome]

\* Lists with the same packets are the same to ConfirmedDelivery.
LEMMA ReceivedKept ==
  ASSUME \A d \in Devices : status'[d].list = status[d].list
  PROVE  Received' = Received
  BY DEF Received

LEMMA ServerDelivers ==
  ASSUME Good, NEW c \in up, ServerReceives(c)
  PROVE  \/ Received' = Received
         \/ Received' = [Received EXCEPT ![c.dev] = @ \cup {dev[c.dev].packet}]
<1> DEFINE d == c.dev
           old == status[d].list
           new == InsertReceivedPacket(old, c)
           Packets(list) == {list[i].packet : i \in DOMAIN list}
<1>1. d \in Devices /\ status \in [Devices -> StatusType] /\ old \in Seq(EntryType)
  BY DEF Good, Typed, CopyType, StatusType
<1>2. status'[d].list = new /\ \A e \in Devices \ {d} : status'[e] = status[e]
  BY <1>1 DEF ServerReceives, Receive
<1>3. /\ new \in Seq(EntryType)
      /\ \/ /\ Len(new) = Len(old)
            /\ \A i \in 1..Len(old) : new[i].packet = old[i].packet
         \/ /\ Len(new) = Len(old) + 1
            /\ \A i \in 1..Len(old) : new[i] = old[i]
            /\ new[Len(old) + 1].packet = dev[d].packet
  BY CopyInserted
<1>4. /\ DOMAIN old = 1..Len(old) /\ DOMAIN new = 1..Len(new)
      /\ Len(old) \in Nat /\ Len(new) \in Nat
  BY <1>1, <1>3, LenProperties
<1> HIDE DEF old, new
<1>5. Packets(new) = Packets(old) \/ Packets(new) = Packets(old) \cup {dev[d].packet}
  <2>1. CASE Len(new) = Len(old) /\ \A i \in 1..Len(old) : new[i].packet = old[i].packet
    BY <1>4, <2>1
  <2>2. CASE /\ Len(new) = Len(old) + 1
             /\ \A i \in 1..Len(old) : new[i] = old[i]
             /\ new[Len(old) + 1].packet = dev[d].packet
    <3>1. /\ \A i \in 1..Len(new) : i \in 1..Len(old) \/ i = Len(old) + 1
          /\ 1..Len(old) \subseteq 1..Len(new) /\ Len(old) + 1 \in 1..Len(new)
      BY <1>4, <2>2
    <3> QED
      BY <1>4, <2>2, <3>1
  <2> QED
    BY <1>3, <2>1, <2>2
<1>6. /\ Received[d] = Packets(old) /\ Received'[d] = Packets(new)
      /\ \A e \in Devices \ {d} : Received'[e] = Received[e]
  BY <1>1, <1>2 DEF Received, old
<1>7. Received = [e \in Devices |-> Received[e]] /\ Received' = [e \in Devices |-> Received'[e]]
  BY DEF Received
<1> HIDE DEF Packets
<1>8. CASE Packets(new) = Packets(old)
  BY <1>6, <1>7, <1>8
<1>9. CASE Packets(new) = Packets(old) \cup {dev[d].packet}
  BY <1>1, <1>6, <1>7, <1>9
<1> QED
  BY <1>5, <1>8, <1>9

LEMMA DeviceChanged ==
  ASSUME dev \in [Devices -> DeviceType], NEW d \in Devices, NEW new,
         dev' = [dev EXCEPT ![d] = new]
  PROVE  /\ Current' = [Current EXCEPT ![d] = new.packet]
         /\ Outcome' = [Outcome EXCEPT ![d] = new.outcome]
<1>1. dev'[d] = new /\ \A e \in Devices \ {d} : dev'[e] = dev[e]
  OBVIOUS
<1> QED
  BY <1>1 DEF Current, Outcome

LEMMA DeliverySubmits ==
  ASSUME Good, NEW d \in Devices, NEW confirmed \in BOOLEAN, NewPacket(d, confirmed)
  PROVE  /\ Current' = [Current EXCEPT ![d] = @ + 1]
         /\ \E o \in {"open", "none"} : Outcome' = [Outcome EXCEPT ![d] = o]
         /\ Received' = Received
<1> DEFINE new == [packet |-> dev[d].packet + 1, fcnt |-> NextFCnt(dev[d].fcnt), tries |-> 1,
                   age |-> 0, attempts |-> dev[d].attempts + 1,
                   outcome |-> IF confirmed THEN "open" ELSE "none"]
<1>1. dev \in [Devices -> DeviceType] /\ status' = status
  BY DEF Good, Typed, NewPacket
<1>2. dev' = [dev EXCEPT ![d] = new]
  BY <1>1 DEF NewPacket
<1>3. new.packet = dev[d].packet + 1 /\ new.outcome \in {"open", "none"}
  OBVIOUS
<1> HIDE DEF new
<1>4. /\ Current' = [Current EXCEPT ![d] = new.packet]
      /\ Outcome' = [Outcome EXCEPT ![d] = new.outcome]
  BY <1>1, <1>2, DeviceChanged
<1>5. Current[d] = dev[d].packet
  BY DEF Current
<1> QED
  BY <1>1, <1>3, <1>4, <1>5, ReceivedKept

LEMMA DeliveryConfirms ==
  ASSUME Good, NEW x \in down, GatewaySends(x)
  PROVE  /\ Received' = Received /\ Current' = Current
         /\ \/ Outcome' = Outcome
            \/ /\ Outcome[x.dev] = "open" /\ Current[x.dev] \in Received[x.dev]
               /\ Outcome' = [Outcome EXCEPT ![x.dev] = "acked"]
<1> DEFINE d == x.dev
<1>1. dev \in [Devices -> DeviceType] /\ d \in Devices /\ Has(d) /\ Typed
  BY DEF Good, Typed, ReplyType, RepliesMeetWindows
<1>2. status' = status
  BY DEF GatewaySends
<1>3. Received' = Received
  BY <1>2, ReceivedKept
<1>4. \/ dev' = dev
      \/ /\ dev[d].outcome = "open"
         /\ dev' = [dev EXCEPT ![d].outcome = "acked", ![d].age = Closed]
  BY DEF GatewaySends, Addressee
<1>5. CASE dev' = dev
  BY <1>3, <1>5 DEF Current, Outcome
<1>6. CASE /\ dev[d].outcome = "open"
           /\ dev' = [dev EXCEPT ![d].outcome = "acked", ![d].age = Closed]
  <2> DEFINE new == [dev[d] EXCEPT !.outcome = "acked", !.age = Closed]
  <2>1. dev' = [dev EXCEPT ![d] = new]
    BY <1>1, <1>6 DEF DeviceType
  <2>2. ASSUME NEW r \in DeviceType
        PROVE  /\ [r EXCEPT !.outcome = "acked", !.age = Closed].packet = r.packet
               /\ [r EXCEPT !.outcome = "acked", !.age = Closed].outcome = "acked"
    BY DEF DeviceType
  <2>3. dev[d] \in DeviceType
    BY <1>1
  <2>4. new.packet = dev[d].packet /\ new.outcome = "acked"
    BY <2>2, <2>3
  <2> HIDE DEF new
  <2>5. /\ Current' = [Current EXCEPT ![d] = dev[d].packet]
        /\ Outcome' = [Outcome EXCEPT ![d] = "acked"]
    <3>1. /\ Current' = [Current EXCEPT ![d] = new.packet]
          /\ Outcome' = [Outcome EXCEPT ![d] = new.outcome]
      BY <1>1, <2>1, DeviceChanged
    <3> QED
      BY <2>4, <3>1
  <2>6. /\ Outcome[d] = "open" /\ Current[d] = dev[d].packet
        /\ Current = [Current EXCEPT ![d] = dev[d].packet]
    BY <1>1, <1>6 DEF Outcome, Current
  <2>7. dev[d].packet \in Received[d]
    <3> DEFINE n == Len(status[d].list)
    <3>1. /\ n \in 1..n /\ status[d].list[n].fcnt = dev[d].fcnt
          /\ status[d].list \in Seq(EntryType)
      BY <1>1, HasMeans
    <3>2. status[d].list[n].packet = dev[d].packet
      BY <1>1, <3>1 DEF Good, Numbered
    <3>3. n \in DOMAIN status[d].list
      BY <3>1, LenProperties
    <3> QED
      BY <1>1, <3>2, <3>3 DEF Received
  <2> QED
    BY <1>3, <2>5, <2>6, <2>7
<1> QED
  BY <1>4, <1>5, <1>6

LEMMA OpportunityKeepsLists ==
  ASSUME Good, NEW i \in 1..Len(opps), OnReceiveWindowOpportunity(i)
  PROVE  dev' = dev /\ \A d \in Devices : status'[d].list = status[d].list
<1>1. status \in [Devices -> StatusType] /\ opps[i].dev \in Devices
  BY OppMeans DEF Good, Typed
<1>2. status' = status \/ InitializeReply(opps[i].dev)
  BY DEF OnReceiveWindowOpportunity, NoGateway, GatewayFound
<1> QED
  BY <1>1, <1>2, InitializeReplyKeeps DEF OnReceiveWindowOpportunity

LEMMA DeliveryStep ==
  ASSUME Good, [Next]_vars
  PROVE  [Delivery!Next]_(Delivery!vars)
<1> DEFINE Same == Current' = Current /\ Received' = Received /\ Outcome' = Outcome
<1>1. Same => [Delivery!Next]_(Delivery!vars)
  BY DEF Delivery!vars, Current, Received, Outcome
<1>2. ASSUME dev' = dev, \A d \in Devices : status'[d].list = status[d].list
      PROVE  Same
  BY <1>2, ReceivedKept DEF Current, Outcome
<1>3. dev \in [Devices -> DeviceType] /\ \A d \in Devices : dev[d] \in DeviceType
  BY DEF Good, Typed
<1>4. ASSUME NEW d \in Devices, NEW confirmed \in BOOLEAN, NewPacket(d, confirmed)
      PROVE  Delivery!Submit(d)
  BY <1>4, DeliverySubmits DEF Delivery!Submit, Current, Received, Outcome
<1>5. ASSUME NEW d \in Devices, Retransmission(d)
      PROVE  Same
  <2>1. /\ \A e \in Devices : dev'[e].packet = dev[e].packet /\ dev'[e].outcome = dev[e].outcome
        /\ status' = status
    BY <1>3, <1>5 DEF Retransmission, DeviceType
  <2> QED
    BY <2>1 DEF Current, Received, Outcome
<1>6. ASSUME NEW d \in Devices, GiveUp(d)
      PROVE  Delivery!GiveUp(d)
  <2>1. /\ \A e \in Devices : /\ dev'[e].packet = dev[e].packet
                              /\ dev'[e].outcome = IF e = d THEN "failed" ELSE dev[e].outcome
        /\ status' = status /\ dev[d].outcome = "open"
    BY <1>3, <1>6 DEF GiveUp, DeviceType
  <2>2. Current' = Current /\ Received' = Received /\ Outcome[d] = "open"
    BY <2>1 DEF Current, Received, Outcome
  <2>3. Outcome' = [Outcome EXCEPT ![d] = "failed"]
    BY <2>1 DEF Outcome
  <2> QED
    BY <2>2, <2>3 DEF Delivery!GiveUp, Current, Received, Outcome
<1>7. ASSUME NEW c \in up, ServerReceives(c)
      PROVE  [Delivery!Next]_(Delivery!vars)
  <2>1. dev' = dev /\ c.dev \in Devices /\ dev[c.dev].packet > 0
    BY <1>7 DEF ServerReceives, Good, Typed, CopyType, CopiesAreCurrent, Numbered, Closed
  <2>2. Current' = Current /\ Outcome' = Outcome /\ Current[c.dev] = dev[c.dev].packet
    BY <2>1 DEF Current, Outcome
  <2>3. CASE Received' = Received
    BY <1>1, <2>2, <2>3
  <2>4. CASE Received' = [Received EXCEPT ![c.dev] = @ \cup {dev[c.dev].packet}]
    <3>1. Delivery!Deliver(c.dev)
      BY <2>1, <2>2, <2>4 DEF Delivery!Deliver, Current, Received, Outcome
    <3> QED
      BY <2>1, <3>1 DEF Delivery!Next
  <2> QED
    BY <1>7, <2>3, <2>4, ServerDelivers
<1>8. ASSUME NEW x \in down, GatewaySends(x)
      PROVE  [Delivery!Next]_(Delivery!vars)
  <2>1. x.dev \in Devices
    BY DEF Good, Typed, ReplyType
  <2>2. CASE Same
    BY <1>1, <2>2
  <2>3. CASE ~ Same
    <3>1. Delivery!Confirm(x.dev)
      BY <1>8, <2>3, DeliveryConfirms DEF Delivery!Confirm, Current, Received, Outcome
    <3> QED
      BY <2>1, <3>1 DEF Delivery!Next
  <2> QED
    BY <2>2, <2>3
<1>9. ASSUME NEW g \in Gateways, ReplySent(g)
      PROVE  Same
  BY <1>2, <1>9 DEF ReplySent
<1>10. CASE Tick
  <2>1. /\ \A e \in Devices : dev'[e].packet = dev[e].packet /\ dev'[e].outcome = dev[e].outcome
        /\ status' = status
    BY <1>3, <1>10 DEF Tick, DeviceType
  <2> QED
    BY <1>1, <2>1 DEF Current, Received, Outcome
<1>11. ASSUME NEW i \in DOMAIN opps, OnReceiveWindowOpportunity(i)
       PROVE  Same
  <2>1. i \in 1..Len(opps)
    BY OppMeans DEF Good
  <2> QED
    BY <1>2, <1>11, <2>1, OpportunityKeepsLists
<1>12. CASE UNCHANGED vars
  BY <1>1, <1>2, <1>12 DEF vars
<1>13. CASE Next
  <2> HIDE DEF Same
  <2> QED
    BY <1>1, <1>4, <1>5, <1>6, <1>7, <1>8, <1>9, <1>10, <1>11, <1>13
    DEF Next, RunEvent, Delivery!Next
<1> QED
  BY <1>12, <1>13

\* A packet is reported as acknowledged only when the server has received it, for
\* whatever number of devices, gateways and attempts.
THEOREM DeliveryIsRefined ==
  ASSUME NoWrap
  PROVE  Spec => DeliveryRefined
<1>1. Init => Delivery!Init
  BY EmptySeq DEF Init, Delivery!Init
<1>2. Good /\ [Next]_vars => [Delivery!Next]_(Delivery!vars)
  BY DeliveryStep
<1> QED
  BY <1>1, <1>2, GoodHolds, PTL DEF Spec, DeliveryRefined, Delivery!Spec
=============================================================================
