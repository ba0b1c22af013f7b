---------------------------- MODULE NetworkServer ----------------------------
(***************************************************************************)
(* The network server (NetworkServer, NetworkScheduler, NetworkStatus,     *)
(* EndDeviceStatus, GatewayStatus, ConfirmedMessagesComponent) between the *)
(* gateways and class A devices that send packets.                         *)
(*                                                                         *)
(* One tick is RECEIVE_DELAY1, one second.  The links between gateways and *)
(* server take two milliseconds: whatever is on them arrives within the    *)
(* tick, in any order.  Gateways are those of module Gateway without their *)
(* reception paths; devices are reduced to what the server can see of      *)
(* them: attempts, each with a frame counter, and two receive windows.     *)
(***************************************************************************)
EXTENDS Integers, Sequences, FiniteSets, SequencesExt

CONSTANTS
  Devices,
  Gateways,      \* natural numbers, in the order of the gateways' addresses
  Powers,        \* receive powers, natural numbers
  FCntMod,       \* frame counters are counted modulo this: 256
  MaxTries,      \* m_maxNumbTx
  SubBands, BandOf,    \* sub-bands, and that of each receive window
  DutyDiv,       \* 1 / duty cycle of each sub-band, for gateways
  TxTimes,       \* on-air times of replies, in ticks
  Spaced,        \* no two devices' windows open within a link delay
  MaxAttempts,   \* bound of the runs: how many attempts each device makes
  None

ASSUME NetworkServerAssumption ==
  /\ Gateways \subseteq Nat /\ Powers \subseteq Nat
  /\ FCntMod \in Nat \ {0} /\ MaxTries \in Nat \ {0}
  /\ MaxAttempts \in [Devices -> Nat]
  /\ BandOf \in [1..2 -> SubBands] /\ DutyDiv \in [SubBands -> Nat \ {0}]
  /\ TxTimes \subseteq Nat \ {0} /\ Spaced \in BOOLEAN

VARIABLES
  dev,           \* the devices
  up,            \* receptions of gateways on their way to the server
  status,        \* m_endDeviceStatuses: [list, reply] of each device
  opps,          \* OnReceiveWindowOpportunity events pending
  down,          \* replies on their way to gateways
  gws            \* the gateways
vars == <<dev, up, status, opps, down, gws>>

GW == INSTANCE Gateway
        WITH Paths <- {}, Signals <- {}, RxTimes <- {}, Booked <- FALSE, MaxDrift <- 0,
             gw <- gws, traces <- up

NoReply == [needs |-> FALSE, ack |-> FALSE]

Closed == 3      \* the age of an attempt whose receive windows are over

-----------------------------------------------------------------------------
(* EndDeviceStatus, NetworkStatus, GatewayStatus *)

\* InsertReceivedPacket: the search begins at the end of the list.  A gateway
\* already in the list of a frame keeps the power it is there with.
Known(list, fcnt) == {i \in DOMAIN list : list[i].fcnt = fcnt}

InsertReceivedPacket(list, c) ==
  IF Known(list, c.fcnt) = {}
  THEN Append(list, [fcnt |-> c.fcnt, packet |-> c.packet, heard |-> {<<c.gw, c.power>>}])
  ELSE LET i == CHOOSE i \in Known(list, c.fcnt) : \A j \in Known(list, c.fcnt) : j <= i
       IN  [list EXCEPT ![i].heard =
              IF \E h \in @ : h[1] = c.gw THEN @ ELSE @ \cup {<<c.gw, c.power>>}]

\* GetPowerGatewayMap: of gateways with the same power, only the first one.
PowerGatewayMap(heard) ==
  {h \in heard : \A k \in heard : k[2] = h[2] => h[1] <= k[1]}

IsAvailableForTransmission(g, b) == ~gws[g].transmitting /\ gws[g].wait[b] = 0

\* Faulty variant: the duty cycle is not asked for.
AvailableIgnoringDuty(d, win) ==
  {h \in PowerGatewayMap(Last(status[d].list).heard) : ~gws[h[1]].transmitting}

\* Available gateways that received the last packet.
Available(d, win) ==
  {h \in PowerGatewayMap(Last(status[d].list).heard) :
     IsAvailableForTransmission(h[1], BandOf[win])}

\* GetBestGatewayForDevice: the available one with the highest power, if any.
BestGateways(d, win) ==
  {h[1] : h \in {h \in Available(d, win) : \A k \in Available(d, win) : k[2] <= h[2]}}

-----------------------------------------------------------------------------
(* NetworkScheduler *)

\* The packet came before, through another gateway.  Faulty variant: packets
\* are not compared.
AlreadyReceivedNever(list, c) == FALSE
AlreadyReceived(list, c) == list # <<>> /\ Last(list).fcnt = c.fcnt

ScheduleOpportunity(os, d, win) == Append(os, [dev |-> d, win |-> win, left |-> 1])

\* ConfirmedMessagesComponent::OnReceivedPacket
ReplyAfter(reply, c) == IF c.confirmed THEN [needs |-> TRUE, ack |-> TRUE] ELSE reply

\* NetworkServer::Receive: scheduler, status and controller, in this order.
Receive(c) ==
  /\ opps' = IF AlreadyReceived(status[c.dev].list, c) THEN opps
             ELSE ScheduleOpportunity(opps, c.dev, 1)
  /\ status' = [status EXCEPT ![c.dev] =
       [list |-> InsertReceivedPacket(@.list, c), reply |-> ReplyAfter(@.reply, c)]]

\* Faulty variant: the reply is kept for the next opportunity.
KeepReply(d) == UNCHANGED status
InitializeReply(d) == status' = [status EXCEPT ![d].reply = NoReply]

\* Faulty variant: the second opportunity is for the first window again.
NoGatewayStaysFirst(i) ==
  LET o == opps[i]
  IN  /\ BestGateways(o.dev, o.win) = {}
      /\ UNCHANGED <<down, status>>
      /\ opps' = ScheduleOpportunity(RemoveAt(opps, i), o.dev, 1)

NoGateway(i) ==
  LET o == opps[i]
  IN  /\ BestGateways(o.dev, o.win) = {}
      /\ UNCHANGED down
      /\ \/ /\ o.win = 1
            /\ opps' = ScheduleOpportunity(RemoveAt(opps, i), o.dev, 2)
            /\ UNCHANGED status
         \/ /\ o.win = 2
            /\ opps' = RemoveAt(opps, i)
            /\ InitializeReply(o.dev)

GatewayFound(i) ==
  LET o == opps[i]
  IN  /\ opps' = RemoveAt(opps, i)
      /\ \E g \in BestGateways(o.dev, o.win) :
           \/ /\ status[o.dev].reply.needs
              /\ down' = down \cup {[gw |-> g, dev |-> o.dev, win |-> o.win,
                                     ack |-> status[o.dev].reply.ack]}
              /\ InitializeReply(o.dev)
           \/ /\ ~status[o.dev].reply.needs
              /\ UNCHANGED <<down, status>>

-----------------------------------------------------------------------------
(* Actions *)

\* The receptions of one attempt: by gateways that are not transmitting, if any.
Attempt(d, packet, confirmed, fcnt) ==
  \E hearing \in SUBSET {g \in Gateways : ~gws[g].transmitting} :
    \E power \in [hearing -> Powers] :
      up' = up \cup {[dev |-> d, packet |-> packet, confirmed |-> confirmed, fcnt |-> fcnt,
                      gw |-> g, power |-> power[g]] : g \in hearing}

\* m_currentFCnt is counted at every attempt.
NextFCnt(n) == (n + 1) % FCntMod

NewPacket(d, confirmed) ==
  /\ dev[d].age = Closed /\ dev[d].attempts < MaxAttempts[d]
  /\ dev' = [dev EXCEPT ![d] =
       [packet |-> @.packet + 1, fcnt |-> NextFCnt(@.fcnt), tries |-> 1, age |-> 0,
        attempts |-> @.attempts + 1, outcome |-> IF confirmed THEN "open" ELSE "none"]]
  /\ Attempt(d, dev'[d].packet, confirmed, dev'[d].fcnt)
  /\ UNCHANGED <<status, opps, down, gws>>

Retransmission(d) ==
  /\ dev[d].age = Closed /\ dev[d].outcome = "open" /\ dev[d].tries < MaxTries
  /\ dev[d].attempts < MaxAttempts[d]
  /\ dev' = [dev EXCEPT ![d].fcnt = NextFCnt(@), ![d].tries = @ + 1, ![d].age = 0,
                         ![d].attempts = @ + 1]
  /\ Attempt(d, dev[d].packet, TRUE, dev'[d].fcnt)
  /\ UNCHANGED <<status, opps, down, gws>>

GiveUp(d) ==
  /\ dev[d].age = Closed /\ dev[d].outcome = "open" /\ dev[d].tries = MaxTries
  /\ dev' = [dev EXCEPT ![d].outcome = "failed"]
  /\ UNCHANGED <<up, status, opps, down, gws>>

ServerReceives(c) ==
  /\ c \in up
  /\ up' = up \ {c}
  /\ Receive(c)
  /\ UNCHANGED <<dev, down, gws>>

OnReceiveWindowOpportunity(i) ==
  /\ opps[i].left = 0
  /\ Spaced => down = {}
  /\ NoGateway(i) \/ GatewayFound(i)
  /\ UNCHANGED <<dev, up, gws>>

\* Faulty variant: devices do not look at the address of a downlink.
EveryDevice(x) == Devices
Addressee(x) == {x.dev}

\* A reply reaches its gateway, which sends it or drops it, and the device it is
\* addressed to if that device listens and nothing destroys it.  The device takes
\* any ACK as that of its current packet.
GatewaySends(x) ==
  /\ x \in down
  /\ down' = down \ {x}
  /\ \E t \in TxTimes : gws' = [gws EXCEPT ![x.gw] = GW!MacSend(@, BandOf[x.win], t)]
  /\ \/ UNCHANGED dev
     \/ /\ gws[x.gw].wait[BandOf[x.win]] = 0
        /\ \E d \in Addressee(x) :
             /\ dev[d].age = x.win
             /\ x.ack /\ dev[d].outcome = "open"
             /\ dev' = [dev EXCEPT ![d].outcome = "acked", ![d].age = Closed]
  /\ UNCHANGED <<up, status, opps>>

ReplySent(g) ==
  /\ 0 \in gws[g].txs
  /\ gws' = [gws EXCEPT ![g] = GW!TxFinished(@)]
  /\ UNCHANGED <<dev, up, status, opps, down>>

Tick ==
  /\ up = {} /\ down = {}
  /\ \A i \in DOMAIN opps : opps[i].left > 0
  /\ \A g \in Gateways : GW!Settled(gws[g])
  /\ dev' = [d \in Devices |-> [dev[d] EXCEPT !.age = IF @ < Closed THEN @ + 1 ELSE @]]
  /\ opps' = [i \in DOMAIN opps |-> [opps[i] EXCEPT !.left = @ - 1]]
  /\ gws' = [g \in Gateways |-> GW!Elapse(gws[g])]
  /\ UNCHANGED <<up, status, down>>

Init ==
  /\ dev = [d \in Devices |->
       [packet |-> 0, fcnt |-> 0, tries |-> 0, age |-> Closed, attempts |-> 0,
        outcome |-> "none"]]
  /\ up = {} /\ down = {} /\ opps = <<>>
  /\ status = [d \in Devices |-> [list |-> <<>>, reply |-> NoReply]]
  /\ gws = [g \in Gateways |-> GW!IdleGateway]

RunEvent ==
  \/ \E c \in up : ServerReceives(c)
  \/ \E i \in DOMAIN opps : OnReceiveWindowOpportunity(i)
  \/ \E x \in down : GatewaySends(x)
  \/ \E g \in Gateways : ReplySent(g)

Next ==
  \/ \E d \in Devices, confirmed \in BOOLEAN : NewPacket(d, confirmed)
  \/ \E d \in Devices : Retransmission(d) \/ GiveUp(d)
  \/ RunEvent
  \/ Tick

Spec == Init /\ [][Next]_vars
FairSpec == Spec /\ WF_vars(RunEvent) /\ WF_vars(Tick)

-----------------------------------------------------------------------------
(* Properties *)

\* However many gateways forward an attempt, and in whatever order, the server
\* plans one opportunity to answer it.
OneOpportunity ==
  [][\A c \in up : c \notin up'
       => Cardinality({i \in DOMAIN opps' : opps'[i].dev = c.dev}) = 1]_vars

\* A reply reaches a gateway while the device it is for listens in the window
\* whose frequency and data rate the reply has.
ReplyInWindow == \A x \in down : dev[x.dev].age = x.win

\* Downlinks are only forwarded to gateways that are able to transmit them: what
\* the server saw of a gateway still holds when the downlink gets there.
ForwardedCanBeSent ==
  \A x \in down : ~gws[x.gw].transmitting /\ gws[x.gw].wait[BandOf[x.win]] = 0

\* Every reply that is owed is sent or given up.
RepliesResolved == \A d \in Devices : status[d].reply.needs ~> ~status[d].reply.needs

\* The network delivers confirmed packets as module ConfirmedDelivery promises.
Delivery == INSTANCE ConfirmedDelivery
  WITH current  <- [d \in Devices |-> dev[d].packet],
       received <- [d \in Devices |-> {status[d].list[i].packet : i \in DOMAIN status[d].list}],
       outcome  <- [d \in Devices |-> dev[d].outcome]

DeliveryRefined == Delivery!Spec
=============================================================================
