-------------------------------- MODULE Energy ---------------------------------
(* The battery of an end device: LoraRadioEnergyModel hears of every change of *)
(* the radio (EndDeviceLoraPhy), books the charge of the state it leaves, and  *)
(* tells the source.  A source that finds itself depleted calls back, within   *)
(* that very change of state.  Charge is counted in microampere ticks: the     *)
(* supply voltage is a common factor of all the amounts in the code.           *)
EXTENDS Integers

CONSTANTS
  Callbacks,       \* what SetEnergyDepletionCallback may have been given
  TxModels,        \* the models of the transmission current
  TxPowers,        \* dBm
  Capacity, LowBattery,  \* of the source
  UpdateInterval,  \* ticks between the updates of the source
  MaxTime          \* bound

VARIABLES
  now,
  onDepletion, txModel,   \* the configuration
  mac,    \* what the MAC is about to do with the radio
  dev,    \* radio, energy model and source
  used    \* what the radio really used, which nobody computes

vars == <<now, onDepletion, txModel, mac, dev, used>>

ASSUME EnergyAssumption ==
  /\ Callbacks \subseteq {"none", "sleep"} /\ TxModels \subseteq {"none", "constant", "linear"}
  /\ TxPowers \subseteq {2, 14}
  /\ Capacity \in Nat /\ LowBattery \in Nat /\ UpdateInterval \in Nat \ {0} /\ MaxTime \in Nat

States == {"STANDBY", "TX", "RX", "SLEEP"}

-------------------------------------------------------------------------------

\* DbmToW(txPowerDbm) / (3.3 V * 0.10) + 1.4 mA.
LinearCurrent(dBm) == 1400 + (IF dBm = 14 THEN 76118 ELSE 4803)
ConstantCurrent == 28000

\* The current model's, if there is one.
SetTxCurrentFromModel(d, dBm) ==
  CASE txModel = "none" -> d
    [] txModel = "constant" -> [d EXCEPT !.txCurrent = ConstantCurrent]
    [] txModel = "linear" -> [d EXCEPT !.txCurrent = LinearCurrent(dBm)]

DoGetCurrentA(d, state) ==
  CASE state = "STANDBY" -> 1400 [] state = "TX" -> d.txCurrent [] state = "RX" -> 11200 [] state = "SLEEP" -> 2

\* The first half of ChangeState.
Book(d) ==
  [d EXCEPT !.total = @ + (now - d.lastUpdate) * DoGetCurrentA(d, d.state), !.lastUpdate = now, !.pending = @ + 1]

\* Mutant: a change that was superseded does not count itself off.
SetStateKeepsCount(d, new) ==
  [d EXCEPT !.state = IF d.superseded THEN @ ELSE new,
            !.superseded = d.pending > 1, !.pending = IF d.superseded THEN @ ELSE @ - 1]

\* Mutant: the outer change overrides what the callback did.
SetStateAlways(d, new) ==
  [d EXCEPT !.state = new, !.superseded = d.pending > 1, !.pending = @ - 1]

\* The second half, which a change that the callback made leaves aside.
SetState(d, new) ==
  [d EXCEPT !.state = IF d.superseded THEN @ ELSE new, !.superseded = d.pending > 1, !.pending = @ - 1]

\* BasicEnergySource::UpdateEnergySource up to its report.
Drain(d) ==
  [d EXCEPT !.remaining = @ - (now - d.drainedAt) * DoGetCurrentA(d, d.state),
            !.drainedAt = now, !.due = now + UpdateInterval]

\* EndDeviceLoraPhy::SwitchToSleep out of the callback: its source, drained in
\* the same instant, has nothing more to report.
SleepFromCallback(d) ==
  IF d.phy # "STANDBY" THEN [d EXCEPT !.aborted = TRUE]
  ELSE SetState(Drain(Book([d EXCEPT !.phy = "SLEEP"])), "SLEEP")

HandleEnergyDepletion(d) == IF onDepletion = "sleep" THEN SleepFromCallback(d) ELSE d

\* The report comes once.
UpdateEnergySource(d) ==
  LET drained == Drain(d)
  IN  IF ~d.depleted /\ drained.remaining <= LowBattery
      THEN HandleEnergyDepletion([drained EXCEPT !.depleted = TRUE])
      ELSE drained

\* Mutant: only the model's own total is kept.
ChangeStateUnreported(d, new) == SetState(Book(d), new)

ChangeState(d, new) == SetState(UpdateEnergySource(Book(d)), new)

\* The radio and its listener.
SwitchToStandby(d) == ChangeState([d EXCEPT !.phy = "STANDBY"], "STANDBY")

SwitchToRx(d) == ChangeState([d EXCEPT !.phy = "RX"], "RX")

SwitchToTx(d, dBm) == ChangeState(SetTxCurrentFromModel([d EXCEPT !.phy = "TX"], dBm), "TX")

SwitchToSleep(d) ==
  IF d.phy # "STANDBY" THEN [d EXCEPT !.aborted = TRUE] ELSE ChangeState([d EXCEPT !.phy = "SLEEP"], "SLEEP")

-------------------------------------------------------------------------------
(* What the class A MAC does with the radio.                                   *)

Step(from, to, d) ==
  /\ ~dev.aborted /\ mac = from /\ mac' = to /\ dev' = d
  /\ UNCHANGED <<now, onDepletion, txModel, used>>

Send(dBm) == dev.phy \in {"STANDBY", "SLEEP"} /\ Step("idle", "sending", SwitchToTx(dev, dBm))

\* The radio's own event at the end, and 10 ns later the MAC's.
EndOfTransmission == Step("sending", "sent", SwitchToStandby(dev))

TxFinished == Step("sent", "idle", SwitchToSleep(dev))

OpenReceiveWindow == Step("idle", "window", SwitchToStandby(dev))

\* A radio that was put to sleep hears nothing.
StartReceive == dev.phy = "STANDBY" /\ Step("window", "receiving", SwitchToRx(dev))

EndReceive == Step("receiving", "received", SwitchToStandby(dev))

\* Receive and FailedReception.
Received == Step("received", "idle", SwitchToSleep(dev))

CloseReceiveWindow == Step("window", "idle", IF dev.phy = "STANDBY" THEN SwitchToSleep(dev) ELSE dev)

\* The source's own event.
PeriodicUpdate ==
  /\ ~dev.aborted /\ dev.due = now
  /\ dev' = UpdateEnergySource(dev)
  /\ UNCHANGED <<now, onDepletion, txModel, mac, used>>

\* Time does not pass between a frame and what the MAC does at its end.
Tick ==
  /\ now < MaxTime /\ ~dev.aborted /\ dev.due > now /\ mac \notin {"sent", "received"}
  /\ now' = now + 1
  /\ used' = used + DoGetCurrentA(dev, dev.phy)
  /\ UNCHANGED <<onDepletion, txModel, mac, dev>>

NewDevice ==
  [phy |-> "SLEEP", state |-> "SLEEP", txCurrent |-> ConstantCurrent, total |-> 0, lastUpdate |-> 0,
   pending |-> 0, superseded |-> FALSE, remaining |-> Capacity, drainedAt |-> 0, due |-> UpdateInterval,
   depleted |-> FALSE, aborted |-> FALSE]

Init ==
  /\ now = 0 /\ used = 0 /\ mac = "idle"
  /\ onDepletion \in Callbacks /\ txModel \in TxModels
  /\ dev = NewDevice

Next ==
  \/ \E dBm \in TxPowers : Send(dBm)
  \/ EndOfTransmission
  \/ TxFinished
  \/ OpenReceiveWindow
  \/ StartReceive
  \/ EndReceive
  \/ Received
  \/ CloseReceiveWindow
  \/ PeriodicUpdate
  \/ Tick

Spec == Init /\ [][Next]_vars

-------------------------------------------------------------------------------
(* Properties.                                                                 *)

\* Types; and between two calls no change of state is pending or superseded: the
\* counter is exact although a change may be made within another.
TypeOK ==
  /\ now \in 0 .. MaxTime /\ used \in Nat
  /\ onDepletion \in Callbacks /\ txModel \in TxModels
  /\ mac \in {"idle", "sending", "sent", "window", "receiving", "received"}
  /\ dev \in [phy: States, state: States, txCurrent: {ConstantCurrent} \union {LinearCurrent(p) : p \in TxPowers},
              total: Nat, lastUpdate: 0 .. MaxTime, pending: {0}, superseded: {FALSE},
              remaining: Int, drainedAt: 0 .. MaxTime, due: Nat, depleted: BOOLEAN, aborted: BOOLEAN]

\* The energy model believes the radio in the state it is in, also after a change
\* of state that the depletion callback made within another one.
StatesAgree == ~dev.aborted => dev.state = dev.phy

\* What the model has consumed, with what the current state used since the last
\* change, is what the radio really used, and the source lost as much: nothing is
\* charged twice, at the current of another state or transmission, or not at all.
BooksAgree ==
  ~dev.aborted =>
    /\ dev.total + (now - dev.lastUpdate) * DoGetCurrentA(dev, dev.state) = used
    /\ Capacity - dev.remaining + (now - dev.drainedAt) * DoGetCurrentA(dev, dev.state) = used
===============================================================================
