# Formal models of rt-lorawan-simulation

This directory holds TLA+ models of the code in this repository, the TLC
configurations that check them on small instances, and theorems about them with
proofs for TLAPS. The repository is an ns-3 module that simulates LoRaWAN
(`lorawan/`) together with a tool that sizes, runs and evaluates a *real-time
schedule* for LoRaWAN devices (`rt-lorawan-simulator/`, `examples/rt-lorawan-*.cc`).

The program is a discrete event simulator: nothing runs in parallel, but its
handlers run in an order that the times of events decide, they hold on to
events, packets and times across other handlers, and they cancel what others
planned. That is where its difficult behaviour is, and what the models are about.

Contents: [1 the system](#1-the-system), [2 modules](#2-modules-and-their-code),
[3 runs](#3-what-the-runs-check), [4 proofs](#4-what-is-proved),
[5 disagreements](#5-where-code-and-documentation-disagree),
[6 not modelled](#6-what-is-not-modelled), [7 plan](#7-plan),
[8 how to run](#8-how-to-run).

## 1 The system

```
 PeriodicSender                                   NetworkServer
      | Send                                     Scheduler - Status - Controller
      v                                               ^            |
 end device MAC (class A)                             |            v   point-to-point
      | Send         ^ Receive / FailedReception   Forwarder    Forwarder      links
      v              |                                ^            |
 end device PHY  ----+                            gateway MAC <----+
      |              ^                                ^   |
      v   LoraChannel (everybody hears everybody)     |   v
      +---------------------------------------->  gateway PHY
```

| Component (source) | State | Operations | What makes it correct |
|---|---|---|---|
| End device MAC: `class-a-end-device-lorawan-mac`, `end-device-lorawan-mac` | the packet under retransmission and the attempts left (`m_retxParams`), the events of its windows and of its next transmission, MAC commands to answer | `Send`, `DoSend`, `postponeTransmission`, `TxFinished`, open and close two windows, `Receive`, `FailedReception` | one attempt at a time and none inside the windows of the last; every packet reported once, never sent after that |
| End device PHY: `simple-end-device-lora-phy`, `end-device-lora-phy` | SLEEP, STANDBY, TX, RX | `Send`, `StartReceive`, `EndReceive`, the four switches | the state follows the pending events; no assertion fires; the radio sleeps in the end |
| Gateway: `gateway-lorawan-mac`, `simple-gateway-lora-phy`, `gateway-lora-phy` | reception paths, the transmitting flag, pending ends of receptions, the traced count | `Send`, `StartReceive`, `EndReceive`, `TxFinished` | a path is held exactly while its reception goes on; a transmission deafens; every reception is accounted for once |
| Network server: `network-server`, `network-scheduler`, `network-status`, `end-device-status`, `gateway-status` | list of received packets and reply of each device, pending opportunities | `Receive`, `OnReceiveWindowOpportunity`, `GetBestGatewayForDevice`, `SendThroughGateway` | one opportunity per attempt, the reply in the right window through a gateway that can send it, no reply left over |
| Controller components: `network-controller-components`, `adr-component` | the reply they fill in, a history of receptions | three hooks | an ACK for the latest confirmed packet only; a device is never steered out of everybody's reach and comes to rest |
| Headers and commands: `lorawan-mac-header`, `lora-frame-header`, `mac-command`, `lora-device-address` | the fields and the list of commands | `Serialize`, `Deserialize`, `Add...` | what is written is read back |
| Forwarder and links: `forwarder` | none | both directions | nothing; its delay lets others act in between |
| Duty cycle: `logical-lora-channel-helper`, `sub-band` | the channels and the next transmission time of each sub-band | `AddEvent`, `GetWaitingTime` | time off after each transmission, never negative |
| Channel: `lora-channel` | the list of radios | `Send`, `Receive` | |
| Interference: `lora-interference-helper` | the list of signals heard | `Add`, `CleanOldEvents`, `IsDestroyedByInterference` | no signal that overlaps a packet is forgotten before the packet is judged |
| Senders: `periodic-sender`, `one-shot-sender` | the next event | `SendPacket` | |
| Packet tracker: `lora-packet-tracker` | outcome of each packet at each gateway | callbacks of the traces, counts over an interval | counts add up, however often a frame was sent |
| Energy model: `lora-radio-energy-model`, `lora-tx-current-model` | state of the radio, consumption, pending changes | `ChangeState`, `HandleEnergyDepletion` | it agrees with the radio and charges each moment once, also when a change of state happens within another |
| Scenario: `Scenario.js` | gateways and devices | `create` | the grid leaves no device out of reach |
| Schedule: `index.js`, `rt-lorawan-2.cc` | slot, window, deadline and gateways of each device | slot and window length, delay and period of each sender, traces | no two devices of one gateway on air together, every slot used, on time |
| Probing: `rt-lorawan-1.cc` | the count of devices, the last packet | a chain of one-shot senders | every device probed, every row printed for the device that sent |

The behaviour that is hard to get right, component by component:

- **Retransmission against the windows.** The MAC layer postpones transmissions
  with an event (`m_nextTx`) that may belong to the old packet or to a new one,
  computes the time from an event that may be long over, counts attempts in an
  eight-bit counter and ends the procedure in five different handlers.
- **Radio against events.** The PHY asserts that it is in standby when it is put
  to sleep; which handler does so depends on what was received, and on whether a
  reception outlasts one window, or both.
- **Downlinks against receptions.** A gateway that transmits interrupts the
  receptions in progress and has to undo what each of them planned.
- **Copies, windows and links.** One frame reaches the server once for every
  gateway that heard it, in any order; the reply has a window of one second and
  travels over a link during which the gateway's state may change.
- **Stale measurements.** `AdrComponent` steers a device by an average over
  receptions some of which were made with other parameters, and the reply that
  carries the command may be lost, or heard by a device that is retransmitting.
- **Three bits for fifteen bytes.** The length of the options, commands whose
  identifiers mean something else in the other direction, fields narrower than the
  numbers they carry: one byte too many or too few shifts all that follows.
- **Forgetting.** The list of interferers is cleaned by age, the tracker keeps the first
  entry of each packet, and neither knows what is still needed.
- **Calls back.** An energy source that runs out calls into the change of state that told it.
- **A chain of events.** Each device of a probing run is started by the reception of
  the one before, which the handler knows only by its packet being another one.
- **Arithmetic of the schedule.** Slots, windows, delays, periods and tasks are
  computed in two programs and a third place (the traces); the period has to be
  long enough for the duty cycle as well as for the number of devices.

`PROJECT.json` lists these hazards at their lines, with the properties that
would catch each of them.

## 2 Modules and their code

Time is discrete. What matters is the order in which the events of different
actors fall, so each run picks a tick that keeps the order relations of the real
durations (section 3).

### Ns3Events

The event list of the simulator (`Simulator::Schedule`, `Cancel`,
`EventId::IsExpired`), which is outside the repository, as its callers use it. An
event has the ticks left, the handler, the packet bound to the call, and a flag
that says whether the `EventId` variable of the caller still names it:
assigning a new event to `m_nextTx` does not remove the old one from the list.
Events of one instant run in the order in which they were scheduled.

### EndDevice

One device: MAC, PHY and its sub-bands in one record `ed`. The handlers of the
code call each other in the middle of their own work (a reception may send a
packet, which may end the procedure of another packet, which cancels an event),
so each handler is an *operator from a device state to the set of device states
it may produce*, and an action pops an event and applies the whole handler.

| Model | Code |
|---|---|
| `ed.state`, `SwitchTo...`, `PhySend` | `EndDeviceLoraPhy::m_state` and the switches with their `NS_ASSERT`; `SimpleEndDeviceLoraPhy::Send` |
| `ed.packet`, `waitingAck`, `retxLeft` | `m_retxParams` (`retxLeft` modulo 256) |
| `ed.events` | pending events; `Pending(..., "DoSend")` is `!m_nextTx.IsExpired()` |
| `ed.secondTs` | the timestamp of `m_secondReceiveWindow` minus now; differences further back than `TsFloor` are not told apart, which changes nothing because no draw of ACK_TIMEOUT is longer |
| `ed.wait` | time until each sub-band reopens (`LogicalLoraChannelHelper`, `SubBand`) |
| `ed.report` | the `m_requiredTxCallback` call of this step |
| `ed.aborted` | the assertion, `NS_ABORT` or null dereference that ended the run |
| `ed.onAir` | history variable: how often the current packet left the antenna |
| `AppSend`, `StartReceive`, `RunEvent`, `Tick` | the application, the channel, the main loop, the clock |

The outcome of a reception (ACK, data without ACK, somebody else's frame, an
uplink, destroyed) is chosen when it ends. `ReceiveDelay1` and the rest are
constants with the assumptions the code justifies; the draw of ACK_TIMEOUT is
a set. `TxGap` allows the application and the channel to act in the ten
nanoseconds between `SwitchToStandby` and `TxFinished`
(`simple-end-device-lora-phy.cc:90`); the runs exclude it, because every time in
the simulations is a multiple of far more, and section 5 says what happens otherwise.

### Gateway

One gateway, `gw`, and the traces fired by the step, `traces`. `Lock`,
`Interrupt`, `EndReceive`, `MacSend` are `StartReceive`, the loop of `Send` over
the paths, `EndReceive` and `GatewayLorawanMac::Send`. A signal stands for the
`LoraInterferenceHelper::Event` by which a path is found again. Which free path
takes a signal makes no difference, so any may. `Booked` is the assumption that
a downlink is only handed over while the gateway is idle: that is what the
network server means to do, and section 5 says when it fails to.

### NetworkServer and ConfirmedDelivery

`NetworkServer` is the server between devices reduced to what it can see
(attempts with frame counters, and the age of the windows) and gateways that are
those of module `Gateway` without reception paths (`GW == INSTANCE Gateway`).
`up` and `down` are the copies and replies on the links. Frames and replies in
flight arrive within the tick, in any order.

`ConfirmedDelivery` is the abstract specification: a packet is reported as
acknowledged only if the server has received *that* packet, and what is over
stays over. `DeliveryRefined` is the refinement, with the list of received
packets as `received`. The frame the device takes for its ACK carries no packet
number, so nothing in a handler makes this true: only timing and book-keeping do.

### RTSchedule and SlottedAccess

`RTSchedule` composes one `EndDevice` per device (`Device(d) == INSTANCE
EndDevice WITH ed <- eds[d]`), the `PeriodicSender` of each, the arithmetic of
`index.js` and `rt-lorawan-2.cc` and the channel between devices: whoever listens
may lock on a packet that begins. Every scenario is an initial state: which
gateways hear each device, and *every* assignment of slots that gives the devices
of a gateway slots of their own. The assignment itself is made outside the
repository; the scenario files all satisfy this condition.

`SlottedAccess` is the abstract specification: devices begin with their own
slots and are done before the next slot. `SlotsRefined` is the refinement, a
device being `busy` while its radio is awake or an event of its windows pending.

### MacCommand and FrameHeader

`MacCommand` has one record type for each command class and, for each, the bytes
its `Serialize` writes and the fields its `Deserialize` reads, bit by bit as the
code shifts and masks them; that is where a frequency loses its last two digits
or `NewChannelReq` reads two bytes in the wrong order. `FrameHeader` is a writer
and a reader: `AddCommand`, `Serialize`, `Deserialize` (the fields before the options),
`ReadCommand` (one turn of the loop over the options) and `ReadFPort`. Some
callers do not tell their header the direction before they read; then
`m_isUplink` is an uninitialized member and the reader takes either branch
(`DeserializeUninformed`). An identifier nobody knows makes the loop endless, a command
beyond the end of the packet an assertion of ns-3's buffer.

### LinkControl

One device and the server's view of it, as far as MAC commands go: what the device sends, what
the gateways in range hear, the history of receptions, the commands that
`LinkCheckComponent`, `AdrComponent` and a component of the user's own write into a
reply, and `ParseCommands` with every handler it calls. One step is one attempt,
one reply, or one command parsed; the timing of attempts and windows is that of
`EndDevice` and `NetworkServer`. A command that does not fit into the three bits of
the options' length does not arrive (`OnTheAir`). Exceptions of `at()`, divisions
by zero, assertions and aborts end the device (`Throw`, `alive`). Powers and losses
are hundredths of a dB; `calm` is the moment from which nothing is lost.

### AirTime and Reception

`AirTime` is `LoraPhy::GetOnAirTime` over integers of microseconds. `Reception`
composes the gateways' radios (`GW == INSTANCE Gateway`) with `LoraChannel`
(`coming`: the pending `Receive` events, each with its own delay),
`LoraInterferenceHelper` (`events`, one set per gateway), `LoraPacketTracker`
(`tracker`) and the lines that `LoraHelper` prints from it (`report`). The tracker hears what its
callbacks are connected to: `ConnectedSources` against the source that `Receive` fires. `heard` is a history variable: every signal there was, whether the
helper was told of it, and its fate. A device may send a frame again, with the same uid.
Energies are a power in whole units times ticks, isolations ratios in ten-thousandths;
both matrices of the helper are in the model.

### Energy

The radio of a device with `LoraRadioEnergyModel` as its listener and ns-3's source.
A change of state is an operator from a record to a record, built as the
code calls: `ChangeState` books (`Book`), tells the source (`UpdateEnergySource`), which
may call back and run a whole change of state inside (`SleepFromCallback`), and sets the new
state unless it was superseded (`SetState`, with the counter
`pending` and the flag `superseded`). The actions are what the class A MAC does with the
radio, the source's own periodic update and the clock. `used` is what the radio
really used, which no part of the program knows.

### Deployment

How a scenario comes about, in four phases: the grid and the devices of `Scenario.js`
(`CreateGateways`, `CreateDevices`), the probe of `rt-lorawan-1` (`StartProbe`,
`SendPacket` of `OneShotSender`, `Receive`), and `addSFandGWs` of `index.js`, which
turns the rows the probe printed into a window and a deadline for each device.
Places are metres; the sensitivities and the loss over a distance become the metres each
spreading factor reaches (`GatewayReach`, `DeviceReach`). `RTSchedule` goes on where this ends.

### MC modules

Each `MC...` module holds the sets and functions that the `.cfg` files give to the
constants. Definitions called *mutant* or *faulty variant* are what a plausible mistake would
make of the definition that follows them; `PROJECT.json` pairs each property with
the variant that breaks it.

## 3 What the runs check

### End device: EDConfirmed

One tick is half a second: windows open 2 and 4 ticks after the transmission and
last 1, ACK_TIMEOUT is one of 2, 4, 6 ticks, an uplink lasts 1. Two packet objects are
enough, because the procedure of one and the next waiting are all that the state
can hold; an application that sends more reuses one that nothing refers to.
Three attempts cover a first, a middle and a last one.

The run sends confirmed packets with a duty cycle that, as the 1% of the EU band,
keeps the sub-band closed for longer than the windows. Receptions last 2 ticks (over
before the second window closes) or 6 (longer than both). It checks that no
assertion fires (`NoAbort`), a transmission never overlaps the windows of the last one
(`WindowsAreQuiet`), what the budget is charged for was on the air (`AttemptsOnAir`),
nothing is transmitted after it was reported (`NoStaleRetransmission`), nothing leaves
the procedure unreported (`EndIsReported`), and, with fairness, everything is reported
(`EveryPacketReported`) and the radio goes back to sleep (`RadioSleeps`).
A downlink without an ACK is left out here, because it breaks liveness (section 5).
`EDBudgetWraps` is a disagreement.

### Gateway: GWHalfDuplex

Two paths and three signals make a full gateway with one signal too many; signals
and downlinks of one and two ticks end before, with and after each other; two
sub-bands with different duty cycles let one downlink be dropped and the next be
sent. `MaxDrift` stops downlinks once the traced count is off by more than two, as
it grows without bound. Checked: `HalfDuplex`, `EndIsTraced`, `PathsAreFreed`.

### Network server: NSReplies

One tick is a second, so the first window is one tick after the attempt and the
second two; a reply lasts one tick. Two gateways hear each attempt or not, at one
of two powers; one device makes two attempts (two packets, or one and its
retransmission) and the other one, which is the least in which a gateway is busy
or closed by its duty cycle when it is wanted, and a reply could be left over.
`Spaced` assumes that no two windows open within the delay of a link (2 ms).
Checked: `OneOpportunity`, `ReplyInWindow`, `ForwardedCanBeSent`, `RepliesResolved`
and the refinement `DeliveryRefined`.

### Schedule: RTSlots

Four devices, two gateways, all coverages and assignments up to renaming, and a
horizon of more than two windows. With an air time of 2, a guard of 1 and a
second of 1 tick, a slot is 13 ticks and the duty cycle asks for 3 slots; four devices
under one gateway ask for 4, so both sides of the maximum occur. Checked:
`NeverOverhears`, `TracedOnTime`, `SlotsAllUsed`, `SendersKeepSlots`, and the
refinement `SlotsRefined`. The air time equals that of the table: the
real one is shorter (2.63 s against 2.79 s for SF12), which only adds slack.
The run stops at the horizon, as the simulator does.

### Headers: Frames

Two headers, an uplink and a downlink, whose fields use their highest bits, up to
three commands out of one of every class and some at and beyond the edge of a field,
and ten bytes of payload that would be read as commands if the reader went too
far. Three commands give options of more than seven bytes as well as fewer. Checked: every reader,
also one that was not told the direction, has the fields before the options as
written (`LeadingFieldsSurvive`); with at most seven bytes of readable options, the
whole frame is read back (`FrameReadsBack`). `FramesOptions` is a disagreement.

### Commands: Commands

A near gateway, which hears every data rate, and a far one, which hears only the slow ones;
a history of four packets; every data rate at the start; attempts that are lost at any
gateway; replies in either window, lost or not; and one request from outside among
four that change or try to change everything a command can change. A device
adapts its data rate as it retransmits. Checked: some gateway always hears the device
(`StaysHeard`), a channel it may use admits its data rate (`AlwaysAChannel`), no answer
is queued while it may retransmit (`NoAnswerTwice`), and once nothing is lost any more
`AdrComponent` comes to rest (`AdrSettles`). `MaxNumbTx` is 2: with an odd number the
first attempt of each packet already lowers the data rate, which `AdrComponent` raises with
the next reply, and they never come to rest (section 5).

### Interference and tracker: Reception

A gateway with two paths and three frames on one channel: SF12 with 68 and with 19 bytes, and
SF7. One tick is half a second, so that the SF12 frames last several and the SF7 frame less
than one; the weak long one arrives a tick late. `ListLimit` is 1 instead of 100, so that each new signal makes the
helper forget. Each frame is sent up to twice. Both matrices are initial states. Checked: a frame
that lasts no longer than the threshold of two seconds is judged with every interferer it
had (`NoInterfererForgotten`); of two frames of one spreading factor that overlap for more
than about a quarter one is received at most (`OneSurvives`); the counts the tracker
returns for any interval add up, and the lines printed every four ticks miss no frame
(`CountsAddUp`); and an outcome is booked only on a
frame whose transmission was traced (in `TypeOK`). `TrackerBlind` is a disagreement.

### Battery: Energy

A battery that lasts for a few ticks, updates of the source every 3 ticks, both
powers, all current models, with a callback and without. Depletion is noticed in every
state of the radio, at the source's own update and within a change of state, the
only change in which the callback survives being the one to standby. Checked: `StatesAgree`, `BooksAgree`. The run stops at `MaxTime`.

### Scenario and probe: Deployment

Grids of one, two and eight gateways (a point, a row, and all shapes the code chooses
between), one to three devices at the corners, edges and in the middle of
their area, all with SF12 or each with its own spreading factor, every order of
receptions. `DutyDiv` is 8 so that the duty cycle and the number of devices both decide some
window. Checked: the rows name sender and receiver rightly and once (`RowsTellTheTruth`), a
window has a slot for each device of a gateway and keeps to the duty cycle
(`WindowsSuffice`), and every device ends with the schedule of the gateways that hear it
(`EveryDeviceScheduled`).

### Fairness

Liveness assumes weak fairness of what the main loop of the simulator does (`RunEvent`,
`Tick`, or `Next` where every action is an event or the loop of a program): it takes every
event that is due, and when none is left at an instant it moves the clock to the next. Nothing is
assumed of the application, the channel or the outcome of a reception, with one
exception: `AdrSettles` is about a device that keeps sending (`Transmit`), and only about
behaviours in which, from some moment, nothing is lost (`<>[]calm`).

## 4 What is proved

Each theorem holds for every value of the constants that satisfies the named
assumptions of the module (`TimesAssumption`, `RadioAssumption`,
`PacketsAssumption`, `GatewayAssumption`, `ScheduleAssumption`, `EnergyAssumption`,
`DeploymentAssumption`, `AttributesAssumption`, `HeadersAssumption` and their neighbours). They say no more
than that sets are finite, durations are natural numbers, attributes have
their type and what the radio can hear is a subset of what there is; TLC evaluates them on every run.

| Module | Theorems | Argument |
|---|---|---|
| `EndDevice_proofs` | `TypeCorrect`, `OneTransmission`, `NothingStale`, `EndsReported`, `NeverAborts`, `WindowsKeptQuiet`, `AttemptsAreSent`, `BudgetAlwaysKept` | see below; begins with what `Schedule`, `Cancel` and the passing of time do to the list of events; the last four assume `OneSubBand`, `DutyOutlasts` and `~TxGap` |
| `Gateway_proofs` | `TypeCorrect`, `PathsHeldByEvents`, `NoPathTwice`, `CountBoundsPaths`, `DeafWhileSending`, `EndsAreTraced` | see below |
| `NetworkServer_proofs` | `RepliesInWindow`, `RepliesCanBeSent`, `OneOpportunityPlanned`, `DeliveryIsRefined` | see below; assume `NoWrap`, and `RepliesCanBeSent` also `Spaced` |
| `RTSchedule_proofs` | `SlotsKept`, `NeverTogether`, `EverySlotUsed`, `NothingOverheard`, `TracesOnTime`, `OneBusyPerGateway`, `PeriodCoversDuty`, `SendersInSlots` | see below; the first five assume `PacketFits` |
| `Reception_proofs` | `TypeCorrect`, `NothingForgotten`, `NumbersAddUp`, `NeverBoth` | see below; `NeverBoth` assumes `Audible` and `Rememberable` |
| `Energy_proofs` | `TypesHold`, `StatesAlwaysAgree`, `BooksAlwaysAgree` | see below |
| `Deployment_proofs` | `ProbeTellsTheTruth`, `WindowsAlwaysSuffice`, `TypeCorrect` | see below; `TypeCorrect` assumes a duty cycle of an eighth or less |
| `LinkControl_proofs` | of `LinkControl`: `TypeCorrect`, `AnswersGoOnce`, `ChannelForEveryRate`, `HeardForEver`; of `FrameHeader`: `HeadersAreTyped`, `LeadingFieldsAlwaysSurvive`, `FramesReadBack` | see below, **Commands** and **Frames**; `ChannelForEveryRate` assumes `NoNewChannels`, `HeardForEver` assumes `NoPowerRequests` and `Cautious`, `FramesReadBack` assumes `LengthFits` |

**End device.** `OnePendingTransmission` is not inductive: `postponeTransmission`
cancels the event that `m_nextTx` *names*, and an event that a variable no
longer names can still be in the list. The invariant (`Good`) adds that the
one `DoSend` in the list is named by `m_nextTx`, that no other event carries a
packet, and that the state has its type. The type matters for the order of the
list: an event is inserted by its remaining time, and no delay may be negative,
not even one computed from a timestamp that is long past. A handler calls others, so the proof is built like the
code: `Calm` says of a handler that it keeps `Good` and leaves the packet under
retransmission alone, `Keeps` that it keeps `Good` and either leaves the packet
alone or ends its procedure with a report; both compose (`CalmIsTransitive`,
`KeepsAfterCalm`, `CalmAfterKeeps`). Each handler has one lemma; a step pops an
event, which is `PoppedIsGood`, and applies a handler. The two action
properties follow from the same lemmas.

Nothing in the code keeps an attempt off the windows of the last one but the duty cycle: ACK_TIMEOUT is
drawn from a timestamp that may be past, and `SendToPhy` asks the radio nothing. `NeverAborts`,
`WindowsKeptQuiet`, `AttemptsAreSent` and `BudgetAlwaysKept` say that it suffices. Their invariant (`OnDuty`)
compares each pending event with the time the sub-band stays closed (`InTime`): a transmission is due no
earlier than the sub-band reopens, and any other event so much earlier that whatever it leads to, a
window and a reception that begins in its last instant, is over by then. Each handler schedules what its
own event had allowed for, and time brings both closer alike, so no case of the order of windows and
receptions is needed. Once the sub-band is open the list therefore holds nothing but a
transmission (`OpenIsIdle`), and the radio sleeps since it is awake only when an event will put it to
sleep (`RadioFollows`); a retransmission is always put off, because it is arranged while the sub-band is closed
(`RetransmitIsTame`), and so runs only with the budget that allowed it (`Charged`).

The hypotheses: the enabled channels are in one sub-band (`OneSubBand`), as the default channels that
`LorawanMacHelper` sets up for the EU are; packet, delay, window and the longest reception together are
shorter than the off time, for both windows (`DutyOutlasts`); nobody acts between SwitchToStandby and
TxFinished (`~TxGap`). At 1 % the off time is 99 packets: 4.1 s for the shortest packet of SF7 (41 ms), and
with delays of 1 s and 2 s and a window of at most 0.26 s that leaves 1.7 s for a reception; an
acknowledgement at SF12 takes 1.2 s. Without a duty cycle (the ALOHA and single-channel settings)
`DutyOutlasts` fails and so does `BudgetKept` (run EDBudgetWraps).

**Gateway.** `Good` joins the type, `Held` = the signals of the pending ends
(a path is occupied exactly while the end is pending), `OnePath` (no signal
twice), `Counted` (the traced count is at least the number of occupied paths) and
`OneDownlink` (under `Booked`: the transmitting flag is set exactly while one end of
transmission is pending, and no path is occupied meanwhile). The equation needs the uniqueness: an interruption
removes *the* event of a path. `DeafWhileSending` needs `Booked`; the other
theorems hold for a gateway that is given downlinks at any time.

**Schedule.** `PeriodCoversDuty` is the arithmetic fact on which the schedule
rests: with `AirTime <= TableAirTime`, the window length chosen by `index.js`
never makes the period shorter than the off time of the sub-band.
`SendersInSlots` then uses that the period is a multiple of the slot length.
`OneBusyPerGateway` is a theorem of the abstract specification `SlottedAccess`: devices of one
gateway are never busy at a time.

That whole devices implement it (`SlotsKept`) needs to know where a device is in its slot.
`InSlot(s, t)` says it of a device state `s`, `t` ticks after the slot began: the packet is on air
(`Sending`), it has just ended (`Sent`), or what is left in the event list are events of the two
windows, each due at the instant (`Instant`) that the air time, the delay and the length of the
window add up to (`Windows`), and the radio is on only if one of the windows is still to be closed.
Each handler of the device takes `InSlot(s, t)` to `InSlot(s', t)` (`EventKeepsSlot`), a tick to
`InSlot(s', t + 1)` (`TickKeepsSlot`). The order of the window events is not assumed, so the proof
covers windows that touch or overlap. The invariant `OnTime` adds, for every device, that its sender
is due at the start of the slot after that of its last task, that its sub-band will be open then
(`PeriodCoversDuty`), and what the traces say. Then, at the first instant of any slot, every other
device has all windows closed and whoever is due is idle (`FirstInstant`), for otherwise the slot of
that device would be longer than `SlotLength`: so a packet is heard by nobody and is never postponed.

`PacketFits` are the hypotheses: `AirTime <= TableAirTime`, `DutyDiv > 1`, and packet, delay and
window are shorter than a slot, for both windows. The numbers of the repository satisfy it with the
1 s and 2 s of the MAC layer and windows of 8 symbols: for SF7 a slot is 2.85 s and packet, delay
and second window take at most 0.37 + 2 + 0.26 s; for SF12 the slot is 14.97 s and they take 5.06 s.

**Network server.** The invariant (`Good`) describes one attempt of a device from all sides. An
entry of its list has the counter of one of its attempts, and the entry with the counter of the current
attempt is its packet and the last (`Numbered`); a copy on a link is of the current attempt
and no window has opened yet (`CopiesAreCurrent`); a device has at most one opportunity (`OneEach`),
whose timer agrees with the age of the windows (`OnTime`), and it has one as long as the attempt is new
and the server knows it (`Planned`); a reply on a link is for the window that is open, it is the
only one, and no opportunity is left (`RepliesMeetWindows`). None of these holds on its
own: that a second copy plans no second opportunity follows from the list, that the list is
right from the copies being current, and a reply meets its window because the timer was right. Entries
are told apart by their frame counters, which have eight bits. `NoWrap` is the hypothesis that a device
makes no more attempts than there are counters (`end-device-status.cc:291`: the 257th frame is taken
for a copy of the first, see section 5). The refinement `DeliveryIsRefined` rests on the same
invariant: a reply is for the attempt the device is in, and the packet of that attempt is in the list.
For `RepliesCanBeSent` there is a second invariant, that at most one reply is on its way
(`AloneAndFree`), which needs `Spaced`: without it two replies may go to one gateway (section 5).

**Reception.** `IInv` joins the type, `Timed` (an event lasts as long as its frame), `Remembered`
(a gateway's list holds all it ever heard but for signals over since longer than the
threshold), `Entered` (the tracker has an entry for what is on the way), `Accounted` (a frame of
which a gateway has reported nothing is still on the way there or being received) and
`Printed`. `NothingForgotten` follows from `Timed` and `Remembered`: both lists have the same
*interferers*, since what was forgotten ended before the packet began. `NumbersAddUp` counts: the frames
with each outcome are disjoint sets, and `Accounted` says that together they are all once the air is silent.

`NeverBoth` needs a second invariant (`Fair`): whatever was received withstood each rival that was
still in the list at its end, for rivals that began later do not overlap. A signal is
compared with the *sum* of its interferers' energies, a recursion over a set; that the sum is at least
each of its terms is proved by induction on the number of elements (`EveryNumber`: a set of
numbers that has 0 and with each number the next has all; `SumExists`, `SumBounds`, `EnergyAddsUp`).
If two frames withstood each other, each has 3.98 times the other's power over
the time they share, and so they share less than a quarter of their time, in the geometric mean
(`BothTooStrong`). `Audible` says that no power is rounded to nothing. `Rememberable` says that a frame
which outlasts the threshold has so little left of it that a rival forgotten meanwhile cannot have shared a
quarter. It says nothing of frames up to two seconds. For the longest ones (SF12, 2.63 s)
with a short rival it does not hold, and after a hundred other signals such a pair may
both be received.

**Energy.** Between two calls nothing is pending, no booking lies in the future, and,
unless an assertion has failed, the model's state is the radio's, what the model
booked is what the radio used since the start up to the last booking, and what the
source has left is its capacity less that (`Good`). A change of state is cut where
the code calls out: the booking, the call of the source, the state. Each half keeps
the books on its own, so it does not matter that a callback runs a whole change
in between; the counter is why the outer half then leaves the state alone. The current of
a transmission is set before the change to TX is booked. That charges nothing of
the past with the new current only because the model is not in TX at that moment, which is one of
the facts the proof carries.

**Probe.** `RowsTellTheTruth` says that the handler numbers a reception with the device that sent.
It only sees packet uids. The invariant adds that one device is at work at a time (`OneAtATime`: the sender
that waits is the next device, and everything on the air comes from one device, the last
counted or the next), that `m_lastPacketId` is the uid of the last counted one
(`LastIsCounted`), and that no row is ahead of the count (`RowsCounted`).
`WindowsAlwaysSuffice` follows from it: a device that has a gateway in its schedule has a
row of its own for it, so that the devices of a gateway are no more than its rows (`OneRowEach`, an
injection), and a window is as long as the most rows of any gateway and as the duty cycle rounded up
(`MostRows`, `RoundedUp`). `Chosen` says that spreading factors and rows are still those the windows
were made from. `TypeCorrect` adds that no row names a device or a gateway that does not exist, and that a
deadline lies within its window. Its invariant (`Built`) needs that the grid can be drawn at all: `iteration`
picks one of the divisors of the number of gateways by its place, and there is one at each place
(`NthExists`), and the distance between gateways, which shrinks from one to the next, is a recursion that
exists (`DistancesExist`). A deadline is never the first slot, so a window needs two: they are there when the
duty cycle is an eighth or less, since a slot is shorter than eight packets (`TwoSlots`). At a seventh, a device of SF7
that is alone at its gateway would have a window of one slot and a deadline in the second.

**Commands.** While a device waits for an acknowledgement its list can only hold the
`LinkCheckReq` that the application adds (`OnlyLinkChecks`): answers come from a
downlink, and commands are only parsed after the wait has ended (`AckFirst`).
The type invariant (`Typed`) is about the loop that `AdrComponent` closes over the air: what it computes
from a history of receptions is always a data rate and a power of the tables. That needs the averages
to be numbers: a sum over a set is a recursion, which exists and has its type by induction on
the number of elements (`SumExists`, `SumIsANumber`), and a finite set of numbers has a least and a
greatest one (`FiniteHasEnds`). `ChannelForEveryRate` rests on `WellTuned`: channels have the data rates of the region,
one is enabled, and `OnLinkAdrReq` takes a mask over only if one of its channels admits the data rate
(`AdaptedWellTuned`; an index equal to the number of channels passes the check and cannot be that one).
`NoNewChannels` is needed because `OnNewChannelReq` checks nothing.

`HeardForEver` is about a loop with a delay: what `AdrComponent` asks for is computed from packets
the device sent with other powers and data rates than now, some of them missed by the nearest gateway. The invariant
(`InRange`) gives each packet of the history the power it was sent with (`Recorded`), which bounds what the gateways
say of it from above, and adds that power is only reduced at the fastest data rate, and from one packet to
the next by no more than the margin at full power (`Gentle`). Each step of 3 dB is worth 2 dB of power, and what a
packet needs to be demodulated is 5.47 dB above what a gateway can detect. So the least power is safe with
a margin of 6.53 dB, and with less one request takes away 4 dB at most: the two packets before the last one were
then sent with hardly more power than it, and keep the average down (`AverageLeavesRoom`).
`Cautious` says that the history is condensed to its minimum or to the average of at most five packets
(the code's default is the average of four). It is needed: TLC finds devices that are turned down until nobody hears
them with the maximum of four packets, and with the average of eight, at losses from 132 to 132.5 dB. For the
average of six and seven, where TLC finds none with one gateway, the argument is too coarse. `NoPowerRequests`: a component of the
user's own sends no `LinkAdrReq`; the run has two such requests, one of which the device accepts.

**Frames.** What is written is read back, in four layers. Bits: a byte gives back the flags and the nibbles it was
made of (`FCtrlReadsBack`, `LowAndHigh`, `ThreeFlags`), four bytes the two parts of an address (`AddressReadsBack`). Commands: for each
class, the fields its `Deserialize` takes from the bytes of its `Serialize` are the ones it had, if they
fit (`EverySurvives`), and the identifier announces that class and no other in its direction (`Announces`). Lists: the bytes of a list are a
recursion over the list, which exists and has a value for every length by induction (`BytesUpToExist`), so that
each command stands behind all before it (`EveryListLaidOut`). Frames: the invariant (`ReadBackInv`)
says that the reader has read the first k commands and stands in front of the next, having counted the
bytes of those k (`ReadSoFar`). It needs the announced length to be the true one. That is so up to seven
bytes, the three bits of `FramesOptions`, and if the eight bits of `m_fOptsLen` have not
wrapped (`LengthFits`: commands take six bytes at most). Without it 43 commands of six bytes are 258 bytes that
count as 2, and `FrameReadsBack` is false; no component adds so many. `HeadersAreTyped` and
`LeadingFieldsAlwaysSurvive` need no hypothesis: they hold for readers that take the commands
for those of the other direction, too.

What is **only model-checked**:

- liveness (`EveryPacketReported`, `RadioSleeps`, `PathsAreFreed`,
  `RepliesResolved`, `AdrSettles`, `EveryDeviceScheduled`): liveness under fairness
  is beyond TLAPS, as is `ENABLED`.

No module declares a RECURSIVE operator, which would cost the provers their SMT
backend: minima are written with `CHOOSE` and the ordered insertion with positions
in a sequence. The library's theorems of induction take an operator as a parameter, which the
provers cannot instantiate; `Reception_proofs`, `LinkControl_proofs` and `Deployment_proofs` state induction about a *set* of
numbers instead (`EveryNumber`), and prove it from the well-foundedness of `<`.

## 5 Where code and documentation disagree

Each of these has a run in which TLC finds the disagreement; `PROJECT.json` quotes
the lines.

| Run | What it shows |
|---|---|
| `EDBudgetWraps` | `DoSend` takes from a budget of 0: the counter becomes 255 and the packet may be sent some 255 more times |
| `FramesOptions` | the length of the options is written with three bits: eight bytes of commands are announced as none, and read as port and payload |
| `TrackerBlind` | the callback that counts receptions at the MAC layer of gateways is connected to a trace source that nobody fires; the count is always 0 |

Met while modelling, without a run of their own. In the device, the gateway and the server:

- `Receive` may start a transmission (the procedure ends, and a waiting packet is sent at once) and
  then put the radio to sleep: the assertion of `SwitchToSleep` fails
  (`class-a-end-device-lorawan-mac.cc:240`).
- A downlink without an ACK cancels the second window
  (`class-a-end-device-lorawan-mac.cc:181`); nothing retransmits or reports the packet any more.
- The end of one packet's procedure cancels the first transmission of the next
  one, when that was postponed (`end-device-lorawan-mac.cc:625`).
- A retransmission is postponed only with respect to the sub-band; when it reopens
  while the windows of another attempt are open, the transmission starts between them.
  The windows then find a radio that is not in the state they expect.
- `EndDeviceLorawanMac::Send` compares the size of a packet with the limit for
  *payloads* (`end-device-lorawan-mac.cc:156`). A retransmission carries its headers
  already: near the limit it is dropped without a report, and the procedure never ends.
- `SimpleEndDeviceLoraPhy::Send` returns silently while the radio receives (`:64`); the
  MAC has counted the attempt.
- The ten nanoseconds between `SwitchToStandby` and `TxFinished`
  (`simple-end-device-lora-phy.cc:90`) are a time at which a reception or a
  transmission may begin; `TxGap` adds it to the model.
- `GetChannelForTx` may return null, and `SendToPhy` uses the result
  (`class-a-end-device-lorawan-mac.cc:109`).
- Receptions that a downlink interrupts stay in the traced number of occupied paths
  (`simple-gateway-lora-phy.cc:95`).
- Two replies chosen within the delay of one link go to the same gateway, which drops
  one (`gateway-status.cc:106`).
- The 257th frame of a device is taken for a copy of the first (`end-device-status.cc:291`).
- `EndDeviceStatus::GetPowerGatewayMap` is a map with the power as key
  (`end-device-status.cc:383`): of two gateways that heard a frame with equal
  power, one is lost as a choice for the reply, although `doc/lorawan.rst:302-304` wants replies
  always forwarded to a gateway that can send.
- The time off is counted from the *start* of a transmission, by a formula that
  `doc/lorawan.rst:279-285` describes as counted after it.

In the commands (`end-device-lorawan-mac.cc`, `class-a-end-device-lorawan-mac.cc`, `mac-command.cc`):

- With an odd `MaxNumbTx` and data rate adaptation, the first attempt of each packet already lowers the
  data rate; `AdrComponent` raises it with the next reply, for ever.
- `NewChannelReq` and `RxParamSetupReq` carry hertz where the device keeps megahertz, and the
  upper bytes of the frequency of a `NewChannelReq` are read in the wrong order.
- `m_fOptsLen` has eight bits and `AddCommand` does not check it (`lora-frame-header.cc:454`): options of
  more than 255 bytes are counted as what is left of them, before the three bits of `FramesOptions` are taken from that.
- `OnRxClassParamSetupReq` takes over an offset or data rate that it has just refused; the next
  second window then looks up a data rate that does not exist.
- A `LinkAdrReq` for a channel equal to the number of channels, for data rate 7 or for power 8 makes
  `at()` throw instead of being refused, and a `DutyCycleReq` of 0 fails an assertion. The
  aggregated duty cycle a device is given has no effect.
- A device that checks its link with every packet gets a `LinkCheckAns` and a `LinkAdrReq` in
  one reply, eight bytes, which is the case of `FramesOptions`: it is never steered.
- With its attribute HistoryAveraging at MAXIMUM, or at AVERAGE with a HistoryRange of 8, `AdrComponent`
  may turn a device down until no gateway hears it (`adr-component.cc:50-62`; section 4).
- `AdrComponent` asks for the channels 0, 1 and 2. A region with one channel refuses, and is asked again
  with every reply.

In the radio and its observers:

- `LoraInterferenceHelper::CleanOldEvents` forgets signals two seconds after their
  end (`lora-interference-helper.cc:218`), while an SF12 packet takes up to
  2.63 s. Without its condition on the duration `NoInterfererForgotten` does not hold.
- The ALOHA matrix has the smallest *positive* number where its other entries suggest "never":
  an interferer of another spreading factor destroys all the same when it is at least as strong.
- A gateway that transmits does not add what it misses to its list of interferers.
- The interval of the tracker is closed at both ends: printing periodically counts a
  frame that is sent at the instant of a print twice. One that is on the air at that instant
  is printed as sent, and its outcome in no line at all.
- `LoraRadioEnergyModelHelper` says that it sets a callback that puts the radio to sleep when the
  source runs out (`lora-radio-energy-model-helper.cc:90-91`), but sets none: the source reports once, and the
  device goes on to transmit.
- `HandleEnergyDepletion` ends in `SwitchToSleep`, which asserts that the radio is in STANDBY. With a
  callback installed, a depletion noticed in TX, RX or SLEEP ends the program.
- The constructor of the energy model says "initially STANDBY" and sets SLEEP.

In the scenarios and the schedule:

- The offset of 5 % in the grid of `Scenario.js:179-201` grows with each gateway, where its
  comment says that gateways have a fixed distance. The coverage radius is 9000 m, which SF12
  reaches with 66 m to spare.
- `between(min, max)` never yields `max`.
- `rt-lorawan-1` uses the data rate 0 for all devices; `SetSpreadingFactorsUp` is commented
  out. A device without a row gets no deadline, and `rt-lorawan-2` fails to convert it.
- `SetSpreadingFactorsGivenDistribution` writes a seventh element of a vector of six.
- The air times in the table of `index.js` are those of SF12 with 68 bytes (2.63 s, in a table
  entry that is longer) but not of SF7 with 239 bytes: 374 ms, where the table has 368.9.
- `rt-lorawan-2` never prints the events from which the result processing counts the frames each gateway lost.
- `rt-lorawan-2.cc:160` compares with the end of the slot and not with the deadline of the device.
- `rt-lorawan-3`, which `index.js:118` asks for in its random mode, is not in the repository.
- A coverage may need more slots than the most devices under one gateway (three
  devices, each pair sharing a gateway of its own, need three slots but no gateway
  has more than two). No assignment then exists. Scenarios do not record it.
- Slots protect the devices that share a gateway. Devices of different gateways may still
  be on air together, and radios hear further than the coverage that was probed.

## 6 What is not modelled

| Part | Why |
|---|---|
| Propagation (`BuildingPenetrationLoss`, `CorrelatedShadowingPropagationLossModel`) | random real numbers; the loss of a link is a constant, the reach of a radio a distance |
| The choice of a channel, and channels in the timed modules | `EndDevice` and `Gateway` are given sub-bands; enabling and disabling channels is in `LinkControl`, removing them is used by nobody |
| The aggregated duty cycle | it has no effect (section 5) |
| `LoraDeviceAddressGenerator` | an address is a value; `FrameHeader` models how it is written |
| Retransmissions in the tracker | sums over the reports of `EndDevice` |
| Set-up helpers | what they choose is a constant or an initial state; creating and connecting objects is left out |
| `LoraNetDevice`, `LoraTag`, utilities, `HexGridPositionAllocator` | no state of their own that a property could be about |
| `rt-lorawan-old` | uses classes that the repository does not have |
| `randomSchedule.js`, `Simulation.js` | sums over result files |
| Traces of gateways and server in `rt-lorawan-2` | output |
| Other examples, unit tests, scenario files, results | programs around the library, and data; the tests were read as documentation |

Bounds that a run adds to the code are named where they are declared: the number of packets
(`Packets`), attempts (`MaxNumbTx`, `MaxTries`, `MaxAttempts`), signals (`Signals`), the drift of a
counter (`MaxDrift`), how far back a timestamp is told apart (`TsFloor`), commands in a frame
(`MaxCommands`), requests from outside (`MaxRequests`), sendings of a frame (`MaxSends`), ticks
(`MaxTime`, in `Reception` and `Energy`), devices (`MaxQty`) and, for
the schedule, the `Horizon`, which is when the simulator is stopped. `ListLimit` and `DutyDiv`
are smaller than in the code so that the case they decide happens.

## 7 Plan

Done, most important first:

1. `EndDevice`: retransmission, windows and radio of a class A device, with proofs.
2. `Gateway`: reception paths and downlinks, with proofs.
3. `NetworkServer` and `ConfirmedDelivery`: the two above as the server sees them, with proofs and
   the proof of the refinement.
4. `RTSchedule` and `SlottedAccess`: the schedule with whole devices, with proofs and
   the proof of the refinement.
5. `MacCommand` and `FrameHeader`: what is on the air, with proofs (at the end of `LinkControl_proofs`).
6. `LinkControl`: the commands, `LinkCheckComponent` and `AdrComponent`, with proofs.
7. `AirTime` and `Reception`: interference and the packet tracker, with proofs.
8. `Energy`, with proofs.
9. `Deployment`: scenario, probe and deadlines, with proofs.

Left: for `EndDevice` the four theorems about its duty cycle for several sub-bands, where ACK_TIMEOUT and the
windows must be compared as well.

## 8 How to run

```
tlasany EndDevice.tla                                   # parse
tlc -workers 2 -config EDConfirmed.cfg MCEndDevice      # model-check
tlapm EndDevice_proofs.tla                              # check the proofs
```

| Module | Configurations |
|---|---|
| `MCEndDevice` | `EDConfirmed` (passes); `EDBudgetWraps` (TLC reports a violation) |
| `MCGateway` | `GWHalfDuplex` |
| `MCNetworkServer` | `NSReplies` |
| `MCRTSchedule` | `RTSlots` |
| `MCFrameHeader` | `Frames`; `FramesOptions` (violation) |
| `MCLinkControl` | `Commands` |
| `MCReception` | `Reception`; `TrackerBlind` (violation) |
| `MCEnergy` | `Energy` |
| `MCDeployment` | `Deployment` |

`tlapm` checks the modules whose names end in `_proofs`. `PROJECT.json` maps each definition
to the lines it models.
