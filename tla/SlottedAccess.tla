---------------------------- MODULE SlottedAccess ----------------------------
(***************************************************************************)
(* What a real-time schedule promises: time is cut into slots of the same  *)
(* length, the slots into windows, every device owns one slot of each      *)
(* window, and is busy (transmitting or listening for the reply) in its    *)
(* own slots only, from their beginning.                                   *)
(***************************************************************************)
EXTENDS Integers

CONSTANTS Devices, Gateways

VARIABLES
  plan,          \* the gateways that cover each device, its slot; window and slot length
  now,
  busy           \* the devices that are busy
vars == <<plan, now, busy>>

Meet(d, e) == plan.covers[d] \cap plan.covers[e] # {}

\* Devices that share a gateway own different slots.
ValidPlan ==
  /\ plan.covers \in [Devices -> SUBSET Gateways]
  /\ plan.window \in Nat \ {0} /\ plan.length \in Nat \ {0}
  /\ plan.slot \in [Devices -> 1..plan.window]
  /\ \A d, e \in Devices : d # e /\ Meet(d, e) => plan.slot[d] # plan.slot[e]

\* The number of the slot that contains instant t, and the device's own ones.
SlotOf(t) == t \div plan.length
Owns(d, t) == SlotOf(t) % plan.window = plan.slot[d] - 1

Init == ValidPlan /\ now = 0 /\ busy = {}

Begin(d) ==
  /\ now % plan.length = 0 /\ Owns(d, now)
  /\ busy' = busy \cup {d}
  /\ UNCHANGED <<plan, now>>

End(d) ==
  /\ busy' = busy \ {d}
  /\ UNCHANGED <<plan, now>>

\* Whoever is busy is done before the slot is over.
Tick ==
  /\ busy # {} => SlotOf(now + 1) = SlotOf(now)
  /\ now' = now + 1
  /\ UNCHANGED <<plan, busy>>

Next == Tick \/ \E d \in Devices : Begin(d) \/ End(d)

Spec == Init /\ [][Next]_vars

\* Two devices that share a gateway are never busy together.
Exclusive ==
  \A d, e \in busy : d # e => ~Meet(d, e)
=============================================================================
