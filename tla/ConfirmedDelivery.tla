--------------------------- MODULE ConfirmedDelivery ---------------------------
(***************************************************************************)
(* What the network promises a device: a packet is reported as            *)
(* acknowledged only when the network server received that packet, and a   *)
(* packet that is over stays over.  The packets of a device are numbered   *)
(* in the order in which the application hands them down.                  *)
(***************************************************************************)
EXTENDS Naturals

CONSTANT Devices

VARIABLES
  current,       \* the number of the packet each device is busy with
  received,      \* the packets of each device that the server has received
  outcome        \* what has become of the current packet
vars == <<current, received, outcome>>

Init ==
  /\ current = [d \in Devices |-> 0]
  /\ received = [d \in Devices |-> {}]
  /\ outcome = [d \in Devices |-> "none"]

\* A new packet replaces the one before it, finished or not.  One that asks for
\* no acknowledgment has no outcome.
Submit(d) ==
  /\ current' = [current EXCEPT ![d] = @ + 1]
  /\ \E o \in {"open", "none"} : outcome' = [outcome EXCEPT ![d] = o]
  /\ UNCHANGED received

Deliver(d) ==
  /\ current[d] > 0
  /\ received' = [received EXCEPT ![d] = @ \cup {current[d]}]
  /\ UNCHANGED <<current, outcome>>

Confirm(d) ==
  /\ outcome[d] = "open" /\ current[d] \in received[d]
  /\ outcome' = [outcome EXCEPT ![d] = "acked"]
  /\ UNCHANGED <<current, received>>

GiveUp(d) ==
  /\ outcome[d] = "open"
  /\ outcome' = [outcome EXCEPT ![d] = "failed"]
  /\ UNCHANGED <<current, received>>

Next == \E d \in Devices : Submit(d) \/ Deliver(d) \/ Confirm(d) \/ GiveUp(d)

Spec == Init /\ [][Next]_vars
=============================================================================
