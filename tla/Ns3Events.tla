------------------------------ MODULE Ns3Events ------------------------------
(***************************************************************************)
(* The ns-3 event list as the models of this project use it (external: the *)
(* simulator core is not part of the repository; the operators model what  *)
(* Simulator::Schedule, Simulator::Cancel and EventId::IsExpired do for    *)
(* the code that calls them).                                              *)
(*                                                                         *)
(* A pending event is a record                                             *)
(*   fn   the handler it will call                                         *)
(*   due  the ticks left until it runs                                     *)
(*   held TRUE while the EventId variable of its caller still names it     *)
(*   arg  the packet bound to the call, or a placeholder                   *)
(* The list is kept in the order of insertion, which is the order of the   *)
(* uids: of several events due at the same instant ns-3 runs the one that  *)
(* was scheduled first.                                                    *)
(***************************************************************************)
EXTENDS Naturals, Sequences

\* An EventId variable that is assigned a new event no longer names the old
\* one, which stays in the list.
Release(q, fn) ==
  [i \in DOMAIN q |-> IF q[i].fn = fn THEN [q[i] EXCEPT !.held = FALSE] ELSE q[i]]

Schedule(q, fn, delay, arg) ==
  Append(Release(q, fn), [fn |-> fn, due |-> delay, held |-> TRUE, arg |-> arg])

\* ~EventId::IsExpired
Pending(q, fn) == \E i \in DOMAIN q : q[i].fn = fn /\ q[i].held

Without(q, i) == SubSeq(q, 1, i - 1) \o SubSeq(q, i + 1, Len(q))

\* Simulator::Cancel on the EventId of fn: no effect on an expired event.
Cancel(q, fn) ==
  IF Pending(q, fn)
  THEN Without(q, CHOOSE i \in DOMAIN q : q[i].fn = fn /\ q[i].held)
  ELSE q

\* The event the main loop runs next.
IsNext(q, i) == q[i].due = 0 /\ \A j \in DOMAIN q : j < i => q[j].due # 0

\* No event is left at this instant, and the list one tick later.
Quiet(q) == \A i \in DOMAIN q : q[i].due > 0
Elapse(q) == [i \in DOMAIN q |-> [q[i] EXCEPT !.due = @ - 1]]
=============================================================================
