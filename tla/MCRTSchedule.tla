---------------------------- MODULE MCRTSchedule ----------------------------
(* Instances of RTSchedule for TLC. *)
EXTENDS RTSchedule, TLC
CONSTANTS d1, d2, d3, d4, g1, g2

FourDevices == {d1, d2, d3, d4}
TwoGateways == {g1, g2}

\* Renaming devices or gateways renames the scenarios.
Alike == Permutations(FourDevices) \cup Permutations(TwoGateways)
=============================================================================
