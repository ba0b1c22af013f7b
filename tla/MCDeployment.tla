----------------------------- MODULE MCDeployment ------------------------------
(* Instances of Deployment for TLC. *)
EXTENDS Deployment

\* One gateway, a row of two, and eight in a row or in two of four.
Quantities == {1, 2, 8}
TwoIterations == {0, 1}
Corners == {0, 500, 999}
BothAssignments == {"SF12", "up"}
===============================================================================
