------------------------------ MODULE MCGateway ------------------------------
(* Instances of Gateway for TLC. *)
EXTENDS Gateway, TLC
CONSTANTS g1, g2, s1, s2, s3, b1, b2

TwoPaths == {g1, g2}
ThreeSignals == {s1, s2, s3}
TwoBands == {b1, b2}

\* The band of the first receive window (1%) and that of the second (10%).
Duties == b1 :> 5 @@ b2 :> 2
Lengths == {1, 2}
=============================================================================
