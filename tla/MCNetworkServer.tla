--------------------------- MODULE MCNetworkServer ---------------------------
(* Instances of NetworkServer for TLC. *)
EXTENDS NetworkServer, TLC
CONSTANTS d1, d2, b1, b2

TwoDevices == {d1, d2}
TwoGateways == {1, 2}
TwoPowers == {1, 2}
TwoBands == {b1, b2}

\* Bounds: the attempts of each device.
TwoAndOne == d1 :> 2 @@ d2 :> 1

\* The first window is in the band of the uplink, the second in its own.
Windows == <<b1, b2>>
Duties == b1 :> 3 @@ b2 :> 2
OneLength == {1}
=============================================================================
