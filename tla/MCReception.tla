------------------------------ MODULE MCReception ------------------------------
(* Instances of Reception for TLC. *)
EXTENDS Reception, TLC

CONSTANTS long, short, fast, g1, p1, p2

\* Two frames with SF12, of 68 and of 19 bytes, and one with SF7 on the same
\* channel; the long one is the weakest at the gateway.
ThreeFrames == {long, short, fast}
OneGateway == {g1}
TwoPaths == {p1, p2}
AnyPath == Permutations(TwoPaths)
TheirSf == (long :> 12) @@ (short :> 12) @@ (fast :> 7)
OneChannel == (long :> "868.1") @@ (short :> "868.1") @@ (fast :> "868.1")
TheirSize == (long :> 68) @@ (short :> 19) @@ (fast :> 19)
TheirPower == (long :> (g1 :> -130)) @@ (short :> (g1 :> -123)) @@ (fast :> (g1 :> -118))
TheirDelay == (long :> (g1 :> 1)) @@ (short :> (g1 :> 0)) @@ (fast :> (g1 :> 0))
===============================================================================
