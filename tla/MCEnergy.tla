------------------------------- MODULE MCEnergy --------------------------------
(* Instances of Energy for TLC. *)
EXTENDS Energy

BothCallbacks == {"none", "sleep"}
NoCallback == {"none"}
AllModels == {"none", "constant", "linear"}
TwoPowers == {2, 14}
===============================================================================
