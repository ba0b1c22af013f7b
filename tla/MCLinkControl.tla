----------------------------- MODULE MCLinkControl -----------------------------
(* Instances of LinkControl for TLC. *)
EXTENDS LinkControl
CONSTANTS g1, g2

TwoGateways == {g1, g2}

\* One gateway that hears every data rate and one that hears the slow ones.
NearAndFar == (g1 :> 13400) @@ (g2 :> 14400)

\* What a component of the user's own might ask for: the slowest data rate with
\* most power on one channel, a data rate no channel has, and other parameters.
\* NewChannelReq is left out: the device aborts with its next packet.
SomeRequests ==
  {[cmd |-> "RxParamSetupReq", rx1DrOffset |-> 2, rx2DataRate |-> 3, frequency |-> 869525000],
   [cmd |-> "LinkAdrReq", dataRate |-> 0, txPower |-> 0, channelMask |-> 4, chMaskCntl |-> 0, nbRep |-> 1],
   [cmd |-> "LinkAdrReq", dataRate |-> 6, txPower |-> 1, channelMask |-> 7, chMaskCntl |-> 0, nbRep |-> 1],
   [cmd |-> "DutyCycleReq", maxDCycle |-> 4]}
===============================================================================
