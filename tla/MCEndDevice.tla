----------------------------- MODULE MCEndDevice -----------------------------
(***************************************************************************)
(* Instances of EndDevice for TLC.  A tick is half a second: the windows   *)
(* open one and two seconds after a transmission, ACK_TIMEOUT is drawn     *)
(* from [1, 3] seconds, and a receive window or a short packet takes one   *)
(* tick.                                                                   *)
(***************************************************************************)
EXTENDS EndDevice
CONSTANTS p1, p2, b1

TwoPackets == {p1, p2}
NoPacket == {}
OneBand == {b1}

\* Duty cycles: none (the ALOHA and single-channel settings), and a share that,
\* as the 1% of the EU sub-bands, outlasts the receive windows.
NoDuty == [b \in SubBands |-> 1]
LongDuty == [b \in SubBands |-> 14]

Short == {1}
RxShort == {2}
ShortOrLong == {2, 6}
Timeouts == {2, 4, 6}
NoData == {"ack", "other", "uplink", "lost"}
Quietly == {"ack", "lost"}
=============================================================================
