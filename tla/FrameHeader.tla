------------------------------ MODULE FrameHeader ------------------------------
(* The headers of a frame (lorawan-mac-header.cc, lora-frame-header.cc): a      *)
(* writer fills them in, adds MAC commands and serializes them in front of a   *)
(* payload; a reader takes them off again, command by command.  Some callers   *)
(* tell their header the direction before they read, as its documentation      *)
(* asks, and some do not: then m_isUplink is whatever the memory held.         *)
EXTENDS MacCommand

CONSTANTS
  Headers,       \* the fixed fields a writer may set
  Commands,      \* the commands it may add
  MaxCommands,   \* bound: commands in one frame
  Payload        \* the bytes behind the headers

VARIABLES
  frame,         \* the header of the writer, with its list of commands
  reader,        \* the header of the reader
  wire,          \* the packet: the bytes of the headers and the payload
  pos,           \* how many of them the reader has consumed
  byteNumber,    \* bytes of options the reader has counted
  stage          \* of the frame: what happens next

frameVars == <<frame, reader, wire, pos, byteNumber, stage>>

MType == {0, 1, 2, 3, 4, 5, 7}
IsUplink(mtype) == mtype \in {0, 2, 4}
IsConfirmed(mtype) == mtype \in {4, 5}

\* The seven bits of the network and the 25 bits of the device in it.
Address == [nwkId: 0 .. 127, nwkAddr: 0 .. 2^25 - 1]

Fixed == [mtype: MType, major: 0 .. 3, address: Address, adr: BOOLEAN, adrAckReq: BOOLEAN,
          ack: BOOLEAN, fPending: BOOLEAN, fCnt: U16, fPort: Byte]

Header == [fixed: Fixed, fOptsLen: Byte, commands: Seq(Uplinks \union Downlinks), isUplink: BOOLEAN]

ASSUME HeadersAssumption == Headers \subseteq Fixed
ASSUME CommandsAssumption == Commands \subseteq Uplinks \union Downlinks
ASSUME PayloadAssumption == Payload \in Seq(Byte)
ASSUME BoundAssumption == MaxCommands \in Nat

-------------------------------------------------------------------------------
(* What is written.                                                            *)

\* LoraDeviceAddress::Get joins the two parts, and WriteU32 writes the result
\* with its lowest byte first; Set takes the parts from the number again.
AddressBytes(a) ==
  <<a.nwkAddr % 256, (a.nwkAddr \div 256) % 256, (a.nwkAddr \div 65536) % 256,
    a.nwkId * 2 + a.nwkAddr \div 16777216>>

\* Mutant: a bit of the network is taken for one of the device.
AddressOfTwoBits(b) ==
  [nwkId |-> b[4] \div 2,
   nwkAddr |-> (((b[4] % 4) * 256 + b[3]) * 256 + b[2]) * 256 + b[1]]

AddressOf(b) ==
  [nwkId |-> b[4] \div 2,
   nwkAddr |-> (((b[4] % 2) * 256 + b[3]) * 256 + b[2]) * 256 + b[1]]

MacHeader(h) == h.mtype * 32 + h.major

\* Mutant: the length takes four bits and runs into FPending.
FCtrlFourBits(h, len) ==
  Bit(h.adr) * 64 + Bit(h.adrAckReq) * 32 + Bit(h.ack) * 16 + Bit(h.fPending) * 8 + (len % 16)

\* Three bits are left for the length of the options.
FCtrl(h, len) ==
  Bit(h.adr) * 64 + Bit(h.adrAckReq) * 32 + Bit(h.ack) * 16 + Bit(h.fPending) * 8 + (len % 8)

Options(commands) ==
  LET upTo[n \in 0 .. Len(commands)] ==
        IF n = 0 THEN <<>> ELSE upTo[n - 1] \o Serialized(commands[n])
  IN  upTo[Len(commands)]

HeaderBytes(f) == <<MacHeader(f.fixed)>> \o AddressBytes(f.fixed.address)
            \o <<FCtrl(f.fixed, f.fOptsLen)>> \o WriteU16(f.fixed.fCnt)

\* AddCommand and the Add methods that make the command themselves.
AddCommand(c) ==
  /\ stage = "writing" /\ Len(frame.commands) < MaxCommands
  /\ c \in IF frame.isUplink THEN Uplinks ELSE Downlinks
  /\ frame' = [frame EXCEPT !.commands = Append(@, c),
                            !.fOptsLen = (@ + SerializedSize(c.cmd)) % 256]
  /\ UNCHANGED <<reader, wire, pos, byteNumber, stage>>

Serialize ==
  /\ stage = "writing"
  /\ wire' = HeaderBytes(frame) \o Options(frame.commands) \o <<frame.fixed.fPort>> \o Payload
  /\ stage' = "written"
  /\ UNCHANGED <<frame, reader, pos, byteNumber>>

-------------------------------------------------------------------------------
(* What is read back.                                                          *)

\* Both headers up to the options.  The port is not known yet.
Deserialize(isUplink) ==
  /\ stage = "written"
  /\ LET fCtl == wire[6]
     IN  reader' = [fixed |-> [mtype |-> wire[1] \div 32, major |-> wire[1] % 4,
                               address |-> AddressOf(SubSeq(wire, 2, 5)),
                               adr |-> IsSet(fCtl, 6), adrAckReq |-> IsSet(fCtl, 5),
                               ack |-> IsSet(fCtl, 4), fPending |-> IsSet(fCtl, 3),
                               fCnt |-> ReadU16(wire[7], wire[8]), fPort |-> 0],
                    fOptsLen |-> fCtl % 8, commands |-> <<>>, isUplink |-> isUplink]
  /\ pos' = 8
  /\ stage' = "reading"
  /\ UNCHANGED <<frame, wire, byteNumber>>

\* A reader that called SetAsUplink or SetAsDownlink first.
DeserializeInformed == Deserialize(frame.isUplink)

\* A reader that did not: the retransmission of DoSend, GetEndDeviceStatus.
DeserializeUninformed == \E b \in BOOLEAN : Deserialize(b)

\* The command an identifier announces; the two directions share identifiers,
\* and a downlink has none of 10.
Announced(cid, isUplink) ==
  IF isUplink
  THEN CASE cid = 2 -> "LinkCheckReq" [] cid = 3 -> "LinkAdrAns" [] cid = 4 -> "DutyCycleAns"
         [] cid = 5 -> "RxParamSetupAns" [] cid = 6 -> "DevStatusAns" [] cid = 7 -> "NewChannelAns"
         [] cid = 8 -> "RxTimingSetupAns" [] cid = 9 -> "TxParamSetupAns"
         [] cid = 10 -> "DlChannelAns" [] OTHER -> "none"
  ELSE CASE cid = 2 -> "LinkCheckAns" [] cid = 3 -> "LinkAdrReq" [] cid = 4 -> "DutyCycleReq"
         [] cid = 5 -> "RxParamSetupReq" [] cid = 6 -> "DevStatusReq" [] cid = 7 -> "NewChannelReq"
         [] cid = 8 -> "RxTimingSetupReq" [] cid = 9 -> "TxParamSetupReq" [] OTHER -> "none"

Deserialized(cmd, b) ==
  CASE cmd = "LinkCheckAns" -> ReadLinkCheckAns(b)
    [] cmd = "LinkAdrReq" -> ReadLinkAdrReq(b)
    [] cmd = "LinkAdrAns" -> ReadLinkAdrAns(b)
    [] cmd = "DutyCycleReq" -> ReadDutyCycleReq(b)
    [] cmd = "RxParamSetupReq" -> ReadRxParamSetupReq(b)
    [] cmd = "RxParamSetupAns" -> ReadRxParamSetupAns(b)
    [] cmd = "DevStatusAns" -> ReadDevStatusAns(b)
    [] cmd = "NewChannelReq" -> ReadNewChannelReq(b)
    [] cmd = "NewChannelAns" -> ReadNewChannelAns(b)
    [] cmd = "RxTimingSetupReq" -> ReadRxTimingSetupReq(b)
    [] OTHER -> [cmd |-> cmd]

\* One turn of the loop over the options.  An unknown identifier consumes
\* nothing, so the loop meets it again for ever; past the end ns-3 asserts.
ReadCommand ==
  /\ stage = "reading" /\ byteNumber < reader.fOptsLen
  /\ LET rest == SubSeq(wire, pos + 1, Len(wire))
         cmd == IF rest = <<>> THEN "beyond" ELSE Announced(rest[1], reader.isUplink)
         size == SerializedSize(cmd)
     IN  \/ /\ cmd = "none"
            /\ stage' = "endless"
            /\ UNCHANGED <<reader, pos, byteNumber>>
         \/ /\ cmd # "none" /\ (size > Len(rest) \/ cmd = "beyond")
            /\ stage' = "aborted"
            /\ UNCHANGED <<reader, pos, byteNumber>>
         \/ /\ cmd \notin {"none", "beyond"} /\ size <= Len(rest)
            /\ reader' = [reader EXCEPT !.commands = Append(@, Deserialized(cmd, rest))]
            /\ pos' = pos + size
            /\ byteNumber' = byteNumber + size
            /\ UNCHANGED stage
  /\ UNCHANGED <<frame, wire>>

\* The port, which is the last field.
ReadFPort ==
  /\ stage = "reading" /\ byteNumber >= reader.fOptsLen
  /\ IF pos < Len(wire)
     THEN /\ reader' = [reader EXCEPT !.fixed.fPort = wire[pos + 1]]
          /\ pos' = pos + 1
          /\ stage' = "done"
     ELSE /\ stage' = "aborted"
          /\ UNCHANGED <<reader, pos>>
  /\ UNCHANGED <<frame, wire, byteNumber>>

FrameInit ==
  /\ \E h \in Headers :
       frame = [fixed |-> h, fOptsLen |-> 0, commands |-> <<>>, isUplink |-> IsUplink(h.mtype)]
  /\ reader = frame
  /\ wire = <<>>
  /\ pos = 0
  /\ byteNumber = 0
  /\ stage = "writing"

FrameNext ==
  \/ \E c \in Commands : AddCommand(c)
  \/ Serialize
  \/ DeserializeInformed
  \/ DeserializeUninformed
  \/ ReadCommand
  \/ ReadFPort

FrameSpec == FrameInit /\ [][FrameNext]_frameVars

-------------------------------------------------------------------------------
(* Properties.                                                                 *)

\* A command whose values fit the bits they are written in, and whose class
\* writes an identifier and bytes that its counterpart reads.
Readable(c) ==
  /\ c.cmd \notin {"RxTimingSetupAns", "TxParamSetupAns", "TxParamSetupReq", "DlChannelAns"}
  /\ c.cmd = "LinkAdrReq" =>
       c.dataRate < 16 /\ c.txPower < 16 /\ c.chMaskCntl < 16 /\ c.nbRep < 16
  /\ c.cmd = "RxParamSetupReq" =>
       /\ c.rx1DrOffset < 8 /\ c.rx2DataRate < 16
       /\ c.frequency % 100 = 0 /\ c.frequency < 100 * 2^24
  /\ c.cmd = "DevStatusAns" => c.margin < 64
  /\ c.cmd = "NewChannelReq" =>
       /\ c.minDataRate < 16 /\ c.maxDataRate < 16
       /\ c.frequency % 100 = 0 /\ c.frequency < 100 * 2^24
       /\ WriteFrequency(c.frequency)[1] = WriteFrequency(c.frequency)[2]
  /\ c.cmd = "RxTimingSetupReq" => c.delay < 16

AllReadable == \A i \in 1 .. Len(frame.commands) : Readable(frame.commands[i])

\* Fields that come before the options.
Leading(h) == <<h.mtype, h.major, h.address, h.adr, h.adrAckReq, h.ack, h.fPending, h.fCnt>>

\* What RemoveHeader leaves behind the headers: it counts 8 + m_fOptsLen.
LeftInPacket == SubSeq(wire, 10 + reader.fOptsLen, Len(wire))

\* The state has the type of the headers, and the cursor stays in the packet.
HeadersOK ==
  /\ frame \in Header /\ reader \in Header
  /\ wire \in Seq(Byte) /\ pos \in 0 .. Len(wire)
  /\ byteNumber \in Nat
  /\ stage \in {"writing", "written", "reading", "done", "endless", "aborted"}

\* Address, counter and flags do not depend on the options: every reader that
\* comes to an end has them as they were written, also one that was not told
\* the direction (NetworkStatus::GetEndDeviceStatus only wants the address).
LeadingFieldsSurvive ==
  stage \in {"reading", "done", "endless", "aborted"} => Leading(reader.fixed) = Leading(frame.fixed)

\* With options of up to seven bytes and commands that fit their fields, a
\* reader that knows the direction ends, and has the commands in their order,
\* the port and the payload: no command is cut off and none is read as another.
FrameReadsBack ==
  /\ AllReadable /\ frame.fOptsLen < 8 /\ reader.isUplink = frame.isUplink
  => /\ stage \notin {"endless", "aborted"}
     /\ stage = "done" => reader = frame /\ LeftInPacket = Payload

\* lora-frame-header.cc:69 gives FOpts 0 to 15 bytes.
FifteenBytesOfOptions ==
  stage = "done" /\ AllReadable /\ frame.fOptsLen <= 15 /\ reader.isUplink = frame.isUplink
  => reader.commands = frame.commands
===============================================================================
