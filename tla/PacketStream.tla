---------------------------- MODULE PacketStream ----------------------------
(***************************************************************************)
(* The tunnel connection as bytes: Connect reads the reply to its request    *)
(* with a single Read, then readLoop takes packets out of the stream with    *)
(* ReadPacket.  A Read returns what is left of one TLS record at most, and   *)
(* the gateway may put anything into one record: a part of a packet, several *)
(* packets, the reply together with the first packets.                      *)
(*                                                                         *)
(* A cell stands for the bytes that the code reads or compares together: a   *)
(* half of START_TUNNEL, a field of the header, a byte of the payload.  No    *)
(* cell of a payload looks like the magic.  TCP and TLS neither lose nor      *)
(* reorder cells.  The loop's contexts and the TUN device are in DataLoop.   *)
(***************************************************************************)
EXTENDS Naturals, Sequences, SequencesExt

CONSTANTS
  MaxFrames,   \* bound: frames the gateway sends
  MaxPayload,  \* bound: cells of a payload
  Width,       \* bits of the length field
  ReplyBuf     \* cells of the buffer for the reply

ASSUME StreamAssumption ==
  /\ MaxFrames \in Nat /\ MaxPayload \in Nat \ {0}
  /\ Width \in Nat /\ 2 ^ Width \in Nat
  /\ MaxPayload < 2 ^ Width
  /\ ReplyBuf \in Nat \ {0}

VARIABLES
  reply,     \* what the gateway answers to the tunnel request
  wire,      \* cells the gateway has sent
  read,      \* how many of them the client has read
  avail,     \* cells left of the record in the client's hands
  phase,     \* "reply", "packet", "ended"
  buf,       \* cells of the packet that is being read
  taken,     \* history: cells the Read of the reply returned
  received,  \* payloads given to tunWrite
  end,       \* how it ended: "none" before
  sent,      \* history: frames the gateway has sent
  payloads,  \* history: those of them that readLoop should see, as payloads
  bounds     \* history: cells and payloads sent before each frame, and up to now

history == <<sent, payloads, bounds>>

vars == <<reply, wire, read, avail, phase, buf, taken, received, end, history>>

-----------------------------------------------------------------------------
(* Packets and replies.                                                    *)

HeaderSize == 3
Magic == <<"magic">>

Start      == <<<<"text", "START_">>, <<"text", "TUNNEL">>>>
StatusLine == <<<<"text", "HTTP/1.1">>, <<"text", "403">>>>
Complaint  == <<<<"text", "invalid">>, <<"text", "authcookie">>>>
Other      == <<<<"text", "HTTP/1.1">>, <<"text", "502">>>>
Replies    == {Start, StatusLine, Complaint, Other}

IsAuthRejection(text) ==
  \/ Len(text) >= 2 /\ text[1] = StatusLine[1] /\ text[2] = StatusLine[2]
  \/ Complaint[2] \in Range(text)

Payload(version, id, n) == [k \in 1 .. n |-> <<"byte", version, id, k>>]

EtherType(payload) ==
  IF payload # <<>> /\ payload[1][2] = 6 THEN "IPv6" ELSE "IPv4"

Packet(type, payload) == [magic |-> Magic, type |-> type, payload |-> payload]

\* Mutant of EncodePacket: the length is that of the whole packet.
EncodePacketWhole(f) ==
  <<f.magic, <<"type", f.type>>, <<"length", (HeaderSize + Len(f.payload)) % 2 ^ Width>>>>
    \o f.payload

\* A keepalive is a packet of type "keepalive" without payload.
EncodePacket(f) ==
  <<f.magic, <<"type", f.type>>, <<"length", Len(f.payload) % 2 ^ Width>>>> \o f.payload

\* What the gateway may send as its id-th frame: data, a keepalive, a frame with
\* a type the client does not know, and one that is no packet.
Frames(id) ==
  {Packet(EtherType(p), p) : p \in {Payload(v, id, n) : v \in {4, 6}, n \in 0 .. MaxPayload}}
  \cup {Packet("keepalive", <<>>), Packet("unknown", Payload(4, id, 1)),
        [Packet("IPv4", <<>>) EXCEPT !.magic = <<"garbage">>]}

\* A frame with something for the TUN device.
IsDataFrame(f) == f.magic = Magic /\ f.type \in {"IPv4", "IPv6"} /\ f.payload # <<>>

-----------------------------------------------------------------------------
Init ==
  /\ reply \in Replies
  /\ wire = reply /\ read = 0 /\ avail = 0
  /\ phase = "reply" /\ buf = <<>> /\ taken = 0
  /\ received = <<>> /\ end = "none"
  /\ sent = <<>> /\ payloads = <<>>
  /\ bounds = <<[cells |-> Len(reply), payloads |-> 0]>>

GatewaySends ==
  /\ Len(sent) < MaxFrames
  /\ reply = Start /\ phase # "ended"
  /\ \E f \in Frames(Len(sent) + 1) :
       /\ wire' = wire \o EncodePacket(f)
       /\ sent' = Append(sent, f)
       /\ payloads' = IF IsDataFrame(f) THEN Append(payloads, f.payload) ELSE payloads
       /\ bounds' = Append(bounds, [cells |-> Len(wire'), payloads |-> Len(payloads')])
  /\ UNCHANGED <<reply, read, avail, phase, buf, taken, received, end>>

\* The next record of the gateway arrives.
RecordArrives ==
  /\ phase # "ended"
  /\ avail = 0
  /\ avail' \in 1 .. Len(wire) - read
  /\ UNCHANGED <<reply, wire, read, phase, buf, taken, received, end, history>>

\* conn.Read with a buffer of n cells, more than none being there.
ReadN(n) ==
  LET got == IF avail < n THEN avail ELSE n
  IN  /\ avail > 0
      /\ read' = read + got
      /\ avail' = avail - got

\* Mutant of Got: the rest of the record, however small the buffer is.
GotRecord(n) == SubSeq(wire, read + 1, read + avail)

Got(n) == SubSeq(wire, read + 1, read + IF avail < n THEN avail ELSE n)

EndWith(e) == phase' = "ended" /\ end' = e

Connected(text) == Len(text) >= Len(Start) /\ SubSeq(text, 1, Len(Start)) = Start

\* The reply is what one Read returns.
ReadReply ==
  /\ phase = "reply"
  /\ ReadN(ReplyBuf)
  /\ LET text == Got(ReplyBuf)
     IN  /\ taken' = Len(text)
         /\ IF Connected(text)
              THEN phase' = "packet" /\ UNCHANGED end
              ELSE EndWith(IF IsAuthRejection(text) THEN "rejected" ELSE "unexpected")
  /\ UNCHANGED <<reply, wire, buf, received, history>>

-----------------------------------------------------------------------------
(* ReadPacket and readLoop.                                                *)

Header == Len(buf) >= HeaderSize
Length == buf[3][2]

IsData(type) == type \in {"IPv4", "IPv6"}

\* Mutant of Missing: of the payload as much as one Read returns.
MissingOneRead ==
  IF ~Header THEN HeaderSize - Len(buf)
  ELSE IF Len(buf) = HeaderSize THEN Length ELSE 0

\* Mutant of Missing: the payload of a packet to be skipped is not read.
MissingSkipped ==
  IF ~Header THEN HeaderSize - Len(buf)
  ELSE IF IsData(buf[2][2]) THEN HeaderSize + Length - Len(buf) ELSE 0

\* Cells io.ReadFull still waits for.
Missing == IF Header THEN HeaderSize + Length - Len(buf) ELSE HeaderSize - Len(buf)

MagicOK == Header => buf[1] = Magic

ReadCells ==
  /\ phase = "packet" /\ MagicOK
  /\ Missing > 0
  /\ ReadN(Missing)
  /\ buf' = buf \o Got(Missing)
  /\ UNCHANGED <<reply, wire, phase, taken, received, end, history>>

BadMagic ==
  /\ phase = "packet" /\ ~MagicOK
  /\ EndWith("badMagic")
  /\ UNCHANGED <<reply, wire, read, avail, buf, taken, received, history>>

\* The packet is complete: it is written to the TUN device or skipped.
PacketRead ==
  /\ phase = "packet" /\ Header /\ MagicOK
  /\ Missing = 0
  /\ received' = IF IsData(buf[2][2]) /\ Length > 0
                   THEN Append(received, SubSeq(buf, HeaderSize + 1, Len(buf)))
                   ELSE received
  /\ buf' = <<>>
  /\ UNCHANGED <<reply, wire, read, avail, phase, taken, end, history>>

\* The gateway closes the connection, or the deadline of the packet passes
\* (tunnel.go:343), in its middle too; the reply has no deadline.
ReadFails ==
  /\ phase # "ended" /\ avail = 0
  /\ EndWith("read")
  /\ UNCHANGED <<reply, wire, read, avail, buf, taken, received, history>>

Ended == phase = "ended" /\ UNCHANGED vars

Waiting == phase # "ended" /\ read = Len(wire) /\ UNCHANGED vars

Next ==
  \/ GatewaySends \/ RecordArrives \/ ReadReply \/ ReadCells \/ BadMagic
  \/ PacketRead \/ ReadFails \/ Ended \/ Waiting

Spec == Init /\ [][Next]_vars

\* What is sent arrives, and the client goes on reading.
FairSpec ==
  Spec /\ WF_vars(RecordArrives) /\ WF_vars(ReadReply \/ ReadCells \/ BadMagic \/ PacketRead)

-----------------------------------------------------------------------------
(* Properties.                                                             *)

\* Every variable keeps its type.
TypeOK ==
  /\ reply \in Replies
  /\ Len(sent) <= MaxFrames /\ \A i \in DOMAIN sent : sent[i] \in Frames(i)
  /\ read \in 0 .. Len(wire) /\ avail \in 0 .. Len(wire) - read
  /\ phase \in {"reply", "packet", "ended"}
  /\ Len(buf) <= HeaderSize + MaxPayload
  /\ taken \in 0 .. ReplyBuf
  /\ end \in {"none", "rejected", "unexpected", "badMagic", "read"}
  /\ end # "none" <=> phase = "ended"

\* If the Read of the reply returned the reply and no more, no frame is missed.
\* What came in the same record is (tunnel.go:127).
MissedOnlyWithReply ==
  taken = Len(Start) =>
    /\ Len(received) <= Len(payloads)
    /\ \A k \in DOMAIN received : received[k] = payloads[k]

\* The Read of the reply has stopped where a frame ends.
TakenWhole == \E i \in DOMAIN bounds : bounds[i].cells = taken

\* The client loses track of the packets only when the gateway has sent garbage,
\* or when the Read of the reply has taken the beginning of a packet.
BadMagicHasCause ==
  end = "badMagic" => ~TakenWhole \/ \E i \in DOMAIN sent : sent[i].magic # Magic

\* Whatever the client misses or takes for garbage, it has a cause.
LossHasCause == MissedOnlyWithReply /\ BadMagicHasCause

\* The client does not wait for cells that are not to come: if the Read of the
\* reply took no part of a packet, there is no incomplete one once everything
\* has arrived.
StreamDrains ==
  phase = "packet" /\ TakenWhole ~> phase = "ended" \/ (read = Len(wire) /\ buf = <<>>)

\* The first frame that begins where the packet of the client begins, or behind;
\* or the next one.
NextFrame ==
  CHOOSE i \in DOMAIN bounds :
    /\ bounds[i].cells >= read - Len(buf)
    /\ \A j \in 1 .. i - 1 : bounds[j].cells < read - Len(buf)

\* What FrameChannel's constant and variables stand for.
AllPayloads ==
  UNION {{Payload(v, id, n) : v \in {4, 6}, n \in 1 .. MaxPayload} : id \in 1 .. MaxFrames}

Pending == SubSeq(payloads, bounds[NextFrame].payloads + 1, Len(payloads))

State == IF phase = "reply" THEN "opening" ELSE IF phase = "packet" THEN "open" ELSE "ended"

Channel == INSTANCE FrameChannel WITH
  Payloads <- AllPayloads, pending <- Pending, received <- received, state <- State

\* The stream implements FrameChannel.
ChannelSpec == Channel!Spec
=============================================================================
