-------------------------- MODULE PacketStreamProofs --------------------------
(***************************************************************************)
(* Proofs about PacketStream, for frames and payloads of any number and      *)
(* length, cut into records in any way, and any size of the buffer for the  *)
(* reply.                                                                  *)
(*                                                                         *)
(* Two facts carry them.  The wire is the reply and the frames, without gaps *)
(* (WireInv), so that a cell that looks like the magic begins a frame.  And  *)
(* the packet in the client's hands begins where a frame begins, in step     *)
(* with what was received, unless the Read of the reply stopped within a     *)
(* frame: then nothing was received and nothing will be (ClientInv).         *)
(***************************************************************************)
EXTENDS PacketStream, LoopTheorems, SequenceTheorems

-----------------------------------------------------------------------------
(* What the invariants rest on.                                            *)

Types == {"IPv4", "IPv6", "keepalive", "unknown"}

AnyByte == {<<"byte", v, id, k>> : v \in {4, 6}, id \in Nat, k \in Nat}

AnyCell == {Magic, <<"garbage">>} \cup {<<"type", t>> : t \in Types}
             \cup {<<"length", n>> : n \in Nat} \cup AnyByte
             \cup {r[i] : r \in Replies, i \in {1, 2}}

AnyFrame == UNION {Frames(id) : id \in 1 .. MaxFrames}

Bound == [cells : Nat, payloads : Nat]

\* The frame f is among the cells w, from b to c, and among the payloads ps.
FrameAt(f, w, ps, b, c) ==
  /\ w[b.cells + 1] = f.magic
  /\ w[b.cells + 2] = <<"type", f.type>>
  /\ w[b.cells + 3] = <<"length", Len(f.payload)>>
  /\ \A k \in 1 .. Len(f.payload) : w[b.cells + 3 + k] = f.payload[k]
  /\ c.cells = b.cells + 3 + Len(f.payload)
  /\ ~IsDataFrame(f) => c.payloads = b.payloads
  /\ IsDataFrame(f) => c.payloads = b.payloads + 1 /\ ps[b.payloads + 1] = f.payload

FrameOnWire(i) == FrameAt(sent[i], wire, payloads, bounds[i], bounds[i + 1])

WireTypes ==
  /\ reply \in Replies
  /\ wire \in Seq(AnyCell)
  /\ sent \in Seq(AnyFrame) /\ Len(sent) <= MaxFrames
  /\ \A i \in 1 .. Len(sent) : sent[i] \in Frames(i)
  /\ payloads \in Seq(Seq(AnyByte))
  /\ bounds \in Seq(Bound) /\ Len(bounds) = Len(sent) + 1

\* The bounds begin behind the reply, ascend and end where the wire ends.
BoundsInOrder ==
  /\ bounds[1].cells = 2 /\ bounds[1].payloads = 0
  /\ Len(wire) = bounds[Len(bounds)].cells
  /\ Len(payloads) = bounds[Len(bounds)].payloads
  /\ \A j \in 1 .. Len(bounds) : \A i \in 1 .. j - 1 :
       bounds[i].cells < bounds[j].cells /\ bounds[i].payloads <= bounds[j].payloads

\* Behind the reply, every cell is one of a frame.
WireCovered ==
  \A p \in 3 .. Len(wire) : \E i \in 1 .. Len(sent) :
    bounds[i].cells < p /\ p <= bounds[i + 1].cells

WireInv ==
  /\ WireTypes
  /\ \A k \in {1, 2} : wire[k] = reply[k]
  /\ sent # <<>> => reply = Start
  /\ \A i \in 1 .. Len(sent) : FrameOnWire(i)
  /\ BoundsInOrder
  /\ WireCovered

\* Where the packet in the client's hands begins.
PacketStart == read - Len(buf)

ClientTypes ==
  /\ read \in 0 .. Len(wire) /\ avail \in 0 .. Len(wire) - read
  /\ phase \in {"reply", "packet", "ended"}
  /\ end \in {"none", "rejected", "unexpected", "badMagic", "read"}
  /\ end # "none" <=> phase = "ended"
  /\ taken \in 0 .. ReplyBuf
  /\ buf \in Seq(AnyCell) /\ Len(buf) <= read
  /\ received \in Seq(Seq(AnyByte))
  /\ phase = "reply" => read = 0 /\ taken = 0

\* What is in the buffer was on the wire, and is of one packet at most.
BufferInv ==
  /\ \A k \in 1 .. Len(buf) : buf[k] = wire[PacketStart + k]
  /\ Len(buf) <= 3 \/ (buf[1] = Magic /\ Len(buf) <= 3 + Length)

\* The Read of the reply has stopped before the j-th frame, the client has got as
\* far as the i-th, and what is between is received.
InStep(j, i) ==
  /\ bounds[j].cells = taken /\ bounds[i].cells = PacketStart
  /\ Len(received) = bounds[i].payloads - bounds[j].payloads
  /\ \A k \in 1 .. Len(received) : received[k] = payloads[bounds[j].payloads + k]

\* The Read of the reply has stopped within a frame, and the client is still there.
Astray == ~TakenWhole /\ received = <<>> /\ PacketStart = taken

\* The reply was not read, or was not the one wanted; in which case it is all that
\* there is, unless it was read in parts.
Unopened ==
  /\ phase # "packet" /\ end # "badMagic"
  /\ buf = <<>> /\ received = <<>> /\ read <= 2

Opened ==
  /\ phase # "reply"
  /\ 2 <= taken /\ taken <= PacketStart
  /\ BufferInv
  /\ Astray \/ \E i \in 1 .. Len(bounds) : \E j \in 1 .. i : InStep(j, i)
  /\ end = "badMagic" => Len(buf) >= 3 /\ buf[1] # Magic

ClientInv == ClientTypes /\ (Unopened \/ Opened)

-----------------------------------------------------------------------------
(* Frames and cells.                                                       *)

\* The cells of a sequence are on their own.
LEMMA CellFacts ==
  /\ Magic \in AnyCell /\ <<"garbage">> \in AnyCell
  /\ \A t \in Types : <<"type", t>> \in AnyCell /\ <<"type", t>> # Magic
  /\ \A n \in Nat : <<"length", n>> \in AnyCell /\ <<"length", n>> # Magic
  /\ \A c \in AnyByte : c \in AnyCell /\ c # Magic
  /\ <<"garbage">> # Magic
<1>1. /\ Magic \in AnyCell /\ <<"garbage">> \in AnyCell
      /\ \A t \in Types : <<"type", t>> \in AnyCell
      /\ \A n \in Nat : <<"length", n>> \in AnyCell
      /\ \A c \in AnyByte : c \in AnyCell
  <2>1. Magic \in AnyCell /\ <<"garbage">> \in AnyCell
    BY DEF AnyCell
  <2>2. ASSUME NEW t \in Types PROVE <<"type", t>> \in AnyCell
    BY DEF AnyCell
  <2>3. ASSUME NEW n \in Nat PROVE <<"length", n>> \in AnyCell
    BY DEF AnyCell
  <2>4. \A c \in AnyByte : c \in AnyCell
    BY DEF AnyCell
  <2> QED BY <2>1, <2>2, <2>3, <2>4
<1>2. Magic[1] = "magic"
  BY DEF Magic
<1>3. /\ \A t \in Types : <<"type", t>>[1] = "type"
      /\ \A n \in Nat : <<"length", n>>[1] = "length"
      /\ <<"garbage">>[1] = "garbage"
  OBVIOUS
<1>4. \A c \in AnyByte : c[1] = "byte"
  BY DEF AnyByte
<1>5. /\ \A t \in Types : <<"type", t>> # Magic
      /\ \A n \in Nat : <<"length", n>> # Magic
      /\ \A c \in AnyByte : c # Magic
      /\ <<"garbage">> # Magic
  BY <1>2, <1>3, <1>4
<1> QED BY <1>1, <1>5

\* Every reply is two cells long.
LEMMA ReplyCells ==
  ASSUME NEW r \in Replies
  PROVE  r \in Seq(AnyCell) /\ Len(r) = 2
<1>1. ASSUME NEW i \in {1, 2} PROVE r[i] \in AnyCell
  BY DEF AnyCell
<1>2. r = <<r[1], r[2]>>
  BY DEF Replies, Start, StatusLine, Complaint, Other
<1>3. <<r[1], r[2]>> \in Seq(AnyCell) /\ Len(<<r[1], r[2]>>) = 2
  <2>1. r[1] \in AnyCell /\ r[2] \in AnyCell
    BY <1>1
  <2> QED BY <2>1
<1> QED BY <1>2, <1>3

\* A payload is a sequence of bytes.
LEMMA PayloadCells ==
  ASSUME NEW v \in {4, 6}, NEW id \in Nat, NEW n \in Nat
  PROVE  Payload(v, id, n) \in Seq(AnyByte) /\ Len(Payload(v, id, n)) = n
<1> DEFINE p == Payload(v, id, n)
<1>1. \A k \in 1 .. n : <<"byte", v, id, k>> \in AnyByte
  BY DEF AnyByte
<1>2. p \in [1 .. n -> AnyByte]
  BY <1>1 DEF Payload
<1> HIDE DEF p
<1>3. p \in Seq(AnyByte) /\ Len(p) = n
  BY <1>2
<1> QED BY <1>3 DEF p

\* What the gateway may send as a frame.
LEMMA FrameFacts ==
  ASSUME NEW id \in 1 .. MaxFrames, NEW f \in Frames(id)
  PROVE  /\ f.magic \in {Magic, <<"garbage">>}
         /\ f.type \in Types
         /\ f.payload \in Seq(AnyByte)
         /\ Len(f.payload) \in 0 .. MaxPayload
         /\ IsDataFrame(f) =>
              \E v \in {4, 6}, n \in 1 .. MaxPayload : f.payload = Payload(v, id, n)
<1>1. id \in Nat /\ 1 \in Nat /\ MaxPayload \in Nat /\ 1 <= MaxPayload
  BY StreamAssumption
<1>2. <<>> \in Seq(AnyByte) /\ Len(<<>>) = 0
  BY EmptySeq
<1>3. ASSUME NEW v \in {4, 6}, NEW n \in 0 .. MaxPayload,
             f = Packet(EtherType(Payload(v, id, n)), Payload(v, id, n))
      PROVE  /\ f.magic = Magic /\ f.type \in Types /\ f.payload = Payload(v, id, n)
             /\ f.payload \in Seq(AnyByte) /\ Len(f.payload) = n
             /\ f.payload # <<>> => n # 0
  <2>1. EtherType(Payload(v, id, n)) \in Types
    BY DEF EtherType, Types
  <2>2. n \in Nat
    BY <1>1
  <2>3. Payload(v, id, n) \in Seq(AnyByte) /\ Len(Payload(v, id, n)) = n
    BY <1>1, <2>2, PayloadCells
  <2>4. f.magic = Magic /\ f.type = EtherType(Payload(v, id, n)) /\ f.payload = Payload(v, id, n)
    BY <1>3 DEF Packet
  <2>5. Payload(v, id, n) # <<>> => n # 0
    BY <2>3, EmptySeq
  <2> QED BY <2>1, <2>3, <2>4, <2>5
<1>4. ASSUME f = Packet("keepalive", <<>>)
      PROVE  f.magic = Magic /\ f.type \in Types /\ f.payload = <<>>
  BY <1>4 DEF Packet, Types
<1>5. ASSUME f = Packet("unknown", Payload(4, id, 1))
      PROVE  /\ f.magic = Magic /\ f.type = "unknown" /\ f.type \in Types
             /\ f.payload \in Seq(AnyByte) /\ Len(f.payload) = 1
  <2>1. Payload(4, id, 1) \in Seq(AnyByte) /\ Len(Payload(4, id, 1)) = 1
    BY <1>1, PayloadCells
  <2> QED BY <1>5, <2>1 DEF Packet, Types
<1>6. ASSUME f = [Packet("IPv4", <<>>) EXCEPT !.magic = <<"garbage">>]
      PROVE  f.magic = <<"garbage">> /\ f.type \in Types /\ f.payload = <<>>
  BY <1>6 DEF Packet, Types
<1>7. \/ \E v \in {4, 6}, n \in 0 .. MaxPayload :
           f = Packet(EtherType(Payload(v, id, n)), Payload(v, id, n))
      \/ f = Packet("keepalive", <<>>)
      \/ f = Packet("unknown", Payload(4, id, 1))
      \/ f = [Packet("IPv4", <<>>) EXCEPT !.magic = <<"garbage">>]
  <2> DEFINE P == {Payload(v, id, n) : v \in {4, 6}, n \in 0 .. MaxPayload}
             D == {Packet(EtherType(q), q) : q \in P}
  <2>1. \/ f \in D
        \/ f = Packet("keepalive", <<>>)
        \/ f = Packet("unknown", Payload(4, id, 1))
        \/ f = [Packet("IPv4", <<>>) EXCEPT !.magic = <<"garbage">>]
    BY DEF Frames
  <2>2. CASE f \in D
    <3>1. PICK q \in P : f = Packet(EtherType(q), q)
      BY <2>2
    <3>2. PICK v \in {4, 6}, n \in 0 .. MaxPayload : q = Payload(v, id, n)
      BY <3>1
    <3> QED BY <3>1, <3>2
  <2> QED BY <2>1, <2>2
<1>8. IsDataFrame(f) => f.type \in {"IPv4", "IPv6"} /\ f.payload # <<>>
  BY DEF IsDataFrame
<1>9. \A n \in 0 .. MaxPayload : n # 0 => n \in 1 .. MaxPayload
  BY <1>1
<1>10. CASE \E v \in {4, 6}, n \in 0 .. MaxPayload :
              f = Packet(EtherType(Payload(v, id, n)), Payload(v, id, n))
  <2>1. PICK v \in {4, 6}, n \in 0 .. MaxPayload :
          f = Packet(EtherType(Payload(v, id, n)), Payload(v, id, n))
    BY <1>10
  <2>2. /\ f.magic = Magic /\ f.type \in Types /\ f.payload = Payload(v, id, n)
        /\ f.payload \in Seq(AnyByte) /\ Len(f.payload) = n
        /\ f.payload # <<>> => n # 0
    BY <1>3, <2>1
  <2>3. f.payload # <<>> => n \in 1 .. MaxPayload
    BY <1>9, <2>2
  <2> QED BY <1>8, <2>2, <2>3, Zenon
<1>11. CASE f = Packet("keepalive", <<>>) \/ f = [Packet("IPv4", <<>>) EXCEPT !.magic = <<"garbage">>]
  <2>1. f.magic \in {Magic, <<"garbage">>} /\ f.type \in Types /\ f.payload = <<>>
    BY <1>4, <1>6, <1>11
  <2>2. 0 \in 0 .. MaxPayload
    BY <1>1
  <2> QED BY <1>2, <1>8, <2>1, <2>2
<1>12. CASE f = Packet("unknown", Payload(4, id, 1))
  <2>1. 1 \in 0 .. MaxPayload
    BY <1>1
  <2>2. f.type \notin {"IPv4", "IPv6"}
    BY <1>5, <1>12
  <2> QED BY <1>5, <1>8, <1>12, <2>1, <2>2
<1> QED BY <1>7, <1>10, <1>11, <1>12

\* The length of a payload fits its field.
LEMMA SmallModulo ==
  ASSUME NEW n \in Nat, NEW w \in Nat, n < w
  PROVE  n % w = n
  OBVIOUS

\* A frame is encoded as its header, with the length of the payload, and the payload.
LEMMA EncodeFacts ==
  ASSUME NEW id \in 1 .. MaxFrames, NEW f \in Frames(id)
  PROVE  LET e == EncodePacket(f)
         IN  /\ e \in Seq(AnyCell) /\ Len(e) = 3 + Len(f.payload)
             /\ e[1] = f.magic /\ e[2] = <<"type", f.type>>
             /\ e[3] = <<"length", Len(f.payload)>>
             /\ \A k \in 1 .. Len(f.payload) : e[3 + k] = f.payload[k]
<1> DEFINE p == f.payload
           n == Len(p)
           a == f.magic
           b == <<"type", f.type>>
           c == <<"length", n>>
           h == <<a, b, c>>
<1>1. /\ a \in {Magic, <<"garbage">>} /\ f.type \in Types
      /\ p \in Seq(AnyByte) /\ n \in 0 .. MaxPayload
  BY FrameFacts
<1>2. n % 2 ^ Width = n
  <2>1. 2 ^ Width \in Nat /\ n \in Nat /\ n < 2 ^ Width
    BY <1>1, StreamAssumption
  <2> QED BY <2>1, SmallModulo
<1>3. EncodePacket(f) = h \o p
  BY <1>2 DEF EncodePacket
<1>4. a \in AnyCell /\ b \in AnyCell /\ c \in AnyCell
  BY <1>1, CellFacts
<1>5. p \in Seq(AnyCell)
  <2>1. AnyByte \subseteq AnyCell
    BY CellFacts
  <2> QED BY <1>1, <2>1, SeqMonotonic
<1>6. n \in Nat
  BY <1>1, StreamAssumption
<1> HIDE DEF a, b, c, p, n
<1>7. h \in Seq(AnyCell) /\ Len(h) = 3 /\ h[1] = a /\ h[2] = b /\ h[3] = c
  BY <1>4
<1> HIDE DEF h
<1> DEFINE e == h \o p
<1>8. /\ e \in Seq(AnyCell) /\ Len(e) = Len(h) + Len(p)
      /\ \A i \in 1 .. Len(h) + Len(p) : e[i] = IF i <= Len(h) THEN h[i] ELSE p[i - Len(h)]
  BY <1>5, <1>7, ConcatProperties
<1> HIDE DEF e
<1>9. /\ Len(e) = 3 + n
      /\ \A i \in 1 .. 3 + n : e[i] = IF i <= 3 THEN h[i] ELSE p[i - 3]
  BY <1>7, <1>8 DEF n
<1>10. e[1] = a /\ e[2] = b /\ e[3] = c
  <2>1. 1 \in 1 .. 3 + n /\ 2 \in 1 .. 3 + n /\ 3 \in 1 .. 3 + n
    BY <1>6
  <2> QED BY <1>7, <1>9, <2>1
<1>11. ASSUME NEW k \in 1 .. n PROVE e[3 + k] = p[k]
  <2>1. 3 + k \in 1 .. 3 + n /\ ~(3 + k <= 3) /\ 3 + k - 3 = k
    BY <1>6
  <2> QED BY <1>9, <2>1
<1>12. EncodePacket(f) = e
  BY <1>3 DEF e
<1>13. e \in Seq(AnyCell) /\ Len(e) = 3 + n
  BY <1>8, <1>9
<1>14. \A k \in 1 .. n : e[3 + k] = p[k]
  BY <1>11
<1> QED BY ONLY <1>10, <1>12, <1>13, <1>14, Zenon DEF a, b, c, n, p

\* Before the first frame.
LEMMA InitWire ==
  ASSUME Init
  PROVE  WireInv
<1>1. reply \in Replies /\ wire = reply /\ sent = <<>> /\ payloads = <<>>
  BY DEF Init
<1>2. wire \in Seq(AnyCell) /\ Len(wire) = 2
  BY <1>1, ReplyCells
<1>3. /\ Len(sent) = 0 /\ sent \in Seq(AnyFrame) /\ 1 .. Len(sent) = {}
      /\ payloads \in Seq(Seq(AnyByte)) /\ Len(payloads) = 0
  BY <1>1
<1> DEFINE b == [cells |-> 2, payloads |-> 0]
<1>4. bounds = <<b>>
  BY <1>1, <1>2 DEF Init
<1>5. b \in Bound /\ b.cells = 2 /\ b.payloads = 0
  BY DEF Bound
<1> HIDE DEF b
<1>6. bounds \in Seq(Bound) /\ Len(bounds) = 1 /\ bounds[1] = b
  BY <1>4, <1>5
<1>7. WireTypes
  BY <1>1, <1>2, <1>3, <1>6, StreamAssumption DEF WireTypes
<1>8. BoundsInOrder
  BY <1>2, <1>3, <1>5, <1>6 DEF BoundsInOrder
<1>9. WireCovered
  BY <1>2 DEF WireCovered
<1> QED BY <1>1, <1>3, <1>7, <1>8, <1>9 DEF WireInv

\* The bounds are places on the wire.
LEMMA BoundFacts ==
  ASSUME WireTypes, BoundsInOrder
  PROVE  /\ Len(sent) \in Nat /\ Len(wire) \in Nat /\ Len(payloads) \in Nat
         /\ Len(bounds) = Len(sent) + 1
         /\ \A i \in 1 .. Len(sent) + 1 :
              /\ bounds[i] \in Bound
              /\ bounds[i].cells \in Nat /\ bounds[i].payloads \in Nat
              /\ bounds[i].cells <= Len(wire) /\ bounds[i].payloads <= Len(payloads)
<1> DEFINE n  == Len(sent)
           at == Len(wire)
<1>1. /\ sent \in Seq(AnyFrame) /\ wire \in Seq(AnyCell) /\ payloads \in Seq(Seq(AnyByte))
      /\ bounds \in Seq(Bound) /\ Len(bounds) = n + 1
  BY DEF WireTypes
<1>2. n \in Nat /\ at \in Nat /\ Len(payloads) \in Nat
  BY <1>1, LenProperties
<1>3. \A i \in 1 .. n + 1 : bounds[i] \in Bound
  BY <1>1, ElementOfSeq
<1>4. ASSUME NEW i \in 1 .. n + 1
      PROVE  /\ bounds[i].cells \in Nat /\ bounds[i].payloads \in Nat
             /\ bounds[i].cells <= at /\ bounds[i].payloads <= Len(payloads)
  <2>1. bounds[i].cells \in Nat /\ bounds[i].payloads \in Nat
    BY <1>3 DEF Bound
  <2>2. at = bounds[n + 1].cells /\ Len(payloads) = bounds[n + 1].payloads
    BY <1>1 DEF BoundsInOrder
  <2>3. CASE i = n + 1
    BY <2>1, <2>2, <2>3
  <2>4. CASE i # n + 1
    <3>1. n + 1 \in 1 .. Len(bounds) /\ i \in 1 .. (n + 1) - 1
      BY <1>1, <1>2, <2>4
    <3>2. bounds[i].cells < bounds[n + 1].cells /\ bounds[i].payloads <= bounds[n + 1].payloads
      BY <3>1 DEF BoundsInOrder
    <3> QED BY <1>2, <2>1, <2>2, <3>2
  <2> QED BY <2>3, <2>4
<1> QED BY <1>1, <1>2, <1>3, <1>4

-----------------------------------------------------------------------------
(* The gateway sends a frame.                                               *)

\* The cells of a frame behind the a cells that are there: where they end.
LEMMA Sums ==
  ASSUME NEW a \in Nat, NEW b \in Nat
  PROVE  /\ a + (3 + b) = a + 3 + b
         /\ \A c \in Nat : c <= a => c < a + 3 + b
  OBVIOUS

\* One more frame, behind what is there.
Extended(f) ==
  /\ sent' \in Seq(AnyFrame) /\ Len(sent') = Len(sent) + 1
  /\ \A i \in 1 .. Len(sent) : sent'[i] = sent[i]
  /\ sent'[Len(sent) + 1] = f
  /\ wire' \in Seq(AnyCell) /\ Len(wire') = Len(wire) + 3 + Len(f.payload)
  /\ \A i \in 1 .. Len(wire) : wire'[i] = wire[i]
  /\ wire'[Len(wire) + 1] = f.magic
  /\ wire'[Len(wire) + 2] = <<"type", f.type>>
  /\ wire'[Len(wire) + 3] = <<"length", Len(f.payload)>>
  /\ \A k \in 1 .. Len(f.payload) : wire'[Len(wire) + 3 + k] = f.payload[k]
  /\ payloads' \in Seq(Seq(AnyByte))
  /\ IF IsDataFrame(f)
       THEN Len(payloads') = Len(payloads) + 1 /\ payloads'[Len(payloads) + 1] = f.payload
       ELSE Len(payloads') = Len(payloads)
  /\ \A i \in 1 .. Len(payloads) : payloads'[i] = payloads[i]
  /\ bounds' \in Seq(Bound) /\ Len(bounds') = Len(bounds) + 1
  /\ \A i \in 1 .. Len(bounds) : bounds'[i] = bounds[i]
  /\ bounds'[Len(bounds) + 1].cells = Len(wire')
  /\ bounds'[Len(bounds) + 1].payloads = Len(payloads')

\* What the gateway sends stands behind what it has sent: the history grows.
LEMMA SendExtends ==
  ASSUME WireInv, GatewaySends
  PROVE  \E f \in Frames(Len(sent) + 1) : Extended(f)
<1>1. PICK f \in Frames(Len(sent) + 1) :
        /\ wire' = wire \o EncodePacket(f)
        /\ sent' = Append(sent, f)
        /\ payloads' = IF IsDataFrame(f) THEN Append(payloads, f.payload) ELSE payloads
        /\ bounds' = Append(bounds, [cells |-> Len(wire'), payloads |-> Len(payloads')])
  BY DEF GatewaySends
<1>2. /\ sent \in Seq(AnyFrame) /\ wire \in Seq(AnyCell)
      /\ payloads \in Seq(Seq(AnyByte)) /\ bounds \in Seq(Bound)
  BY DEF WireInv, WireTypes
<1>3. Len(sent) + 1 \in 1 .. MaxFrames
  BY <1>2, LenProperties, StreamAssumption DEF GatewaySends
<1>4. f.payload \in Seq(AnyByte) /\ Len(f.payload) \in Nat
  <2>1. f.payload \in Seq(AnyByte)
    BY <1>3, FrameFacts
  <2> QED BY <2>1, LenProperties
<1>5. f \in AnyFrame
  BY <1>3 DEF AnyFrame
<1>6. /\ sent' \in Seq(AnyFrame) /\ Len(sent') = Len(sent) + 1
      /\ \A i \in 1 .. Len(sent) : sent'[i] = sent[i]
      /\ sent'[Len(sent) + 1] = f
  BY ONLY <1>1, <1>2, <1>5, AppendProperties
<1> DEFINE e == EncodePacket(f)
<1>7. /\ e \in Seq(AnyCell) /\ Len(e) = 3 + Len(f.payload)
      /\ e[1] = f.magic /\ e[2] = <<"type", f.type>>
      /\ e[3] = <<"length", Len(f.payload)>>
      /\ \A k \in 1 .. Len(f.payload) : e[3 + k] = f.payload[k]
  BY <1>3, EncodeFacts
<1>8. wire' = wire \o e
  BY <1>1
<1> HIDE DEF e
<1>9. /\ wire' \in Seq(AnyCell) /\ Len(wire') = Len(wire) + Len(e)
      /\ \A i \in 1 .. Len(wire) + Len(e) : wire'[i] = IF i <= Len(wire) THEN wire[i]
                                                       ELSE e[i - Len(wire)]
  <2>1. wire \in Seq(AnyCell) /\ e \in Seq(AnyCell)
    BY <1>2, <1>7
  <2> DEFINE w == wire \o e
  <2>2. /\ w \in Seq(AnyCell) /\ Len(w) = Len(wire) + Len(e)
        /\ \A i \in 1 .. Len(wire) + Len(e) : w[i] = IF i <= Len(wire) THEN wire[i]
                                                   ELSE e[i - Len(wire)]
    BY ONLY <2>1, ConcatProperties
  <2> HIDE DEF w
  <2>3. wire' = w
    BY <1>8 DEF w
  <2> QED BY ONLY <2>2, <2>3
<1>10. Len(wire) \in Nat
  BY <1>2, LenProperties
<1>11. \A i \in 1 .. Len(wire) : wire'[i] = wire[i]
  BY ONLY <1>4, <1>7, <1>9, <1>10
<1>12. \A i \in 1 .. Len(e) : wire'[Len(wire) + i] = e[i]
  <2> SUFFICES ASSUME NEW i \in 1 .. Len(e) PROVE wire'[Len(wire) + i] = e[i]
    OBVIOUS
  <2>1. Len(e) \in Nat
    BY <1>4, <1>7
  <2>2. /\ Len(wire) + i \in 1 .. Len(wire) + Len(e)
        /\ ~(Len(wire) + i <= Len(wire)) /\ Len(wire) + i - Len(wire) = i
    BY ONLY <1>10, <2>1, i \in 1 .. Len(e)
  <2> QED BY ONLY <1>9, <2>2
<1>13. 1 \in 1 .. Len(e) /\ 2 \in 1 .. Len(e) /\ 3 \in 1 .. Len(e)
  BY ONLY <1>4, <1>7
<1>14. \A k \in 1 .. Len(f.payload) :
         3 + k \in 1 .. Len(e) /\ Len(wire) + 3 + k = Len(wire) + (3 + k)
  BY ONLY <1>4, <1>7, <1>10
<1>15. /\ wire'[Len(wire) + 1] = f.magic
       /\ wire'[Len(wire) + 2] = <<"type", f.type>>
       /\ wire'[Len(wire) + 3] = <<"length", Len(f.payload)>>
       /\ \A k \in 1 .. Len(f.payload) : wire'[Len(wire) + 3 + k] = f.payload[k]
  <2>1. /\ wire'[Len(wire) + 1] = e[1] /\ wire'[Len(wire) + 2] = e[2]
        /\ wire'[Len(wire) + 3] = e[3]
    BY ONLY <1>12, <1>13
  <2>2. ASSUME NEW k \in 1 .. Len(f.payload) PROVE wire'[Len(wire) + 3 + k] = e[3 + k]
    BY ONLY <1>12, <1>14, <2>2
  <2> QED BY <1>7, <2>1, <2>2
<1>16. Len(wire') = Len(wire) + 3 + Len(f.payload)
  <2>1. Len(wire') = Len(wire) + Len(e)
    BY <1>9
  <2>2. Len(e) = 3 + Len(f.payload) /\ Len(f.payload) \in Nat
    BY <1>4, <1>7
  <2>3. Len(wire) + (3 + Len(f.payload)) = Len(wire) + 3 + Len(f.payload)
    BY <1>10, <2>2, Sums
  <2>4. Len(wire') = Len(wire) + (3 + Len(f.payload))
    BY ONLY <2>1, <2>2, Zenon
  <2> QED BY ONLY <2>3, <2>4, Zenon
<1>17. /\ payloads' \in Seq(Seq(AnyByte))
       /\ IF IsDataFrame(f) THEN /\ Len(payloads') = Len(payloads) + 1
                                 /\ payloads'[Len(payloads) + 1] = f.payload
                            ELSE Len(payloads') = Len(payloads)
       /\ \A i \in 1 .. Len(payloads) : payloads'[i] = payloads[i]
  <2>1. CASE IsDataFrame(f)
    <3>1. payloads' = Append(payloads, f.payload)
      BY <1>1, <2>1
    <3>2. /\ payloads' \in Seq(Seq(AnyByte)) /\ Len(payloads') = Len(payloads) + 1
          /\ payloads'[Len(payloads) + 1] = f.payload
          /\ \A i \in 1 .. Len(payloads) : payloads'[i] = payloads[i]
      BY ONLY <1>2, <1>4, <3>1, AppendProperties
    <3> QED BY <2>1, <3>2
  <2>2. CASE ~IsDataFrame(f)
    BY <1>1, <1>2, <2>2
  <2> QED BY <2>1, <2>2
<1> DEFINE b == [cells |-> Len(wire'), payloads |-> Len(payloads')]
<1>18. b \in Bound /\ b.cells = Len(wire') /\ b.payloads = Len(payloads')
  <2>1. Len(wire') \in Nat /\ Len(payloads') \in Nat
    BY ONLY <1>9, <1>17, LenProperties
  <2> QED BY <2>1 DEF Bound
<1>19. bounds' = Append(bounds, b)
  BY <1>1
<1> HIDE DEF b
<1>20. /\ bounds' \in Seq(Bound) /\ Len(bounds') = Len(bounds) + 1
       /\ \A i \in 1 .. Len(bounds) : bounds'[i] = bounds[i]
       /\ bounds'[Len(bounds) + 1] = b
  BY ONLY <1>2, <1>18, <1>19, AppendProperties
<1>21. Extended(f)
  BY <1>6, <1>9, <1>11, <1>15, <1>16, <1>17, <1>18, <1>20 DEF Extended
<1> QED BY <1>21

\* What was on the wire keeps its place.
LEMMA SendWire ==
  ASSUME WireInv, GatewaySends
  PROVE  WireInv'
<1> DEFINE n  == Len(sent)
           at == Len(wire)
<1>1. PICK f \in Frames(n + 1) : Extended(f)
  BY SendExtends
<1>2. /\ WireTypes /\ BoundsInOrder /\ WireCovered
      /\ \A k \in {1, 2} : wire[k] = reply[k]
      /\ \A i \in 1 .. n : FrameOnWire(i)
  BY DEF WireInv
<1>3. n < MaxFrames /\ reply = Start /\ UNCHANGED reply
  BY DEF GatewaySends
<1>4. /\ n \in Nat /\ at \in Nat /\ Len(payloads) \in Nat
      /\ Len(bounds) = n + 1 /\ n + 1 \in 1 .. MaxFrames
      /\ \A i \in 1 .. n + 1 : bounds[i] \in Bound
  <2>1. /\ n \in Nat /\ at \in Nat /\ Len(payloads) \in Nat /\ Len(bounds) = n + 1
        /\ \A i \in 1 .. n + 1 : bounds[i] \in Bound
    BY <1>2, BoundFacts
  <2> HIDE DEF n, at
  <2>2. n + 1 \in 1 .. MaxFrames
    BY <1>3, <2>1, StreamAssumption
  <2> QED BY <2>1, <2>2
<1>5. /\ f.payload \in Seq(AnyByte) /\ Len(f.payload) \in Nat
  <2>1. f.payload \in Seq(AnyByte)
    BY <1>4, FrameFacts
  <2> QED BY <2>1, LenProperties
<1>6. \A i \in 1 .. n + 1 :
        /\ bounds[i].cells \in Nat /\ bounds[i].payloads \in Nat
        /\ bounds[i].cells <= at /\ bounds[i].payloads <= Len(payloads)
  BY <1>2, BoundFacts
<1>7. WireTypes'
  <2>1. /\ sent' \in Seq(AnyFrame) /\ Len(sent') = n + 1
        /\ \A i \in 1 .. n : sent'[i] = sent[i]
        /\ sent'[n + 1] = f
        /\ wire' \in Seq(AnyCell) /\ payloads' \in Seq(Seq(AnyByte))
        /\ bounds' \in Seq(Bound) /\ Len(bounds') = Len(bounds) + 1
    BY <1>1 DEF Extended
  <2>2. /\ reply \in Replies
        /\ \A i \in 1 .. n : sent[i] \in Frames(i)
    BY <1>2 DEF WireTypes
  <2>3. ASSUME NEW i \in 1 .. n + 1 PROVE sent'[i] \in Frames(i)
    <3>1. CASE i = n + 1
      BY <1>1, <2>1, <3>1
    <3>2. CASE i # n + 1
      <4>1. i \in 1 .. n
        BY <1>4, <3>2
      <4> QED BY <2>1, <2>2, <4>1
    <3> QED BY <3>1, <3>2
  <2>4. Len(sent') <= MaxFrames /\ Len(bounds') = Len(sent') + 1 /\ reply' \in Replies
    BY <1>3, <1>4, <2>1, <2>2
  <2> QED BY <2>1, <2>3, <2>4 DEF WireTypes
<1>8. /\ Len(sent') = n + 1 /\ Len(bounds') = n + 2
      /\ Len(wire') = at + 3 + Len(f.payload)
      /\ \A i \in 1 .. n + 1 : bounds'[i] = bounds[i]
      /\ bounds'[n + 2].cells = Len(wire') /\ bounds'[n + 2].payloads = Len(payloads')
  <2>1. Len(bounds) + 1 = n + 2
    BY <1>4
  <2> QED BY <1>1, <1>4, <2>1 DEF Extended
<1>9. Len(payloads') \in {Len(payloads), Len(payloads) + 1}
  BY <1>1 DEF Extended
<1>10. ASSUME NEW i \in Nat, i = n + 1 PROVE FrameOnWire(i)'
  <2>1. bounds'[n + 1] = bounds[n + 1] /\ sent'[n + 1] = f /\ (n + 1) + 1 = n + 2
    BY <1>1, <1>4, <1>8 DEF Extended
  <2>2. at = bounds[n + 1].cells /\ Len(payloads) = bounds[n + 1].payloads
    BY <1>2, <1>4 DEF BoundsInOrder
  <2>3. /\ wire'[at + 1] = f.magic /\ wire'[at + 2] = <<"type", f.type>>
        /\ wire'[at + 3] = <<"length", Len(f.payload)>>
        /\ \A k \in 1 .. Len(f.payload) : wire'[at + 3 + k] = f.payload[k]
        /\ ~IsDataFrame(f) => Len(payloads') = Len(payloads)
        /\ IsDataFrame(f) => /\ Len(payloads') = Len(payloads) + 1
                             /\ payloads'[Len(payloads) + 1] = f.payload
    BY <1>1 DEF Extended
  <2>4. bounds'[n + 1].cells = at /\ bounds'[n + 1].payloads = Len(payloads)
    BY <2>1, <2>2
  <2>5. /\ bounds'[(n + 1) + 1].cells = at + 3 + Len(f.payload)
        /\ bounds'[(n + 1) + 1].payloads = Len(payloads')
    BY <1>8, <2>1
  <2> HIDE DEF n, at
  <2>6. /\ ~IsDataFrame(f) => bounds'[(n + 1) + 1].payloads = bounds'[n + 1].payloads
        /\ IsDataFrame(f) =>
             /\ bounds'[(n + 1) + 1].payloads = bounds'[n + 1].payloads + 1
             /\ payloads'[bounds'[n + 1].payloads + 1] = f.payload
    BY <2>3, <2>4, <2>5
  <2>7. FrameAt(f, wire', payloads', bounds'[n + 1], bounds'[(n + 1) + 1])
    BY <2>3, <2>4, <2>5, <2>6 DEF FrameAt
  <2> QED BY <1>10, <2>1, <2>7 DEF FrameOnWire
<1>11. ASSUME NEW i \in 1 .. n PROVE FrameOnWire(i)'
  <2>1. /\ i \in 1 .. n + 1 /\ i + 1 \in 1 .. n + 1
    BY <1>4
  <2>2. /\ sent'[i] = sent[i] /\ bounds'[i] = bounds[i] /\ bounds'[i + 1] = bounds[i + 1]
    BY <1>1, <1>8, <2>1 DEF Extended
  <2> DEFINE p == sent[i].payload
             from == bounds[i].cells
  <2>3. FrameOnWire(i)
    BY <1>2
  <2>4. Len(p) \in Nat /\ p \in Seq(AnyByte)
    <3>1. sent[i] \in Frames(i) /\ i \in 1 .. MaxFrames
      <4>1. i \in 1 .. MaxFrames
        BY <1>3, <1>4, StreamAssumption
      <4> QED BY <1>2, <4>1 DEF WireTypes
    <3>2. p \in Seq(AnyByte)
      BY <3>1, FrameFacts
    <3> QED BY <3>2, LenProperties
  <2>5. from \in Nat /\ from + 3 + Len(p) <= at
    BY <1>6, <2>1, <2>3 DEF FrameOnWire, FrameAt
  <2> HIDE DEF p, from
  <2>6. /\ from + 1 \in 1 .. at /\ from + 2 \in 1 .. at /\ from + 3 \in 1 .. at
        /\ \A k \in 1 .. Len(p) : from + 3 + k \in 1 .. at
    BY ONLY <1>4, <2>4, <2>5
  <2>7. /\ wire'[from + 1] = wire[from + 1] /\ wire'[from + 2] = wire[from + 2]
        /\ wire'[from + 3] = wire[from + 3]
        /\ \A k \in 1 .. Len(p) : wire'[from + 3 + k] = wire[from + 3 + k]
    BY <1>1, <2>6 DEF Extended
  <2>8. IsDataFrame(sent[i]) => payloads'[bounds[i].payloads + 1] = payloads[bounds[i].payloads + 1]
    <3> SUFFICES ASSUME IsDataFrame(sent[i])
                 PROVE  payloads'[bounds[i].payloads + 1] = payloads[bounds[i].payloads + 1]
      OBVIOUS
    <3>1. bounds[i + 1].payloads = bounds[i].payloads + 1
      BY <2>3 DEF FrameOnWire, FrameAt
    <3>2. bounds[i].payloads + 1 \in 1 .. Len(payloads)
      BY <1>4, <1>6, <2>1, <3>1
    <3> QED BY <1>1, <3>2 DEF Extended
  <2> QED BY <2>2, <2>3, <2>7, <2>8 DEF FrameOnWire, FrameAt, p, from
<1>12. BoundsInOrder'
  <2>1. bounds'[1] = bounds[1]
    BY <1>4, <1>8
  <2>2. ASSUME NEW j \in 1 .. n + 2, NEW i \in 1 .. j - 1
        PROVE  bounds'[i].cells < bounds'[j].cells /\ bounds'[i].payloads <= bounds'[j].payloads
    <3>1. i \in 1 .. n + 1 /\ bounds'[i] = bounds[i]
      BY <1>4, <1>8
    <3>2. CASE j = n + 2
      <4>1. /\ bounds[i].cells \in Nat /\ bounds[i].payloads \in Nat
            /\ bounds[i].cells <= at /\ bounds[i].payloads <= Len(payloads)
        BY <1>6, <3>1
      <4>2. bounds[i].cells < Len(wire')
        <5>1. bounds[i].cells < at + 3 + Len(f.payload)
          BY <1>4, <1>5, <4>1, Sums
        <5> QED BY <1>8, <5>1, Zenon
      <4>3. bounds[i].payloads <= Len(payloads')
        BY <1>4, <1>9, <4>1
      <4> QED BY <1>8, <3>1, <3>2, <4>2, <4>3
    <3>3. CASE j # n + 2
      <4>1. j \in 1 .. n + 1 /\ bounds'[j] = bounds[j]
        BY <1>4, <1>8, <3>3
      <4> QED BY <1>2, <1>4, <3>1, <4>1 DEF BoundsInOrder
    <3> QED BY <3>2, <3>3
  <2> QED BY <1>2, <1>8, <2>1, <2>2 DEF BoundsInOrder
<1>13. WireCovered'
  <2> SUFFICES ASSUME NEW p \in 3 .. Len(wire')
               PROVE  \E i \in 1 .. n + 1 : bounds'[i].cells < p /\ p <= bounds'[i + 1].cells
    BY <1>8 DEF WireCovered
  <2>1. CASE p <= at
    <3>1. PICK i \in 1 .. n : bounds[i].cells < p /\ p <= bounds[i + 1].cells
      <4>1. p \in 3 .. Len(wire)
        <5>1. Len(wire) \in Nat /\ p \in Int /\ 3 <= p
          BY <1>4
        <5> QED BY <2>1, <5>1
      <4> QED BY <1>2, <4>1 DEF WireCovered
    <3>2. i \in 1 .. n + 1 /\ i + 1 \in 1 .. n + 1
      BY <1>4
    <3> QED BY <1>8, <3>1, <3>2
  <2>2. CASE p > at
    <3>1. n + 1 \in 1 .. n + 1 /\ (n + 1) + 1 = n + 2
      BY <1>4
    <3>2. bounds'[n + 1].cells = at
      BY <1>2, <1>4, <1>8, <3>1 DEF BoundsInOrder
    <3>3. bounds'[(n + 1) + 1].cells = Len(wire') /\ p <= Len(wire')
      <4>1. Len(wire') \in Nat
        BY <1>7, LenProperties DEF WireTypes
      <4>2. p <= Len(wire')
        BY <4>1
      <4> QED BY <1>8, <3>1, <4>2
    <3> QED BY <2>2, <3>1, <3>2, <3>3
  <2>3. p \in Int /\ at \in Int
    BY <1>4
  <2> QED BY <2>1, <2>2, <2>3
<1>14. \A k \in {1, 2} : wire'[k] = reply'[k]
  <2>1. 1 \in 1 .. n + 1
    BY <1>4
  <2>2. bounds[1].cells = 2 /\ bounds[1].cells <= at
    BY <1>2, <1>6, <2>1 DEF BoundsInOrder
  <2>3. 1 \in 1 .. at /\ 2 \in 1 .. at
    BY <1>4, <2>2
  <2> QED BY <1>1, <1>2, <1>3, <2>3 DEF Extended
<1>15. ASSUME NEW i \in 1 .. n + 1 PROVE FrameOnWire(i)'
  <2>1. i = n + 1 \/ i \in 1 .. n
    BY <1>4
  <2>2. CASE i = n + 1 BY <1>4, <1>10, <2>2
  <2>3. CASE i \in 1 .. n BY <1>11, <2>3
  <2> QED BY <2>1, <2>2, <2>3
<1> HIDE DEF n, at
<1> QED BY <1>3, <1>7, <1>8, <1>12, <1>13, <1>14, <1>15 DEF WireInv

-----------------------------------------------------------------------------
(* What the client reads.                                                  *)

\* Only the beginning of a frame looks like the magic.
LEMMA MagicBeginsFrame ==
  ASSUME WireInv, NEW p \in 3 .. Len(wire), wire[p] = Magic
  PROVE  \E i \in 1 .. Len(sent) : bounds[i].cells = p - 1
<1>1. PICK i \in 1 .. Len(sent) : bounds[i].cells < p /\ p <= bounds[i + 1].cells
  BY DEF WireInv, WireCovered
<1> DEFINE f == sent[i]
           at == bounds[i].cells
           n == Len(f.payload)
<1>2. FrameAt(f, wire, payloads, bounds[i], bounds[i + 1])
  BY DEF WireInv, FrameOnWire
<1>3. i \in 1 .. MaxFrames /\ f \in Frames(i) /\ at \in Nat
  <2>1. Len(sent) \in Nat /\ Len(sent) <= MaxFrames /\ i \in 1 .. Len(sent) + 1
    BY BoundFacts DEF WireInv, WireTypes
  <2>2. i \in 1 .. MaxFrames
    BY <2>1, StreamAssumption
  <2> QED BY <2>1, <2>2, BoundFacts DEF WireInv, WireTypes
<1>4. f.type \in Types /\ f.payload \in Seq(AnyByte)
  BY <1>3, FrameFacts
<1>5. n \in Nat /\ \A k \in 1 .. n : f.payload[k] \in AnyByte
  BY <1>4, LenProperties, ElementOfSeq
<1>6. /\ wire[at + 2] = <<"type", f.type>>
      /\ wire[at + 3] = <<"length", n>>
      /\ \A k \in 1 .. n : wire[at + 3 + k] = f.payload[k]
      /\ bounds[i + 1].cells = at + 3 + n
  BY <1>2 DEF FrameAt
<1>7. /\ wire[at + 2] # Magic /\ wire[at + 3] # Magic
      /\ \A k \in 1 .. n : wire[at + 3 + k] # Magic
  BY <1>4, <1>5, <1>6, CellFacts
<1>8. p \in Nat /\ at < p /\ p <= at + 3 + n
  BY <1>1, <1>6
<1> HIDE DEF f, n, at
<1>9. CASE p = at + 1
  BY <1>3, <1>9 DEF at
<1>10. CASE p # at + 1
  <2>1. p = at + 2 \/ p = at + 3 \/ \E k \in 1 .. n : p = at + 3 + k
    <3> SUFFICES ASSUME p # at + 2, p # at + 3 PROVE \E k \in 1 .. n : p = at + 3 + k
      OBVIOUS
    <3>1. p - (at + 3) \in 1 .. n /\ p = at + 3 + (p - (at + 3))
      BY <1>3, <1>5, <1>8, <1>10
    <3> QED BY <3>1
  <2> QED BY <1>7, <2>1
<1> QED BY <1>9, <1>10

\* A Read returns the next cells of the wire.
LEMMA ReadFacts ==
  ASSUME WireInv, ClientTypes, NEW n \in Nat \ {0}, ReadN(n)
  PROVE  \E got \in 1 .. n :
           /\ Got(n) \in Seq(AnyCell) /\ Len(Got(n)) = got
           /\ \A k \in 1 .. got : Got(n)[k] = wire[read + k]
           /\ read' = read + got /\ read + got \in 0 .. Len(wire)
           /\ avail' \in 0 .. Len(wire) - (read + got)
<1> DEFINE got == IF avail < n THEN avail ELSE n
<1>1. wire \in Seq(AnyCell) /\ Len(wire) \in Nat
  BY LenProperties DEF WireInv, WireTypes
<1>2. read \in 0 .. Len(wire) /\ avail \in 1 .. Len(wire) - read
  BY <1>1 DEF ClientTypes, ReadN
<1>3. got \in 1 .. n /\ got <= avail
  BY <1>1, <1>2
<1>4. read' = read + got /\ avail' = avail - got /\ Got(n) = SubSeq(wire, read + 1, read + got)
  BY DEF ReadN, Got
<1> HIDE DEF got
<1>5. read + got \in 0 .. Len(wire) /\ avail - got \in 0 .. Len(wire) - (read + got)
  BY <1>1, <1>2, <1>3
<1>6. \A i \in read + 1 .. read + got : wire[i] \in AnyCell
  <2>1. \A i \in read + 1 .. read + got : i \in 1 .. Len(wire)
    BY <1>1, <1>2, <1>3, <1>5
  <2> QED BY <1>1, <2>1, ElementOfSeq
<1> DEFINE s == SubSeq(wire, read + 1, read + got)
<1>7. read + 1 \in Int /\ read + got \in Int /\ read + 1 <= read + got /\ got \in Nat
  BY <1>2, <1>3
<1> DEFINE lo == read + 1
           hi == read + got
<1>8. lo \in Int /\ hi \in Int /\ (\A i \in lo .. hi : wire[i] \in AnyCell) /\ s = SubSeq(wire, lo, hi)
  BY <1>6, <1>7
<1>9. /\ lo <= hi /\ hi - lo + 1 = got
      /\ \A k \in 1 .. got : lo + k - 1 = read + k
  BY <1>2, <1>3, <1>7
<1> HIDE DEF s, lo, hi
<1>10. /\ s \in Seq(AnyCell)
       /\ Len(s) = IF lo <= hi THEN hi - lo + 1 ELSE 0
       /\ \A i \in 1 .. hi - lo + 1 : s[i] = wire[lo + i - 1]
  BY ONLY <1>8, SubSeqProperties
<1>11. s \in Seq(AnyCell) /\ Len(s) = got /\ \A k \in 1 .. got : s[k] = wire[read + k]
  BY ONLY <1>9, <1>10
<1>12. Got(n) = s
  BY <1>4 DEF s
<1> QED BY <1>3, <1>4, <1>5, <1>11, <1>12

\* The bounds are different places.
LEMMA BoundsDiffer ==
  ASSUME WireTypes, BoundsInOrder,
         NEW i \in 1 .. Len(bounds), NEW k \in 1 .. Len(bounds),
         bounds[i].cells = bounds[k].cells
  PROVE  i = k
<1>1. Len(bounds) \in Nat
  BY BoundFacts
<1>2. bounds[i].cells \in Nat /\ bounds[k].cells \in Nat
  BY BoundFacts
<1>3. CASE i < k
  <2>1. i \in 1 .. k - 1
    BY <1>1, <1>3
  <2> QED BY <1>2, <2>1 DEF BoundsInOrder
<1>4. CASE k < i
  <2>1. k \in 1 .. i - 1
    BY <1>1, <1>4
  <2> QED BY <1>2, <2>1 DEF BoundsInOrder
<1> QED BY <1>1, <1>3, <1>4

\* The numbers of the client.
LEMMA ClientFacts ==
  ASSUME WireInv, ClientTypes
  PROVE  /\ Len(wire) \in Nat /\ read \in Nat /\ read <= Len(wire)
         /\ Len(buf) \in Nat /\ PacketStart \in 0 .. read /\ read = PacketStart + Len(buf)
         /\ taken \in Nat /\ Len(received) \in Nat
<1>1. Len(wire) \in Nat
  BY LenProperties DEF WireInv, WireTypes
<1>2. Len(buf) \in Nat /\ Len(received) \in Nat
  BY LenProperties DEF ClientTypes
<1>3. taken \in Nat
  BY StreamAssumption DEF ClientTypes
<1> QED BY <1>1, <1>2, <1>3 DEF ClientTypes, PacketStart

\* Where a packet has the magic the client is in step.
LEMMA MagicInStep ==
  ASSUME WireInv, ClientTypes, Opened, Len(buf) >= 1, buf[1] = Magic
  PROVE  \E i \in 1 .. Len(sent) : \E j \in 1 .. i : InStep(j, i)
<1>1. /\ Len(wire) \in Nat /\ Len(buf) \in Nat /\ PacketStart \in Nat /\ taken \in Nat
      /\ PacketStart + Len(buf) <= Len(wire)
  BY ClientFacts
<1>2. PacketStart + 1 \in 3 .. Len(wire) /\ (PacketStart + 1) - 1 = PacketStart
  BY <1>1 DEF Opened
<1>3. wire[PacketStart + 1] = Magic
  <2>1. 1 \in 1 .. Len(buf)
    BY <1>1
  <2> QED BY <2>1 DEF Opened, BufferInv
<1>4. PICK i \in 1 .. Len(sent) : bounds[i].cells = PacketStart
  <2> DEFINE p == PacketStart + 1
  <2>1. p \in 3 .. Len(wire) /\ wire[p] = Magic /\ p - 1 = PacketStart
    BY <1>2, <1>3, Zenon
  <2> HIDE DEF p
  <2>2. \E i \in 1 .. Len(sent) : bounds[i].cells = p - 1
    BY <2>1, MagicBeginsFrame
  <2> QED BY <2>1, <2>2
<1>5. WireTypes /\ BoundsInOrder
  BY DEF WireInv
<1>6. Len(sent) \in Nat /\ Len(bounds) = Len(sent) + 1 /\ DOMAIN bounds = 1 .. Len(bounds)
  <2>1. bounds \in Seq(Bound)
    BY <1>5 DEF WireTypes
  <2> QED BY <1>5, <2>1, BoundFacts, LenProperties
<1>7. i \in 1 .. Len(bounds)
  BY <1>6
<1>8. ~Astray
  BY <1>4, <1>6, <1>7 DEF Astray, TakenWhole
<1>9. PICK k \in 1 .. Len(bounds) : \E j \in 1 .. k : InStep(j, k)
  BY <1>8 DEF Opened
<1>10. k = i
  BY <1>4, <1>5, <1>7, <1>9, BoundsDiffer DEF InStep
<1> QED BY <1>9, <1>10

\* The header that the client has read is that of a frame.
LEMMA HeaderRead ==
  ASSUME WireInv, ClientTypes, Opened, Header, MagicOK
  PROVE  \E i \in 1 .. Len(sent) : \E j \in 1 .. i :
           /\ InStep(j, i)
           /\ FrameOnWire(i) /\ sent[i].magic = Magic
           /\ i \in 1 .. MaxFrames /\ sent[i] \in Frames(i)
           /\ buf[2][2] = sent[i].type /\ Length = Len(sent[i].payload)
           /\ Length \in 0 .. MaxPayload
<1>1. /\ Len(buf) \in Nat /\ PacketStart \in Nat
      /\ 1 \in 1 .. Len(buf) /\ 2 \in 1 .. Len(buf) /\ 3 \in 1 .. Len(buf)
  BY ClientFacts DEF Header, HeaderSize
<1>2. buf[1] = Magic
  BY DEF MagicOK
<1>3. PICK i \in 1 .. Len(sent) : \E j \in 1 .. i : InStep(j, i)
  BY <1>1, <1>2, MagicInStep
<1>4. bounds[i].cells = PacketStart
  BY <1>3 DEF InStep
<1>5. FrameOnWire(i) /\ sent[i] \in Frames(i) /\ i \in 1 .. MaxFrames
  <2>1. Len(sent) \in Nat /\ Len(sent) <= MaxFrames
    BY LenProperties DEF WireInv, WireTypes
  <2>2. i \in 1 .. MaxFrames
    BY <2>1, StreamAssumption
  <2> QED BY <2>2 DEF WireInv, WireTypes
<1>6. /\ buf[1] = sent[i].magic /\ buf[2] = <<"type", sent[i].type>>
      /\ buf[3] = <<"length", Len(sent[i].payload)>>
  BY <1>1, <1>4, <1>5 DEF FrameOnWire, FrameAt, Opened, BufferInv
<1>7. Len(sent[i].payload) \in 0 .. MaxPayload
  BY <1>5, FrameFacts
<1>8. buf[2][2] = sent[i].type /\ Length = Len(sent[i].payload)
  BY <1>6 DEF Length
<1> QED BY <1>2, <1>3, <1>5, <1>6, <1>7, <1>8

\* What the client still waits for is a number of cells.
LEMMA MissingFacts ==
  ASSUME WireInv, ClientTypes, Opened, MagicOK
  PROVE  /\ Missing \in Nat
         /\ ~Header => Missing = 3 - Len(buf)
         /\ Header => /\ Length \in 0 .. MaxPayload /\ Missing = 3 + Length - Len(buf)
                      /\ buf[1] = Magic
<1>1. Len(buf) \in Nat
  BY ClientFacts
<1>2. CASE ~Header
  BY <1>1, <1>2 DEF Missing, Header, HeaderSize
<1>3. CASE Header
  <2>1. Length \in 0 .. MaxPayload
    BY <1>3, HeaderRead
  <2>2. Length \in Nat
    BY <2>1, StreamAssumption
  <2>3. Len(buf) <= 3 \/ Len(buf) <= 3 + Length
    BY DEF Opened, BufferInv
  <2>4. Missing = 3 + Length - Len(buf)
    BY <1>3 DEF Missing, HeaderSize
  <2>5. Missing \in Nat
    BY <1>1, <2>2, <2>3, <2>4
  <2> QED BY <1>3, <2>1, <2>4, <2>5 DEF MagicOK
<1> QED BY <1>2, <1>3

-----------------------------------------------------------------------------
(* The steps of the client.                                                *)

\* The client reads cells of a packet.
LEMMA CellsClient ==
  ASSUME WireInv, ClientInv, ReadCells
  PROVE  ClientInv' /\ PacketStart' = PacketStart
<1>1. phase = "packet" /\ MagicOK /\ Missing > 0 /\ ReadN(Missing) /\ buf' = buf \o Got(Missing)
      /\ UNCHANGED <<reply, wire, phase, taken, received, end, history>>
  BY DEF ReadCells
<1>2. ClientTypes /\ Opened
  BY <1>1 DEF ClientInv, Unopened
<1> DEFINE n == Missing
           g == Got(Missing)
<1>3. n \in Nat \ {0}
  BY <1>1, <1>2, MissingFacts
<1> HIDE DEF n
<1>4. ReadN(n) /\ g = Got(n)
  BY <1>1 DEF n
<1>5. PICK got \in 1 .. n :
        /\ g \in Seq(AnyCell) /\ Len(g) = got
        /\ \A k \in 1 .. got : g[k] = wire[read + k]
        /\ read' = read + got /\ read + got \in 0 .. Len(wire)
        /\ avail' \in 0 .. Len(wire) - (read + got)
  BY <1>2, <1>3, <1>4, ReadFacts
<1>6. /\ Len(buf) \in Nat /\ read \in Nat /\ Len(wire) \in Nat /\ PacketStart \in Nat
      /\ read = PacketStart + Len(buf) /\ buf \in Seq(AnyCell)
  BY <1>2, ClientFacts DEF ClientTypes
<1>7. buf' = buf \o g
  BY <1>1
<1> HIDE DEF g
<1>8. /\ buf' \in Seq(AnyCell) /\ Len(buf') = Len(buf) + Len(g)
      /\ \A k \in 1 .. Len(buf) + Len(g) : buf'[k] = IF k <= Len(buf) THEN buf[k] ELSE g[k - Len(buf)]
  <2> DEFINE b == buf \o g
  <2>1. /\ b \in Seq(AnyCell) /\ Len(b) = Len(buf) + Len(g)
        /\ \A k \in 1 .. Len(buf) + Len(g) : b[k] = IF k <= Len(buf) THEN buf[k] ELSE g[k - Len(buf)]
    BY ONLY <1>5, <1>6, ConcatProperties
  <2> HIDE DEF b
  <2>2. buf' = b
    BY <1>7 DEF b
  <2> QED BY ONLY <2>1, <2>2
<1>9. got \in Nat /\ Len(buf') = Len(buf) + got
  BY <1>3, <1>5, <1>8
<1>10. PacketStart' = PacketStart
  BY <1>5, <1>6, <1>9 DEF PacketStart
<1>11. ClientTypes'
  <2>1. read' \in 0 .. Len(wire') /\ avail' \in 0 .. Len(wire') - read'
    BY <1>1, <1>5
  <2>2. Len(buf') <= read'
    BY <1>5, <1>6, <1>9
  <2> QED BY <1>1, <1>2, <1>8, <2>1, <2>2 DEF ClientTypes
<1>12. \A k \in 1 .. Len(buf) : buf'[k] = buf[k]
  BY <1>6, <1>8, <1>9
<1>13. \A k \in 1 .. Len(buf') : buf'[k] = wire'[PacketStart' + k]
  <2> SUFFICES ASSUME NEW k \in 1 .. Len(buf') PROVE buf'[k] = wire[PacketStart + k]
    BY <1>1, <1>10
  <2>1. CASE k <= Len(buf)
    <3>1. k \in 1 .. Len(buf)
      BY <1>6, <1>9, <2>1
    <3> QED BY <1>2, <1>12, <3>1 DEF Opened, BufferInv
  <2>2. CASE ~(k <= Len(buf))
    <3>1. k - Len(buf) \in 1 .. got /\ read + (k - Len(buf)) = PacketStart + k
      BY <1>6, <1>9, <2>2
    <3>2. buf'[k] = g[k - Len(buf)]
      BY <1>5, <1>8, <1>9, <2>2
    <3> QED BY <1>5, <3>1, <3>2
  <2> QED BY <2>1, <2>2
<1>14. Len(buf') <= 3 \/ (buf'[1] = Magic /\ Len(buf') <= 3 + Length')
  <2>1. CASE ~Header
    <3>1. n = 3 - Len(buf)
      BY <1>1, <1>2, <2>1, MissingFacts DEF n
    <3> QED BY <1>5, <1>6, <1>9, <3>1
  <2>2. CASE Header
    <3>1. n = 3 + Length - Len(buf) /\ Length \in Nat /\ buf[1] = Magic
      BY <1>1, <1>2, <2>2, MissingFacts, StreamAssumption DEF n
    <3>2. 1 \in 1 .. Len(buf) /\ 3 \in 1 .. Len(buf)
      BY <1>6, <2>2 DEF Header, HeaderSize
    <3>3. buf'[1] = buf[1] /\ Length' = Length
      BY <1>12, <3>2 DEF Length
    <3> QED BY <1>5, <1>6, <1>9, <3>1, <3>3
  <2> QED BY <2>1, <2>2
<1>15. (Astray \/ \E i \in 1 .. Len(bounds) : \E j \in 1 .. i : InStep(j, i))'
  <2>1. /\ Astray => Astray'
        /\ \A i, j : InStep(j, i) => InStep(j, i)'
        /\ bounds' = bounds
    BY <1>1, <1>10 DEF Astray, TakenWhole, InStep, history
  <2> QED BY <1>2, <2>1 DEF Opened
<1>16. phase' # "reply" /\ end' # "badMagic"
  BY <1>1, <1>2 DEF ClientTypes
<1>17. BufferInv'
  BY <1>13, <1>14 DEF BufferInv
<1>18. Opened'
  BY <1>1, <1>2, <1>10, <1>15, <1>16, <1>17 DEF Opened
<1> QED BY <1>10, <1>11, <1>18 DEF ClientInv

\* The packet is complete: it is the next frame.
LEMMA PacketClient ==
  ASSUME WireInv, ClientInv, PacketRead
  PROVE  ClientInv' /\ \E i \in 1 .. Len(sent) :
           /\ bounds[i].cells = PacketStart /\ bounds[i + 1].cells = PacketStart'
           /\ FrameOnWire(i)
           /\ IF IsDataFrame(sent[i])
                THEN received' = Append(received, sent[i].payload)
                ELSE received' = received
<1>1. /\ phase = "packet" /\ Header /\ MagicOK /\ Missing = 0 /\ buf' = <<>>
      /\ received' = IF IsData(buf[2][2]) /\ Length > 0
                       THEN Append(received, SubSeq(buf, HeaderSize + 1, Len(buf)))
                       ELSE received
      /\ UNCHANGED <<reply, wire, read, avail, phase, taken, end, history>>
  BY DEF PacketRead
<1>2. ClientTypes /\ Opened
  BY <1>1 DEF ClientInv, Unopened
<1>3. PICK i \in 1 .. Len(sent) : \E j \in 1 .. i :
        /\ InStep(j, i)
        /\ FrameOnWire(i) /\ sent[i].magic = Magic
        /\ i \in 1 .. MaxFrames /\ sent[i] \in Frames(i)
        /\ buf[2][2] = sent[i].type /\ Length = Len(sent[i].payload)
        /\ Length \in 0 .. MaxPayload
  BY <1>1, <1>2, HeaderRead
<1>4. PICK j \in 1 .. i : InStep(j, i)
  BY <1>3
<1> DEFINE p == sent[i].payload
<1>5. p \in Seq(AnyByte) /\ Len(p) \in Nat /\ Length = Len(p) /\ Len(buf) = 3 + Len(p)
  <2>1. p \in Seq(AnyByte)
    BY <1>3, FrameFacts
  <2>2. Len(p) \in Nat /\ Length = Len(p)
    BY <1>3, <2>1, LenProperties
  <2>3. Len(buf) = 3 + Length
    <3>1. Len(buf) \in Nat /\ 3 + Length - Len(buf) = 0 /\ Length \in Nat
      BY <1>1, <1>2, <2>2, ClientFacts, MissingFacts
    <3> QED BY <3>1
  <2> QED BY <2>1, <2>2, <2>3
<1>6. /\ Len(buf) \in Nat /\ read \in Nat /\ PacketStart \in Nat /\ taken \in Nat
      /\ read = PacketStart + Len(buf) /\ Len(received) \in Nat
  BY <1>2, ClientFacts
<1>7. PacketStart' = PacketStart + 3 + Len(p) /\ PacketStart' = read'
  <2>1. Len(buf') = 0
    BY <1>1
  <2> HIDE DEF p
  <2> QED BY <1>1, <1>5, <1>6, <2>1 DEF PacketStart
<1>8. bounds[i].cells = PacketStart /\ bounds[i + 1].cells = PacketStart'
  <2>1. bounds[i].cells = PacketStart
    BY <1>4 DEF InStep
  <2>2. bounds[i + 1].cells = bounds[i].cells + 3 + Len(p)
    BY <1>3 DEF FrameOnWire, FrameAt
  <2> QED BY <1>7, <2>1, <2>2
<1>9. IsDataFrame(sent[i]) <=> IsData(buf[2][2]) /\ Length > 0
  <2>1. p # <<>> <=> Len(p) > 0
    BY <1>5, EmptySeq
  <2> HIDE DEF p
  <2>2. IsDataFrame(sent[i]) <=> sent[i].type \in {"IPv4", "IPv6"} /\ p # <<>>
    BY <1>3 DEF IsDataFrame, p
  <2> QED BY <1>3, <1>5, <2>1, <2>2 DEF IsData
<1>10. SubSeq(buf, HeaderSize + 1, Len(buf)) = p
  <2> DEFINE s == SubSeq(buf, 4, Len(buf))
             hi == Len(buf)
  <2>1. buf \in Seq(AnyCell)
    BY <1>2 DEF ClientTypes
  <2>2. \A k \in 4 .. hi : buf[k] \in AnyCell
    <3>1. \A k \in 4 .. hi : k \in 1 .. Len(buf)
      BY <1>6
    <3> QED BY <2>1, <3>1, ElementOfSeq
  <2>3. s = SubSeq(buf, 4, hi) /\ hi \in Int /\ 4 \in Int
    BY <1>6
  <2>4. hi = 3 + Len(p)
    BY <1>5
  <2> HIDE DEF s, hi, p
  <2>5. /\ s \in Seq(AnyCell)
        /\ Len(s) = IF 4 <= hi THEN hi - 4 + 1 ELSE 0
        /\ \A k \in 1 .. hi - 4 + 1 : s[k] = buf[4 + k - 1]
    BY ONLY <2>2, <2>3, SubSeqProperties
  <2>6. /\ Len(s) = Len(p)
        /\ \A k \in 1 .. Len(p) : k \in 1 .. hi - 4 + 1 /\ 4 + k - 1 = 3 + k
    BY ONLY <1>5, <2>4, <2>5
  <2>7. \A k \in 1 .. Len(p) : s[k] = buf[3 + k]
    BY ONLY <2>5, <2>6
  <2>8. \A k \in 1 .. Len(p) : buf[3 + k] = p[k]
    <3> SUFFICES ASSUME NEW k \in 1 .. Len(p) PROVE buf[3 + k] = p[k]
      OBVIOUS
    <3>1. 3 + k \in 1 .. Len(buf) /\ PacketStart + (3 + k) = PacketStart + 3 + k
      BY <1>5, <1>6
    <3>2. buf[3 + k] = wire[PacketStart + (3 + k)]
      BY <1>2, <3>1 DEF Opened, BufferInv
    <3>3. wire[PacketStart + 3 + k] = p[k]
      BY <1>3, <1>8 DEF FrameOnWire, FrameAt, p
    <3> QED BY <3>1, <3>2, <3>3
  <2>9. \A k \in 1 .. Len(p) : s[k] = p[k]
    BY <2>7, <2>8
  <2>10. s = p
    BY ONLY <1>5, <2>5, <2>6, <2>9, SeqEqual
  <2>11. HeaderSize + 1 = 4
    BY DEF HeaderSize
  <2> QED BY <2>10, <2>11 DEF s
<1>11. IF IsDataFrame(sent[i]) THEN received' = Append(received, p) ELSE received' = received
  BY <1>1, <1>9, <1>10
<1>12. /\ Len(bounds) = Len(sent) + 1 /\ Len(sent) \in Nat
       /\ \A k \in 1 .. Len(sent) + 1 : bounds[k].payloads \in Nat
  BY BoundFacts DEF WireInv
<1>13. /\ i \in 1 .. Len(sent) + 1 /\ i + 1 \in 1 .. Len(bounds)
       /\ j \in 1 .. Len(sent) + 1 /\ j \in 1 .. i + 1
  BY <1>12
<1>14. received \in Seq(Seq(AnyByte))
  BY <1>2 DEF ClientTypes
<1>15. /\ received' \in Seq(Seq(AnyByte))
       /\ Len(received') = bounds[i + 1].payloads - bounds[j].payloads
       /\ \A k \in 1 .. Len(received') : received'[k] = payloads[bounds[j].payloads + k]
  <2>1. /\ Len(received) = bounds[i].payloads - bounds[j].payloads
        /\ \A k \in 1 .. Len(received) : received[k] = payloads[bounds[j].payloads + k]
    BY <1>4 DEF InStep
  <2>2. bounds[i].payloads \in Nat /\ bounds[j].payloads \in Nat
    BY <1>12, <1>13
  <2>3. CASE ~IsDataFrame(sent[i])
    <3>1. bounds[i + 1].payloads = bounds[i].payloads
      BY <1>3, <2>3 DEF FrameOnWire, FrameAt
    <3> QED BY <1>11, <1>14, <2>1, <2>3, <3>1
  <2>4. CASE IsDataFrame(sent[i])
    <3>1. bounds[i + 1].payloads = bounds[i].payloads + 1 /\ payloads[bounds[i].payloads + 1] = p
      BY <1>3, <2>4 DEF FrameOnWire, FrameAt
    <3>2. received' = Append(received, p)
      BY <1>11, <2>4
    <3> HIDE DEF p
    <3>3. /\ received' \in Seq(Seq(AnyByte)) /\ Len(received') = Len(received) + 1
          /\ \A k \in 1 .. Len(received) : received'[k] = received[k]
          /\ received'[Len(received) + 1] = p
      BY ONLY <1>5, <1>14, <3>2, AppendProperties
    <3> DEFINE r == Len(received)
               x == bounds[i].payloads
               y == bounds[j].payloads
    <3>4. r \in Nat /\ r = x - y /\ x \in Nat /\ y \in Nat
      BY <1>6, <2>1, <2>2
    <3>5. bounds[i + 1].payloads = x + 1 /\ Len(received') = r + 1
      BY <3>1, <3>3
    <3> HIDE DEF r, x, y
    <3>6. (x + 1) - y = r + 1
      BY <3>4
    <3>7. Len(received') = bounds[i + 1].payloads - y
      BY ONLY <3>5, <3>6, Zenon
    <3>8. Len(received') = bounds[i + 1].payloads - bounds[j].payloads
      BY <3>7 DEF y
    <3>9. ASSUME NEW k \in 1 .. Len(received') PROVE received'[k] = payloads[bounds[j].payloads + k]
      <4>1. CASE k \in 1 .. Len(received)
        BY <2>1, <3>3, <4>1
      <4>2. CASE k \notin 1 .. Len(received)
        <5>1. k = Len(received) + 1
          BY <1>6, <3>3, <4>2
        <5>2. bounds[j].payloads + k = bounds[i].payloads + 1
          <6>1. k = r + 1
            BY <5>1 DEF r
          <6>2. y + (r + 1) = x + 1
            BY <3>4
          <6>3. y + k = x + 1
            BY <6>1, <6>2
          <6> QED BY <6>3 DEF x, y
        <5> QED BY <3>1, <3>3, <5>1, <5>2
      <4> QED BY <4>1, <4>2
    <3> QED BY <3>3, <3>8, <3>9
  <2> QED BY <2>3, <2>4
<1>16. InStep(j, i + 1)'
  <2>1. bounds[j].cells = taken
    BY <1>4 DEF InStep
  <2> QED BY <1>1, <1>8, <1>15, <2>1 DEF InStep, history
<1>17. buf' \in Seq(AnyCell) /\ Len(buf') = 0
  BY <1>1
<1>18. ClientTypes'
  <2>1. Len(buf') <= read'
    BY <1>1, <1>6, <1>17
  <2> QED BY <1>1, <1>2, <1>15, <1>17, <2>1 DEF ClientTypes
<1>19. BufferInv'
  BY <1>17 DEF BufferInv
<1>20. 2 <= taken' /\ taken' <= PacketStart'
  <2>1. 2 <= taken /\ taken <= PacketStart /\ taken' = taken
    BY <1>1, <1>2 DEF Opened
  <2>2. Len(p) \in Nat
    BY <1>5
  <2> HIDE DEF p
  <2> QED BY <1>6, <1>7, <2>1, <2>2
<1>21. phase' # "reply" /\ end' # "badMagic"
  BY <1>1, <1>2 DEF ClientTypes
<1>22. \E k \in 1 .. Len(bounds') : \E l \in 1 .. k : InStep(l, k)'
  <2>1. bounds' = bounds
    BY <1>1 DEF history
  <2> QED BY <1>13, <1>16, <2>1
<1>23. Opened'
  BY <1>19, <1>20, <1>21, <1>22 DEF Opened
<1>24. ClientInv'
  BY <1>18, <1>23 DEF ClientInv
<1> QED BY <1>3, <1>8, <1>11, <1>24

\* More cells on the wire do not touch the client.
LEMMA SendClient ==
  ASSUME WireInv, ClientInv, GatewaySends
  PROVE  ClientInv'
<1>1. PICK f \in Frames(Len(sent) + 1) : Extended(f)
  BY SendExtends
<1>2. UNCHANGED <<reply, read, avail, phase, buf, taken, received, end>> /\ phase # "ended"
  BY DEF GatewaySends
<1>3. ClientTypes /\ (Unopened \/ Opened)
  BY DEF ClientInv
<1>4. /\ Len(wire) \in Nat /\ read \in Nat /\ read <= Len(wire)
      /\ Len(buf) \in Nat /\ PacketStart \in 0 .. read /\ read = PacketStart + Len(buf)
      /\ taken \in Nat /\ Len(received) \in Nat
  BY <1>3, ClientFacts
<1>5. /\ Len(sent) \in Nat /\ Len(payloads) \in Nat
      /\ Len(bounds) = Len(sent) + 1
      /\ \A i \in 1 .. Len(sent) + 1 :
           /\ bounds[i].cells \in Nat /\ bounds[i].payloads \in Nat
           /\ bounds[i].cells <= Len(wire) /\ bounds[i].payloads <= Len(payloads)
  BY BoundFacts DEF WireInv
<1>6. \A i \in 1 .. Len(bounds) : bounds'[i] = bounds[i]
  BY <1>1 DEF Extended
<1>7. Len(wire') \in Nat /\ Len(wire') > Len(wire)
  <2>1. Len(f.payload) \in Nat
    <3>1. Len(sent) + 1 \in 1 .. MaxFrames
      BY <1>5, StreamAssumption DEF GatewaySends
    <3>2. f.payload \in Seq(AnyByte)
      BY <3>1, FrameFacts
    <3> QED BY <3>2, LenProperties
  <2>2. Len(wire') = Len(wire) + 3 + Len(f.payload)
    BY <1>1 DEF Extended
  <2>3. wire' \in Seq(AnyCell)
    BY <1>1 DEF Extended
  <2>4. Len(wire') \in Nat
    BY <2>3, LenProperties
  <2>5. Len(wire) < Len(wire) + 3 + Len(f.payload)
    <3> DEFINE a == Len(wire)
               b == Len(f.payload)
    <3>1. a \in Nat /\ b \in Nat /\ a <= a
      BY <1>4, <2>1
    <3> HIDE DEF a, b
    <3>2. a < a + 3 + b
      BY ONLY <3>1, Sums
    <3> QED BY <3>2 DEF a, b
  <2>6. Len(wire) < Len(wire')
    BY ONLY <2>2, <2>5, Zenon
  <2> QED BY <1>4, <2>4, <2>6
<1>8. ClientTypes'
  <2>1. read' \in 0 .. Len(wire') /\ avail' \in 0 .. Len(wire') - read'
    BY <1>2, <1>3, <1>4, <1>7 DEF ClientTypes
  <2> QED BY <1>2, <1>3, <2>1 DEF ClientTypes
<1>9. PacketStart' = PacketStart
  BY <1>2 DEF PacketStart
<1>10. CASE Unopened
  <2>1. Unopened'
    BY <1>2, <1>10 DEF Unopened
  <2> QED BY <1>8, <2>1 DEF ClientInv
<1>11. CASE Opened
  <2>1. \A k \in 1 .. Len(buf) : wire'[PacketStart + k] = wire[PacketStart + k]
    <3>1. \A k \in 1 .. Len(buf) : PacketStart + k \in 1 .. Len(wire)
      BY <1>4
    <3> QED BY <1>1, <3>1 DEF Extended
  <2>2. BufferInv'
    <3>1. Length' = Length
      BY <1>2 DEF Length
    <3> QED BY <1>2, <1>9, <1>11, <2>1, <3>1 DEF Opened, BufferInv
  <2>3. ASSUME Astray PROVE Astray'
    <3>1. received' = <<>> /\ PacketStart' = taken'
      BY <1>2, <1>9, <2>3 DEF Astray
    <3>2. \A i \in 1 .. Len(bounds) : bounds[i].cells # taken
      <4>1. DOMAIN bounds = 1 .. Len(bounds)
        BY LenProperties DEF WireInv, WireTypes
      <4> QED BY <2>3, <4>1 DEF Astray, TakenWhole
    <3>3. DOMAIN bounds' = 1 .. Len(bounds) + 1
      <4>1. bounds' \in Seq(Bound) /\ Len(bounds') = Len(bounds) + 1
        BY <1>1 DEF Extended
      <4> QED BY <4>1, LenProperties
    <3>4. bounds'[Len(bounds) + 1].cells = Len(wire')
      BY <1>1 DEF Extended
    <3>5. taken <= Len(wire)
      BY <1>4, <1>11 DEF Opened
    <3>6. ASSUME NEW i \in 1 .. Len(bounds) + 1 PROVE bounds'[i].cells # taken
      <4>1. CASE i = Len(bounds) + 1
        <5>1. Len(wire') # taken
          BY <1>4, <1>7, <3>5
        <5> QED BY <3>4, <4>1, <5>1
      <4>2. CASE i # Len(bounds) + 1
        <5>1. i \in 1 .. Len(bounds)
          BY <1>5, <4>2
        <5> QED BY <1>6, <3>2, <5>1
      <4> QED BY <4>1, <4>2
    <3>7. ~TakenWhole'
      BY <1>2, <3>3, <3>6 DEF TakenWhole
    <3> QED BY <3>1, <3>7 DEF Astray
  <2>4. ASSUME NEW i \in 1 .. Len(bounds), NEW j \in 1 .. i, InStep(j, i)
        PROVE  InStep(j, i)'
    <3>1. j \in 1 .. Len(bounds)
      BY <1>5
    <3>2. bounds'[i] = bounds[i] /\ bounds'[j] = bounds[j]
      BY <1>6, <3>1
    <3>3. /\ bounds[i].payloads \in Nat /\ bounds[j].payloads \in Nat
          /\ bounds[i].payloads <= Len(payloads)
      BY <1>5, <3>1
    <3>4. Len(received) = bounds[i].payloads - bounds[j].payloads
      BY <2>4 DEF InStep
    <3> DEFINE x == bounds[i].payloads
               y == bounds[j].payloads
               r == Len(received)
               l == Len(payloads)
    <3>5. r \in Nat /\ x \in Nat /\ y \in Nat /\ l \in Nat /\ r = x - y /\ x <= l
      BY <1>4, <1>5, <3>3, <3>4
    <3> HIDE DEF x, y, r, l
    <3>6. \A k \in 1 .. r : y + k \in 1 .. l
      BY <3>5
    <3>7. \A k \in 1 .. Len(received) :
            payloads'[bounds[j].payloads + k] = payloads[bounds[j].payloads + k]
      <4>1. \A k \in 1 .. l : payloads'[k] = payloads[k]
        BY <1>1 DEF Extended, l
      <4> QED BY <3>6, <4>1 DEF r, y
    <3> QED BY <1>2, <1>9, <2>4, <3>2, <3>7 DEF InStep
  <2>5. Astray' \/ \E i \in 1 .. Len(bounds') : \E j \in 1 .. i : InStep(j, i)'
    <3>1. CASE Astray
      BY <2>3, <3>1
    <3>2. CASE ~Astray
      <4>1. PICK i \in 1 .. Len(bounds) : \E j \in 1 .. i : InStep(j, i)
        BY <1>11, <3>2 DEF Opened
      <4>2. Len(bounds') = Len(bounds) + 1
        BY <1>1 DEF Extended
      <4>3. i \in 1 .. Len(bounds')
        BY <1>5, <4>2
      <4> QED BY <2>4, <4>1, <4>3
    <3> QED BY <3>1, <3>2
  <2>6. Opened'
    BY <1>2, <1>9, <1>11, <2>2, <2>5 DEF Opened
  <2> QED BY <1>8, <2>6 DEF ClientInv
<1> QED BY <1>3, <1>10, <1>11

\* The Read of the reply: from here on the client is in step, or astray.
LEMMA ReplyClient ==
  ASSUME WireInv, ClientInv, ReadReply
  PROVE  /\ ClientInv'
         /\ read = 0 /\ buf = <<>> /\ PacketStart' = read'
         /\ phase' = "ended" => read' <= 2
<1>1. ClientTypes /\ Unopened /\ phase = "reply"
  BY DEF ReadReply, ClientInv, Opened
<1>2. read = 0 /\ buf = <<>> /\ received = <<>> /\ Len(buf) = 0 /\ end = "none"
  BY <1>1 DEF ClientTypes, Unopened
<1> DEFINE text == Got(ReplyBuf)
<1>3. /\ ReadN(ReplyBuf) /\ taken' = Len(text)
      /\ IF Connected(text) THEN phase' = "packet" /\ UNCHANGED end
           ELSE EndWith(IF IsAuthRejection(text) THEN "rejected" ELSE "unexpected")
      /\ UNCHANGED <<reply, wire, buf, received, history>>
  BY DEF ReadReply
<1>4. ReplyBuf \in Nat \ {0}
  BY StreamAssumption
<1>5. PICK got \in 1 .. ReplyBuf :
        /\ text \in Seq(AnyCell) /\ Len(text) = got
        /\ \A k \in 1 .. got : text[k] = wire[read + k]
        /\ read' = read + got /\ read + got \in 0 .. Len(wire)
        /\ avail' \in 0 .. Len(wire) - (read + got)
  BY <1>1, <1>3, <1>4, ReadFacts
<1> HIDE DEF text
<1>6. /\ got \in Nat /\ Len(wire) \in Nat /\ read' = got /\ got <= Len(wire) /\ taken' = got
      /\ \A k \in 1 .. got : text[k] = wire[k]
  BY <1>1, <1>2, <1>3, <1>4, <1>5, ClientFacts
<1>7. buf' = <<>> /\ received' = <<>> /\ Len(buf') = 0 /\ PacketStart' = read'
  <2>1. Len(buf') = 0
    BY <1>2, <1>3
  <2>2. PacketStart' = read'
    BY <1>6, <2>1 DEF PacketStart
  <2> QED BY <1>2, <1>3, <2>1, <2>2
<1>8. \/ phase' = "packet" /\ end' = "none" /\ Connected(text)
      \/ phase' = "ended" /\ end' \in {"rejected", "unexpected"} /\ ~Connected(text)
  <2>1. CASE Connected(text)
    BY <1>2, <1>3, <2>1
  <2>2. CASE ~Connected(text)
    BY <1>3, <2>2 DEF EndWith
  <2> QED BY <2>1, <2>2
<1>9. ClientTypes'
  <2>1. read' \in 0 .. Len(wire') /\ avail' \in 0 .. Len(wire') - read'
    BY <1>3, <1>5
  <2>2. taken' \in 0 .. ReplyBuf /\ Len(buf') <= read' /\ phase' # "reply"
    BY <1>4, <1>6, <1>7, <1>8
  <2>3. buf' \in Seq(AnyCell) /\ received' \in Seq(Seq(AnyByte))
    BY <1>7
  <2>4. phase' \in {"packet", "ended"} /\ end' \in {"none", "rejected", "unexpected"}
        /\ (end' # "none" <=> phase' = "ended")
    BY <1>8
  <2> QED BY <2>1, <2>2, <2>3, <2>4 DEF ClientTypes
<1>10. Len(Start) = 2
  BY ReplyCells DEF Replies
<1>11. CASE Connected(text)
  <2>1. phase' = "packet" /\ end' = "none"
    BY <1>8, <1>11
  <2>2. 2 <= taken' /\ taken' = PacketStart'
    BY <1>5, <1>6, <1>7, <1>10, <1>11 DEF Connected
  <2>3. BufferInv'
    BY <1>7 DEF BufferInv
  <2>4. CASE TakenWhole'
    <3>1. bounds' \in Seq(Bound) /\ bounds' = bounds
      BY <1>3 DEF WireInv, WireTypes, history
    <3>2. DOMAIN bounds' = 1 .. Len(bounds')
      BY <3>1, LenProperties
    <3>3. PICK i \in 1 .. Len(bounds') : bounds'[i].cells = taken'
      BY <2>4, <3>2 DEF TakenWhole
    <3>4. bounds'[i].payloads \in Nat /\ i \in 1 .. i
      <4>1. /\ \A k \in 1 .. Len(sent) + 1 : bounds[k].payloads \in Nat
            /\ Len(bounds) = Len(sent) + 1 /\ Len(sent) \in Nat
        BY BoundFacts DEF WireInv
      <4> QED BY <3>1, <4>1
    <3>5. InStep(i, i)'
      <4>1. Len(received') = 0 /\ bounds'[i].payloads - bounds'[i].payloads = 0
        BY <1>7, <3>4
      <4> QED BY <2>2, <3>3, <4>1 DEF InStep
    <3>6. Opened'
      BY <2>1, <2>2, <2>3, <3>4, <3>5, <1>6 DEF Opened
    <3> QED BY <1>2, <1>7, <1>9, <2>1, <3>6 DEF ClientInv
  <2>5. CASE ~TakenWhole'
    <3>1. Astray'
      BY <1>7, <2>2, <2>5 DEF Astray
    <3>2. Opened'
      BY <2>1, <2>2, <2>3, <3>1, <1>6 DEF Opened
    <3> QED BY <1>2, <1>7, <1>9, <2>1, <3>2 DEF ClientInv
  <2> QED BY <2>4, <2>5
<1>12. CASE ~Connected(text)
  <2>1. phase' = "ended" /\ end' \in {"rejected", "unexpected"}
    BY <1>8, <1>12
  <2>2. got <= 2
    <3>1. CASE reply = Start
      <4>1. SUFFICES ASSUME got >= 2 PROVE FALSE
        BY <1>6
      <4>2. text[1] = Start[1] /\ text[2] = Start[2]
        <5>1. 1 \in 1 .. got /\ 2 \in 1 .. got
          BY <1>6, <4>1
        <5> QED BY <1>6, <3>1, <5>1 DEF WireInv
      <4> DEFINE s == SubSeq(text, 1, 2)
      <4>3. s = SubSeq(text, 1, 2)
        OBVIOUS
      <4> HIDE DEF s
      <4>4. s = <<text[1], text[2]>>
        <5>1. \A k \in 1 .. 2 : text[k] \in AnyCell
          <6>1. \A k \in 1 .. 2 : k \in 1 .. Len(text)
            BY <1>5, <1>6, <4>1
          <6> QED BY <1>5, <6>1, ElementOfSeq
        <5>2. /\ s \in Seq(AnyCell)
              /\ Len(s) = 2 /\ s[1] = text[1] /\ s[2] = text[2]
          BY <4>3, <5>1, SubSeqProperties
        <5> QED BY <5>2
      <4>5. s = Start
        BY <4>2, <4>4 DEF Start
      <4>6. Connected(text)
        BY <1>5, <1>10, <4>1, <4>3, <4>5 DEF Connected
      <4> QED BY <1>12, <4>6
    <3>2. CASE reply # Start
      <4>1. sent = <<>>
        BY <3>2 DEF WireInv
      <4>2. Len(bounds) = 1
        <5>1. Len(sent) = 0
          BY <4>1
        <5> QED BY <5>1 DEF WireInv, WireTypes
      <4>3. Len(wire) = 2
        BY <4>2 DEF WireInv, BoundsInOrder
      <4> QED BY <1>6, <4>3
    <3> QED BY <3>1, <3>2
  <2>3. Unopened'
    BY <1>6, <1>7, <2>1, <2>2 DEF Unopened
  <2> QED BY <1>2, <1>6, <1>7, <1>9, <2>2, <2>3 DEF ClientInv
<1> QED BY <1>11, <1>12

\* The other steps change neither the wire nor where the packet begins.
LEMMA OtherSteps ==
  ASSUME WireInv, ClientInv, RecordArrives \/ BadMagic \/ ReadFails \/ UNCHANGED vars
  PROVE  ClientInv' /\ PacketStart' = PacketStart /\ UNCHANGED <<received, history>>
<1>1. UNCHANGED <<reply, wire, read, buf, taken, received, history>>
  BY DEF RecordArrives, BadMagic, ReadFails, vars
<1>2. ClientTypes /\ (Unopened \/ Opened)
  BY DEF ClientInv
<1>3. PacketStart' = PacketStart /\ bounds' = bounds /\ payloads' = payloads /\ Length' = Length
  BY <1>1 DEF PacketStart, history, Length
<1>4. BufferInv => BufferInv'
  BY <1>1, <1>3 DEF BufferInv
<1>5. /\ Astray => Astray'
      /\ \A i, j : InStep(j, i) => InStep(j, i)'
  BY <1>1, <1>3 DEF Astray, TakenWhole, InStep
<1>6. ASSUME Opened, phase' # "reply", end' = "badMagic" => Len(buf) >= 3 /\ buf[1] # Magic
      PROVE  Opened'
  <2>1. Astray' \/ \E i \in 1 .. Len(bounds') : \E j \in 1 .. i : InStep(j, i)'
    BY <1>3, <1>5, <1>6 DEF Opened
  <2>2. /\ BufferInv' /\ 2 <= taken' /\ taken' <= PacketStart'
        /\ end' = "badMagic" => Len(buf') >= 3 /\ buf'[1] # Magic
    BY <1>1, <1>3, <1>4, <1>6 DEF Opened
  <2> QED BY <1>6, <2>1, <2>2 DEF Opened
<1>7. CASE RecordArrives
  <2>1. UNCHANGED <<phase, end>> /\ avail' \in 0 .. Len(wire) - read
    <3>1. avail' \in 1 .. Len(wire) - read /\ UNCHANGED <<phase, end>>
      BY <1>7 DEF RecordArrives
    <3>2. Len(wire) \in Nat /\ read \in Nat
      BY <1>2, ClientFacts
    <3> QED BY <3>1, <3>2
  <2>2. ClientTypes'
    BY <1>1, <1>2, <2>1 DEF ClientTypes
  <2>3. Unopened => Unopened'
    BY <1>1, <2>1 DEF Unopened
  <2>4. Opened => Opened'
    BY <1>6, <2>1 DEF Opened
  <2> QED BY <1>1, <1>2, <1>3, <2>2, <2>3, <2>4 DEF ClientInv
<1>8. CASE BadMagic
  <2>1. /\ phase = "packet" /\ Header /\ buf[1] # Magic
        /\ phase' = "ended" /\ end' = "badMagic" /\ avail' = avail
    BY <1>8 DEF BadMagic, MagicOK, EndWith
  <2>2. ClientTypes'
    BY <1>1, <1>2, <2>1 DEF ClientTypes
  <2>3. Opened
    BY <1>2, <2>1 DEF Unopened
  <2>4. Opened'
    BY <1>6, <2>1, <2>3 DEF Header, HeaderSize
  <2> QED BY <1>1, <1>3, <2>2, <2>4 DEF ClientInv
<1>9. CASE ReadFails
  <2>1. phase # "ended" /\ phase' = "ended" /\ end' = "read" /\ avail' = avail
    BY <1>9 DEF ReadFails, EndWith
  <2>2. ClientTypes'
    BY <1>1, <1>2, <2>1 DEF ClientTypes
  <2>3. Unopened => Unopened'
    BY <1>1, <2>1 DEF Unopened
  <2>4. Opened => Opened'
    BY <1>6, <2>1 DEF Opened
  <2> QED BY <1>1, <1>2, <1>3, <2>2, <2>3, <2>4 DEF ClientInv
<1>10. CASE UNCHANGED vars
  <2>1. UNCHANGED <<phase, end, avail>>
    BY <1>10 DEF vars
  <2>2. ClientTypes'
    BY <1>1, <1>2, <2>1 DEF ClientTypes
  <2>3. Unopened => Unopened'
    BY <1>1, <2>1 DEF Unopened
  <2>4. Opened => Opened'
    BY <1>6, <2>1 DEF Opened
  <2> QED BY <1>1, <1>2, <1>3, <2>2, <2>3, <2>4 DEF ClientInv
<1> QED BY <1>7, <1>8, <1>9, <1>10

-----------------------------------------------------------------------------
(* The invariant and what follows from it.                                 *)

\* Whatever the gateway sends and however it arrives, the wire is the reply and
\* the frames, and the client is in step with them or astray.
THEOREM Invariant == Spec => [](WireInv /\ ClientInv)
<1>1. Init => WireInv /\ ClientInv
  <2> SUFFICES ASSUME Init PROVE WireInv /\ ClientInv
    OBVIOUS
  <2>1. WireInv
    BY InitWire
  <2>2. Len(wire) \in Nat
    BY <2>1, LenProperties DEF WireInv, WireTypes
  <2>3. /\ read = 0 /\ avail = 0 /\ phase = "reply" /\ buf = <<>> /\ taken = 0
        /\ received = <<>> /\ end = "none"
    BY DEF Init
  <2>4. buf \in Seq(AnyCell) /\ Len(buf) = 0 /\ received \in Seq(Seq(AnyByte))
    BY <2>3
  <2>5. ClientTypes
    BY <2>2, <2>3, <2>4, StreamAssumption DEF ClientTypes
  <2>6. Unopened
    BY <2>3 DEF Unopened
  <2> QED BY <2>1, <2>5, <2>6 DEF ClientInv
<1>2. WireInv /\ ClientInv /\ [Next]_vars => (WireInv /\ ClientInv)'
  <2> SUFFICES ASSUME WireInv, ClientInv, [Next]_vars PROVE WireInv' /\ ClientInv'
    OBVIOUS
  <2>1. CASE GatewaySends
    BY <2>1, SendWire, SendClient
  <2>2. CASE ~GatewaySends
    <3>1. UNCHANGED <<reply, wire, sent, payloads, bounds>>
      BY <2>2 DEF Next, RecordArrives, ReadReply, ReadCells, BadMagic, PacketRead, ReadFails,
                  Ended, Waiting, vars, history
    <3>2. WireInv'
      BY <3>1 DEF WireInv, WireTypes, BoundsInOrder, WireCovered, FrameOnWire
    <3>3. CASE ReadReply BY <3>2, <3>3, ReplyClient
    <3>4. CASE ReadCells BY <3>2, <3>4, CellsClient
    <3>5. CASE PacketRead BY <3>2, <3>5, PacketClient
    <3>6. CASE RecordArrives \/ BadMagic \/ ReadFails \/ UNCHANGED vars
      BY <3>2, <3>6, OtherSteps
    <3> QED BY <2>2, <3>3, <3>4, <3>5, <3>6 DEF Next, Ended, Waiting
  <2> QED BY <2>1, <2>2
<1> QED BY <1>1, <1>2, PTL DEF Spec

\* Every variable keeps its type; above all, the packet that is being read is
\* never longer than a frame, whatever its length field says.
THEOREM StreamTypeCorrect == Spec => []TypeOK
<1>1. WireInv /\ ClientInv => TypeOK
  <2> SUFFICES ASSUME WireInv, ClientInv PROVE TypeOK
    OBVIOUS
  <2>1. ClientTypes /\ (Unopened \/ Opened)
    BY DEF ClientInv
  <2>2. DOMAIN sent = 1 .. Len(sent)
    BY LenProperties DEF WireInv, WireTypes
  <2>3. Len(buf) <= HeaderSize + MaxPayload
    <3>1. Len(buf) \in Nat /\ MaxPayload \in Nat
      BY <2>1, ClientFacts, StreamAssumption
    <3>2. CASE Unopened
      BY <3>1, <3>2 DEF Unopened, HeaderSize
    <3>3. CASE Opened
      <4>1. CASE Len(buf) <= 3
        BY <3>1, <4>1 DEF HeaderSize
      <4>2. CASE ~(Len(buf) <= 3)
        <5>1. buf[1] = Magic /\ Len(buf) <= 3 + Length
          BY <3>3, <4>2 DEF Opened, BufferInv
        <5>2. Header /\ MagicOK
          BY <3>1, <4>2, <5>1 DEF Header, HeaderSize, MagicOK
        <5>3. Length \in 0 .. MaxPayload
          BY <2>1, <3>3, <5>2, HeaderRead
        <5> QED BY <3>1, <5>1, <5>3 DEF HeaderSize
      <4> QED BY <4>1, <4>2
    <3> QED BY <2>1, <3>2, <3>3
  <2> QED BY <2>1, <2>2, <2>3 DEF TypeOK, WireInv, WireTypes, ClientTypes
<1> QED BY <1>1, Invariant, PTL

\* If the Read of the reply returned the reply and no more, no payload is missed;
\* and the client takes something for garbage only if it is, or if that Read took
\* the beginning of a packet.
THEOREM LossIsExplained == Spec => []LossHasCause
<1>1. WireInv /\ ClientInv => LossHasCause
  <2> SUFFICES ASSUME WireInv, ClientInv PROVE LossHasCause
    OBVIOUS
  <2>1. ClientTypes /\ (Unopened \/ Opened)
    BY DEF ClientInv
  <2>2. /\ Len(sent) \in Nat /\ Len(bounds) = Len(sent) + 1 /\ Len(payloads) \in Nat
        /\ \A i \in 1 .. Len(sent) + 1 :
             /\ bounds[i].cells \in Nat /\ bounds[i].payloads \in Nat
             /\ bounds[i].payloads <= Len(payloads)
    BY BoundFacts DEF WireInv
  <2>3. DOMAIN sent = 1 .. Len(sent) /\ DOMAIN bounds = 1 .. Len(bounds)
        /\ DOMAIN received = 1 .. Len(received)
    BY <2>1, LenProperties DEF WireInv, WireTypes, ClientTypes
  <2>4. MissedOnlyWithReply
    <3>1. SUFFICES ASSUME taken = 2
                   PROVE  /\ Len(received) <= Len(payloads)
                          /\ \A k \in 1 .. Len(received) : received[k] = payloads[k]
      <4>1. Len(Start) = 2
        BY ReplyCells DEF Replies
      <4> QED BY <2>3, <4>1 DEF MissedOnlyWithReply
    <3>2. CASE Unopened
      <4>1. Len(received) = 0
        BY <3>2 DEF Unopened
      <4> QED BY <2>2, <4>1
    <3>3. CASE Opened
      <4>1. bounds[1].cells = 2 /\ bounds[1].payloads = 0 /\ 1 \in 1 .. Len(bounds)
        BY <2>2 DEF WireInv, BoundsInOrder
      <4>2. ~Astray
        BY <2>3, <3>1, <4>1 DEF Astray, TakenWhole
      <4>3. PICK i \in 1 .. Len(bounds) : \E j \in 1 .. i : InStep(j, i)
        BY <3>3, <4>2 DEF Opened
      <4>4. PICK j \in 1 .. i : InStep(j, i)
        BY <4>3
      <4>5. j = 1
        <5>1. j \in 1 .. Len(bounds) /\ bounds[j].cells = bounds[1].cells
          BY <2>2, <3>1, <4>1, <4>4 DEF InStep
        <5> QED BY <4>1, <5>1, BoundsDiffer DEF WireInv
      <4>6. /\ Len(received) = bounds[i].payloads - 0
            /\ \A k \in 1 .. Len(received) : received[k] = payloads[0 + k]
        BY <4>1, <4>4, <4>5 DEF InStep
      <4>7. bounds[i].payloads \in Nat /\ bounds[i].payloads <= Len(payloads)
        BY <2>2
      <4>8. Len(received) = bounds[i].payloads
        BY <4>6, <4>7
      <4>9. ASSUME NEW k \in 1 .. Len(received) PROVE received[k] = payloads[k]
        <5>1. 0 + k = k
          BY <4>7, <4>8
        <5> QED BY <4>6, <5>1
      <4> QED BY <4>7, <4>8, <4>9
    <3> QED BY <2>1, <3>2, <3>3
  <2>5. BadMagicHasCause
    <3>1. SUFFICES ASSUME end = "badMagic", TakenWhole
                   PROVE  \E i \in 1 .. Len(sent) : sent[i].magic # Magic
      BY <2>3 DEF BadMagicHasCause
    <3>2. Opened
      BY <2>1, <3>1 DEF Unopened
    <3>3. PICK i \in 1 .. Len(bounds) : \E j \in 1 .. i : InStep(j, i)
      BY <3>1, <3>2 DEF Opened, Astray
    <3>4. bounds[i].cells = PacketStart
      BY <3>3 DEF InStep
    <3>5. Len(buf) >= 3 /\ buf[1] # Magic
      BY <3>1, <3>2 DEF Opened
    <3>6. /\ Len(wire) \in Nat /\ PacketStart \in Nat /\ Len(buf) \in Nat
          /\ PacketStart + Len(buf) <= Len(wire)
      BY <2>1, ClientFacts
    <3>7. i \in 1 .. Len(sent)
      <4>1. Len(wire) = bounds[Len(bounds)].cells
        BY DEF WireInv, BoundsInOrder
      <4>2. PacketStart # Len(wire)
        BY <3>5, <3>6
      <4>3. i # Len(bounds)
        BY <3>4, <4>1, <4>2
      <4> QED BY <2>2, <4>3
    <3>8. wire[PacketStart + 1] = sent[i].magic
      BY <3>4, <3>7 DEF WireInv, FrameOnWire, FrameAt
    <3>9. buf[1] = wire[PacketStart + 1]
      <4>1. 1 \in 1 .. Len(buf)
        BY <3>5, <3>6
      <4> QED BY <3>2, <4>1 DEF Opened, BufferInv
    <3> QED BY <3>5, <3>7, <3>8, <3>9
  <2> QED BY <2>4, <2>5 DEF LossHasCause
<1> QED BY <1>1, Invariant, PTL

-----------------------------------------------------------------------------
(* PacketStream implements FrameChannel.                                   *)

\* The first bound that is not before p is the one where the others are.
LEMMA FirstIs ==
  ASSUME NEW b, NEW p \in Nat, NEW n \in Nat, DOMAIN b = 1 .. n,
         \A k \in 1 .. n : b[k].cells \in Nat,
         NEW i \in 1 .. n, b[i].cells >= p, \A j \in 1 .. i - 1 : b[j].cells < p
  PROVE  i = CHOOSE k \in DOMAIN b : b[k].cells >= p /\ \A j \in 1 .. k - 1 : b[j].cells < p
<1> DEFINE c == CHOOSE k \in DOMAIN b : b[k].cells >= p /\ \A j \in 1 .. k - 1 : b[j].cells < p
<1>1. c \in 1 .. n /\ b[c].cells >= p /\ \A j \in 1 .. c - 1 : b[j].cells < p
  OBVIOUS
<1> HIDE DEF c
<1>2. b[c].cells \in Nat /\ b[i].cells \in Nat
  BY <1>1
<1>3. CASE c < i
  <2>1. c \in 1 .. i - 1
    BY <1>1, <1>3
  <2>2. b[c].cells < p
    BY <2>1
  <2> QED BY <1>1, <1>2, <2>2
<1>4. CASE i < c
  <2>1. i \in 1 .. c - 1
    BY <1>1, <1>4
  <2>2. b[i].cells < p
    BY <1>1, <2>1
  <2> QED BY <1>2, <2>2
<1>5. c = i
  BY <1>1, <1>3, <1>4
<1> QED BY <1>5 DEF c

\* i is the next frame.
IsNext(i) ==
  /\ i \in 1 .. Len(bounds) /\ bounds[i].cells >= PacketStart
  /\ \A j \in 1 .. i - 1 : bounds[j].cells < PacketStart

\* The bounds of the frames and the place of the next packet are numbers.
LEMMA NextFrameNumbers ==
  WireInv /\ ClientTypes =>
    /\ Len(bounds) \in Nat /\ DOMAIN bounds = 1 .. Len(bounds) /\ PacketStart \in Nat
    /\ \A k \in 1 .. Len(bounds) : bounds[k].cells \in Nat
<1> SUFFICES ASSUME WireInv, ClientTypes
             PROVE  /\ Len(bounds) \in Nat /\ DOMAIN bounds = 1 .. Len(bounds) /\ PacketStart \in Nat
                    /\ \A k \in 1 .. Len(bounds) : bounds[k].cells \in Nat
  OBVIOUS
<1>1. bounds \in Seq(Bound) /\ WireTypes /\ BoundsInOrder
  BY DEF WireInv, WireTypes
<1> QED BY <1>1, BoundFacts, ClientFacts, LenProperties

\* The first bound at or behind the place of the next packet is the next frame.
LEMMA NextFrameIs ==
  ASSUME WireInv, ClientTypes, NEW i, IsNext(i)
  PROVE  NextFrame = i
<1>1. /\ Len(bounds) \in Nat /\ DOMAIN bounds = 1 .. Len(bounds) /\ PacketStart \in Nat
      /\ \A k \in 1 .. Len(bounds) : bounds[k].cells \in Nat
  BY NextFrameNumbers
<1>2. NextFrame = CHOOSE k \in DOMAIN bounds :
        bounds[k].cells >= PacketStart /\ \A j \in 1 .. k - 1 : bounds[j].cells < PacketStart
  BY DEF NextFrame, PacketStart
<1>3. i = CHOOSE k \in DOMAIN bounds :
        bounds[k].cells >= PacketStart /\ \A j \in 1 .. k - 1 : bounds[j].cells < PacketStart
  BY <1>1, FirstIs DEF IsNext
<1> QED BY <1>2, <1>3

\* The same of the state after a step.
LEMMA NextFrameIsPrimed ==
  ASSUME WireInv', ClientTypes', NEW i, IsNext(i)'
  PROVE  NextFrame' = i
<1>1. (/\ Len(bounds) \in Nat /\ DOMAIN bounds = 1 .. Len(bounds) /\ PacketStart \in Nat
       /\ \A k \in 1 .. Len(bounds) : bounds[k].cells \in Nat)'
  BY NextFrameNumbers, PTL
<1>2. NextFrame' = CHOOSE k \in DOMAIN bounds' :
        bounds'[k].cells >= PacketStart' /\ \A j \in 1 .. k - 1 : bounds'[j].cells < PacketStart'
  BY DEF NextFrame, PacketStart
<1>3. i = CHOOSE k \in DOMAIN bounds' :
        bounds'[k].cells >= PacketStart' /\ \A j \in 1 .. k - 1 : bounds'[j].cells < PacketStart'
  BY <1>1, FirstIs DEF IsNext
<1> QED BY <1>2, <1>3

\* There is a next frame: the wire ends where the next one would begin.
LEMMA NextFrameExists == WireInv /\ ClientTypes => IsNext(NextFrame)
<1> SUFFICES ASSUME WireInv, ClientTypes PROVE IsNext(NextFrame)
  OBVIOUS
<1>1. /\ Len(bounds) \in Nat \ {0} /\ PacketStart \in Nat /\ PacketStart <= Len(wire)
      /\ Len(wire) = bounds[Len(bounds)].cells
      /\ \A k \in 1 .. Len(bounds) : bounds[k].cells \in Nat
  <2>1. WireTypes /\ BoundsInOrder
    BY DEF WireInv
  <2>2. /\ Len(sent) \in Nat /\ Len(bounds) = Len(sent) + 1
        /\ \A k \in 1 .. Len(sent) + 1 : bounds[k].cells \in Nat
    BY <2>1, BoundFacts
  <2>3. PacketStart \in Nat /\ PacketStart <= Len(wire)
    BY ClientFacts
  <2> QED BY <2>1, <2>2, <2>3 DEF BoundsInOrder
<1> DEFINE T == {k \in 1 .. Len(bounds) : bounds[k].cells >= PacketStart}
<1>2. T \subseteq Nat
  OBVIOUS
<1>3. Len(bounds) \in T
  BY <1>1
<1> HIDE DEF T
<1>4. PICK i \in T : \A k \in T : i <= k
  BY <1>2, <1>3, LeastNatural
<1>5. i \in 1 .. Len(bounds) /\ bounds[i].cells >= PacketStart
  BY <1>4 DEF T
<1>6. ASSUME NEW j \in 1 .. i - 1 PROVE bounds[j].cells < PacketStart
  <2>1. j \in 1 .. Len(bounds) /\ ~(i <= j)
    BY <1>1, <1>5
  <2>2. j \notin T
    BY <1>4, <2>1
  <2>3. ~(bounds[j].cells >= PacketStart)
    BY <2>1, <2>2 DEF T
  <2> QED BY <1>1, <2>1, <2>3
<1>7. IsNext(i)
  BY <1>5, <1>6 DEF IsNext
<1> QED BY <1>7, NextFrameIs

\* The next frame is where the packet in the client's hands begins, if one does.
LEMMA NextIsHere ==
  ASSUME WireInv, ClientTypes, NEW i \in 1 .. Len(bounds), bounds[i].cells = PacketStart
  PROVE  IsNext(i)
<1>1. /\ PacketStart \in Nat /\ Len(bounds) \in Nat
      /\ \A j \in 1 .. i - 1 : bounds[j].cells < bounds[i].cells
  BY NextFrameNumbers DEF WireInv, BoundsInOrder
<1> QED BY <1>1 DEF IsNext

\* What follows the m-th element of a sequence.
Rest(s, m) == SubSeq(s, m + 1, Len(s))

\* The rest of a sequence: its length and its elements.
LEMMA RestFacts ==
  ASSUME NEW S, NEW s \in Seq(S), NEW m \in 0 .. Len(s)
  PROVE  /\ Rest(s, m) \in Seq(S) /\ Len(Rest(s, m)) = Len(s) - m
         /\ \A k \in 1 .. Len(s) - m : Rest(s, m)[k] = s[m + k]
<1> DEFINE lo == m + 1
           hi == Len(s)
           t  == SubSeq(s, lo, hi)
<1>1. hi \in Nat /\ m \in Nat /\ m <= hi
  BY LenProperties
<1>2. lo \in Int /\ hi \in Int /\ \A k \in lo .. hi : s[k] \in S
  <2>1. \A k \in lo .. hi : k \in 1 .. Len(s)
    BY <1>1
  <2> QED BY <1>1, <2>1, ElementOfSeq
<1>3. t = SubSeq(s, lo, hi)
  OBVIOUS
<1>4. /\ (hi - lo) + 1 = hi - m /\ (lo <= hi => hi - lo + 1 = hi - m) /\ (~(lo <= hi) => hi - m = 0)
      /\ \A k \in 1 .. hi - m : k \in 1 .. hi - lo + 1 /\ lo + k - 1 = m + k
  BY <1>1
<1> HIDE DEF lo, hi, t
<1>5. /\ t \in Seq(S)
      /\ Len(t) = IF lo <= hi THEN hi - lo + 1 ELSE 0
      /\ \A k \in 1 .. hi - lo + 1 : t[k] = s[lo + k - 1]
  BY ONLY <1>2, <1>3, SubSeqProperties
<1>6. Len(t) = hi - m
  BY <1>4, <1>5
<1>7. \A k \in 1 .. hi - m : t[k] = s[m + k]
  BY <1>4, <1>5
<1>8. Rest(s, m) = t
  BY DEF Rest, t, lo, hi
<1> QED BY <1>5, <1>6, <1>7, <1>8 DEF hi

\* The rest of a longer sequence is longer.
LEMMA RestAppend ==
  ASSUME NEW S, NEW s \in Seq(S), NEW m \in 0 .. Len(s), NEW x \in S
  PROVE  Rest(Append(s, x), m) = Append(Rest(s, m), x)
<1> DEFINE a == Append(s, x)
           t == Rest(s, m)
           u == Rest(a, m)
           v == Append(t, x)
<1>1. Len(s) \in Nat /\ m \in Nat /\ m <= Len(s)
  BY LenProperties
<1>2. /\ a \in Seq(S) /\ Len(a) = Len(s) + 1
      /\ \A k \in 1 .. Len(s) : a[k] = s[k]
      /\ a[Len(s) + 1] = x
  BY AppendProperties
<1>3. /\ t \in Seq(S) /\ Len(t) = Len(s) - m
      /\ \A k \in 1 .. Len(s) - m : t[k] = s[m + k]
  BY RestFacts
<1> HIDE DEF a, t
<1>4. m \in 0 .. Len(a)
  BY <1>1, <1>2
<1>5. /\ u \in Seq(S) /\ Len(u) = Len(a) - m
      /\ \A k \in 1 .. Len(a) - m : u[k] = a[m + k]
  BY <1>2, <1>4, RestFacts
<1>6. /\ v \in Seq(S) /\ Len(v) = Len(t) + 1
      /\ \A k \in 1 .. Len(t) : v[k] = t[k]
      /\ v[Len(t) + 1] = x
  BY <1>3, AppendProperties
<1> HIDE DEF u, v
<1>7. Len(u) = Len(v)
  BY <1>1, <1>2, <1>3, <1>5, <1>6
<1>8. ASSUME NEW k \in 1 .. Len(u) PROVE u[k] = v[k]
  <2>1. CASE k = Len(t) + 1
    <3>1. m + k = Len(s) + 1 /\ k \in 1 .. Len(a) - m
      BY <1>1, <1>2, <1>3, <2>1
    <3> QED BY <1>2, <1>5, <1>6, <2>1, <3>1
  <2>2. CASE k # Len(t) + 1
    <3>1. k \in 1 .. Len(t) /\ k \in 1 .. Len(s) - m /\ k \in 1 .. Len(a) - m /\ m + k \in 1 .. Len(s)
      <4> DEFINE n == Len(s)
      <4>1. /\ Len(t) = n - m /\ Len(a) = n + 1 /\ n \in Nat /\ m \in Nat /\ m <= n
            /\ Len(u) = (n + 1) - m
        BY <1>1, <1>2, <1>3, <1>5
      <4> HIDE DEF n
      <4>2. k \in 1 .. (n + 1) - m /\ k # (n - m) + 1
        BY <2>2, <4>1
      <4>3. k \in 1 .. n - m /\ m + k \in 1 .. n
        BY <4>1, <4>2
      <4> QED BY <4>1, <4>2, <4>3 DEF n
    <3> QED BY <1>2, <1>3, <1>5, <1>6, <3>1
  <2> QED BY <2>1, <2>2
<1>9. u = v
  BY <1>5, <1>6, <1>7, <1>8, SeqEqual
<1> QED BY <1>9 DEF a, t, u, v

\* The first of the rest, and what follows.
LEMMA RestHead ==
  ASSUME NEW S, NEW s \in Seq(S), NEW m \in 0 .. Len(s), m # Len(s)
  PROVE  /\ Rest(s, m) # <<>> /\ Head(Rest(s, m)) = s[m + 1]
         /\ Tail(Rest(s, m)) = Rest(s, m + 1)
<1> DEFINE t == Rest(s, m)
           n == m + 1
           u == Rest(s, n)
<1>1. Len(s) \in Nat /\ m \in Nat /\ m < Len(s) /\ n \in 0 .. Len(s)
  BY LenProperties
<1>2. /\ t \in Seq(S) /\ Len(t) = Len(s) - m
      /\ \A k \in 1 .. Len(s) - m : t[k] = s[m + k]
  BY RestFacts
<1>3. n = m + 1
  OBVIOUS
<1> HIDE DEF n
<1>4. /\ u \in Seq(S) /\ Len(u) = Len(s) - n
      /\ \A k \in 1 .. Len(s) - n : u[k] = s[n + k]
  BY <1>1, RestFacts
<1> HIDE DEF t, u
<1>5. Len(t) > 0 /\ Len(t) \in Nat
  BY <1>1, <1>2
<1>6. t # <<>> /\ Head(t) = t[1]
  BY <1>2, <1>5, EmptySeq, HeadTailProperties
<1>7. Head(t) = s[m + 1]
  <2>1. 1 \in 1 .. Len(s) - m
    BY <1>1
  <2> QED BY <1>2, <1>6, <2>1
<1>8. /\ Tail(t) \in Seq(S) /\ Len(Tail(t)) = Len(t) - 1
      /\ \A k \in 1 .. Len(Tail(t)) : Tail(t)[k] = t[k + 1]
  BY <1>2, <1>6, HeadTailProperties
<1>9. Len(Tail(t)) = Len(u)
  BY <1>1, <1>2, <1>3, <1>4, <1>8
<1>10. ASSUME NEW k \in 1 .. Len(u) PROVE Tail(t)[k] = u[k]
  <2>1. /\ k \in 1 .. Len(s) - n /\ k + 1 \in 1 .. Len(s) - m
        /\ m + (k + 1) = n + k
    BY <1>1, <1>3, <1>4
  <2>2. Tail(t)[k] = t[k + 1]
    BY <1>8, <1>9
  <2> QED BY <1>2, <1>4, <2>1, <2>2
<1>11. Tail(t) = u
  BY <1>4, <1>8, <1>9, <1>10, SeqEqual
<1> QED BY <1>6, <1>7, <1>11 DEF t, u, n

\* The frames that are pending are those from the next one on.
LEMMA PendingFacts ==
  ASSUME WireInv, ClientTypes
  PROVE  /\ payloads \in Seq(Seq(AnyByte))
         /\ \A i \in 1 .. Len(bounds) : bounds[i].payloads \in 0 .. Len(payloads)
         /\ Pending = Rest(payloads, bounds[NextFrame].payloads)
         /\ IsNext(NextFrame) /\ NextFrame \in 1 .. Len(bounds)
<1>1. WireTypes /\ BoundsInOrder
  BY DEF WireInv
<1>2. /\ Len(bounds) = Len(sent) + 1 /\ Len(payloads) \in Nat
      /\ \A i \in 1 .. Len(sent) + 1 :
           bounds[i].payloads \in Nat /\ bounds[i].payloads <= Len(payloads)
  BY <1>1, BoundFacts
<1>3. \A i \in 1 .. Len(bounds) : bounds[i].payloads \in 0 .. Len(payloads)
  BY <1>2
<1>4. Pending = Rest(payloads, bounds[NextFrame].payloads)
  BY DEF Pending, Rest
<1>5. IsNext(NextFrame)
  BY NextFrameExists
<1> QED BY <1>1, <1>3, <1>4, <1>5 DEF WireTypes, IsNext

\* A step that moves neither the wire nor the client changes nothing.
LEMMA SamePending ==
  ASSUME PacketStart' = PacketStart, UNCHANGED <<payloads, bounds>>
  PROVE  Pending' = Pending
BY DEF Pending, NextFrame, PacketStart

\* The gateway sends: what is pending is one more, or the same.
LEMMA PendingSend ==
  ASSUME WireInv, ClientInv, WireInv', ClientInv', GatewaySends
  PROVE  Pending' = Pending \/ \E p \in AllPayloads : Pending' = Append(Pending, p)
<1>1. ClientTypes /\ ClientTypes'
  BY DEF ClientInv
<1>2. PICK f \in Frames(Len(sent) + 1) :
        /\ Extended(f)
        /\ payloads' = IF IsDataFrame(f) THEN Append(payloads, f.payload) ELSE payloads
  <2>1. PICK f \in Frames(Len(sent) + 1) :
          /\ wire' = wire \o EncodePacket(f)
          /\ sent' = Append(sent, f)
          /\ payloads' = IF IsDataFrame(f) THEN Append(payloads, f.payload) ELSE payloads
    BY DEF GatewaySends
  <2>2. PICK g \in Frames(Len(sent) + 1) : Extended(g)
    BY SendExtends
  <2>3. sent \in Seq(AnyFrame) /\ Len(sent) + 1 \in 1 .. MaxFrames
    <3>1. sent \in Seq(AnyFrame)
      BY DEF WireInv, WireTypes
    <3> QED BY <3>1, LenProperties, StreamAssumption DEF GatewaySends
  <2>4. f \in AnyFrame
    BY <2>3 DEF AnyFrame
  <2>5. sent'[Len(sent) + 1] = f
    BY ONLY <2>1, <2>3, <2>4, AppendProperties
  <2>6. f = g
    BY <2>2, <2>5 DEF Extended
  <2> QED BY <2>1, <2>2, <2>6
<1>3. PICK i : i = NextFrame
  OBVIOUS
<1>4. PICK m : m = bounds[i].payloads
  OBVIOUS
<1>5. /\ payloads \in Seq(Seq(AnyByte)) /\ m \in 0 .. Len(payloads)
      /\ Pending = Rest(payloads, m) /\ IsNext(i)
  BY <1>1, <1>3, <1>4, PendingFacts
<1>6. /\ Len(bounds) \in Nat /\ i \in 1 .. Len(bounds)
      /\ \A j \in 1 .. i - 1 : j \in 1 .. Len(bounds)
  <2>1. i \in 1 .. Len(bounds) /\ Len(bounds) \in Nat
    BY <1>1, <1>5, NextFrameNumbers DEF IsNext
  <2> QED BY <2>1
<1>7. Len(bounds') = Len(bounds) + 1 /\ \A j \in 1 .. Len(bounds) : bounds'[j] = bounds[j]
  BY <1>2 DEF Extended
<1>8. PacketStart' = PacketStart
  BY DEF GatewaySends, PacketStart
<1>9. IsNext(i)'
  <2>1. i \in 1 .. Len(bounds')
    BY <1>6, <1>7
  <2>2. bounds'[i] = bounds[i] /\ \A j \in 1 .. i - 1 : bounds'[j] = bounds[j]
    BY <1>6, <1>7
  <2> QED BY <1>5, <1>8, <2>1, <2>2 DEF IsNext
<1>10. Pending' = Rest(payloads', m)
  <2>1. NextFrame' = i
    BY <1>1, <1>9, NextFrameIsPrimed
  <2>2. bounds'[i].payloads = m
    BY <1>4, <1>6, <1>7
  <2> QED BY <2>1, <2>2 DEF Pending, Rest
<1>11. CASE ~IsDataFrame(f)
  BY <1>2, <1>5, <1>10, <1>11
<1>12. CASE IsDataFrame(f)
  <2>1. Len(sent) + 1 \in 1 .. MaxFrames
    <3>1. Len(sent) \in Nat
      BY LenProperties DEF WireInv, WireTypes
    <3> QED BY <3>1, StreamAssumption DEF GatewaySends
  <2>2. f.payload \in Seq(AnyByte)
    BY <2>1, FrameFacts
  <2>3. f.payload \in AllPayloads
    <3>1. PICK id \in 1 .. MaxFrames : id = Len(sent) + 1
      BY <2>1
    <3>2. f \in Frames(id)
      BY <3>1
    <3>3. PICK v \in {4, 6}, n \in 1 .. MaxPayload : f.payload = Payload(v, id, n)
      BY <1>12, <3>2, FrameFacts
    <3> QED BY <3>3 DEF AllPayloads
  <2>4. payloads' = Append(payloads, f.payload)
    BY <1>2, <1>12
  <2> DEFINE p == f.payload
  <2>5. p \in Seq(AnyByte) /\ payloads' = Append(payloads, p)
    BY <2>2, <2>4
  <2> HIDE DEF p
  <2>6. Rest(Append(payloads, p), m) = Append(Rest(payloads, m), p)
    BY ONLY <1>5, <2>5, RestAppend
  <2>7. Pending' = Append(Pending, p)
    BY ONLY <1>5, <1>10, <2>5, <2>6, Zenon
  <2> QED BY <2>3, <2>7 DEF p
<1> QED BY <1>11, <1>12

\* Before the reply is read nothing has been taken from the wire.
LEMMA PendingReply ==
  ASSUME WireInv, ClientInv, WireInv', ClientInv', ReadReply
  PROVE  /\ Pending = payloads
         /\ phase' = "ended" => Pending' = Pending
         /\ \E n \in 0 .. Len(Pending) : Pending' = Rest(Pending, n)
<1>1. ClientTypes /\ ClientTypes'
  BY DEF ClientInv
<1>2. /\ read = 0 /\ buf = <<>> /\ PacketStart' = read' /\ (phase' = "ended" => read' <= 2)
      /\ UNCHANGED <<payloads, bounds>>
  BY ReplyClient DEF ReadReply, history
<1>3. PacketStart = 0
  <2>1. Len(buf) = 0
    BY <1>2
  <2>2. read = 0
    BY <1>2
  <2> QED BY <2>1, <2>2 DEF PacketStart
<1>4. bounds[1].cells = 2 /\ bounds[1].payloads = 0 /\ 1 \in 1 .. Len(bounds)
  <2>1. Len(bounds) \in Nat /\ Len(bounds) # 0
    BY BoundFacts DEF WireInv
  <2> QED BY <2>1 DEF WireInv, BoundsInOrder
<1>5. NextFrame = 1
  <2>1. IsNext(1)
    BY <1>3, <1>4 DEF IsNext
  <2> QED BY <1>1, <2>1, NextFrameIs
<1>6. payloads \in Seq(Seq(AnyByte)) /\ Pending = Rest(payloads, 0) /\ Len(payloads) \in Nat
  BY <1>1, <1>4, <1>5, PendingFacts, LenProperties
<1>7. Pending = payloads
  <2> DEFINE t == Rest(payloads, 0)
             n == Len(payloads)
  <2>1. 0 \in 0 .. n /\ n - 0 = n /\ \A k \in 1 .. n : 0 + k = k
    BY <1>6
  <2>2. /\ t \in Seq(Seq(AnyByte)) /\ Len(t) = n - 0
        /\ \A k \in 1 .. n - 0 : t[k] = payloads[0 + k]
    BY <1>6, <2>1, RestFacts
  <2> HIDE DEF t
  <2>3. t = payloads
    <3>1. Len(t) = Len(payloads) /\ \A k \in 1 .. Len(t) : t[k] = payloads[k]
      BY <2>1, <2>2
    <3> QED BY <1>6, <2>2, <3>1, SeqEqual
  <2> QED BY <1>6, <2>3 DEF t
<1>8. PICK i : i = NextFrame'
  OBVIOUS
<1>9. IsNext(i)'
  <2>1. WireInv' /\ ClientTypes' => IsNext(NextFrame)'
    BY NextFrameExists, PTL
  <2> QED BY <1>1, <1>8, <2>1 DEF IsNext
<1>10. /\ i \in 1 .. Len(bounds) /\ bounds[i].payloads \in 0 .. Len(payloads)
       /\ Pending' = Rest(payloads, bounds[i].payloads)
  <2>1. i \in 1 .. Len(bounds)
    BY <1>2, <1>9 DEF IsNext
  <2>2. bounds[i].payloads \in 0 .. Len(payloads)
    BY <1>1, <2>1, PendingFacts
  <2> QED BY <1>2, <1>8, <2>1, <2>2 DEF Pending, Rest
<1>11. ASSUME phase' = "ended" PROVE Pending' = Pending
  <2>1. IsNext(1)'
    <3>1. PacketStart' <= 2
      BY <1>2, <1>11
    <3>2. PacketStart' \in Nat
      <4>1. (Len(bounds) \in Nat /\ DOMAIN bounds = 1 .. Len(bounds) /\ PacketStart \in Nat
             /\ \A k \in 1 .. Len(bounds) : bounds[k].cells \in Nat)'
        BY <1>1, NextFrameNumbers, PTL
      <4> QED BY <4>1
    <3> QED BY <1>2, <1>4, <3>1, <3>2 DEF IsNext
  <2>2. NextFrame' = 1
    BY <1>1, <2>1, NextFrameIsPrimed
  <2> QED BY <1>2, <1>5, <2>2 DEF Pending
<1> QED BY <1>7, <1>10, <1>11

\* The client has read the next frame, and takes its payload from what is pending.
LEMMA PendingPacket ==
  ASSUME WireInv, ClientInv, WireInv', ClientInv', PacketRead
  PROVE  \/ Pending' = Pending /\ received' = received
         \/ /\ Pending # <<>>
            /\ received' = Append(received, Head(Pending)) /\ Pending' = Tail(Pending)
<1>1. ClientTypes /\ ClientTypes'
  BY DEF ClientInv
<1>2. PICK i \in 1 .. Len(sent) :
        /\ bounds[i].cells = PacketStart /\ bounds[i + 1].cells = PacketStart'
        /\ FrameOnWire(i)
        /\ IF IsDataFrame(sent[i]) THEN received' = Append(received, sent[i].payload)
                                   ELSE received' = received
  BY PacketClient
<1>3. UNCHANGED <<wire, sent, payloads, bounds>>
  BY DEF PacketRead, history
<1>4. PICK k : k = i + 1
  OBVIOUS
<1>5. i \in 1 .. Len(bounds) /\ k \in 1 .. Len(bounds)
  BY <1>4, BoundFacts DEF WireInv
<1>6. NextFrame = i
  BY <1>1, <1>2, <1>5, NextIsHere, NextFrameIs
<1>7. IsNext(k)'
  <2>1. \A j \in 1 .. k - 1 : bounds[j].cells < bounds[k].cells
    BY <1>5 DEF WireInv, BoundsInOrder
  <2>2. PacketStart' = bounds[k].cells
    BY <1>2, <1>4
  <2>3. bounds[k].cells \in Nat
    BY <1>1, <1>5, NextFrameNumbers
  <2> QED BY <1>3, <1>5, <2>1, <2>2, <2>3 DEF IsNext
<1>8. NextFrame' = k
  BY <1>1, <1>7, NextFrameIsPrimed
<1>9. PICK m : m = bounds[i].payloads
  OBVIOUS
<1>10. /\ payloads \in Seq(Seq(AnyByte)) /\ m \in 0 .. Len(payloads)
       /\ bounds[k].payloads \in 0 .. Len(payloads)
       /\ Pending = Rest(payloads, m)
       /\ Pending' = Rest(payloads, bounds[k].payloads)
  <2>1. Pending' = Rest(payloads, bounds[k].payloads)
    BY <1>3, <1>8 DEF Pending, Rest
  <2> QED BY <1>1, <1>5, <1>6, <1>9, <2>1, PendingFacts
<1>11. CASE ~IsDataFrame(sent[i])
  <2>1. bounds[k].payloads = m
    BY <1>2, <1>4, <1>9, <1>11 DEF FrameOnWire, FrameAt
  <2> QED BY <1>2, <1>10, <1>11, <2>1
<1>12. CASE IsDataFrame(sent[i])
  <2> DEFINE p == sent[i].payload
  <2>1. bounds[k].payloads = m + 1 /\ payloads[m + 1] = p /\ received' = Append(received, p)
    BY <1>2, <1>4, <1>9, <1>12 DEF FrameOnWire, FrameAt
  <2> HIDE DEF p
  <2>2. m # Len(payloads)
    <3>1. Len(payloads) \in Nat
      BY <1>10, LenProperties
    <3> QED BY <1>10, <2>1, <3>1
  <2>3. /\ Rest(payloads, m) # <<>> /\ Head(Rest(payloads, m)) = payloads[m + 1]
        /\ Tail(Rest(payloads, m)) = Rest(payloads, m + 1)
    BY ONLY <1>10, <2>2, RestHead
  <2> QED BY ONLY <1>10, <2>1, <2>3, Zenon
<1> QED BY <1>11, <1>12

\* Every step is one of FrameChannel or none.
LEMMA ChannelStep ==
  ASSUME WireInv, ClientInv, WireInv', ClientInv', [Next]_vars
  PROVE  \/ Pending' = Pending /\ received' = received /\ State' = State
         \/ \E p \in AllPayloads :
              Pending' = Append(Pending, p) /\ received' = received /\ State' = State
         \/ /\ State = "opening" /\ State' = "open" /\ received' = received
            /\ \E n \in 0 .. Len(Pending) : Pending' = Rest(Pending, n)
         \/ /\ State = "open" /\ State' = State /\ Pending # <<>>
            /\ received' = Append(received, Head(Pending)) /\ Pending' = Tail(Pending)
         \/ State # "ended" /\ State' = "ended" /\ Pending' = Pending /\ received' = received
<1>1. CASE GatewaySends
  <2>1. received' = received /\ State' = State
    BY <1>1 DEF GatewaySends, State
  <2> QED BY <1>1, <2>1, PendingSend
<1>2. CASE ReadReply
  <2>1. phase = "reply" /\ phase' \in {"packet", "ended"} /\ received' = received
    BY <1>2 DEF ReadReply, EndWith
  <2>2. /\ phase' = "ended" => Pending' = Pending
        /\ \E n \in 0 .. Len(Pending) : Pending' = Rest(Pending, n)
    BY <1>2, PendingReply
  <2> QED BY <2>1, <2>2 DEF State
<1>3. CASE ReadCells
  <2>1. received' = received /\ State' = State /\ UNCHANGED <<payloads, bounds>>
    BY <1>3 DEF ReadCells, State, history
  <2>2. PacketStart' = PacketStart
    BY <1>3, CellsClient
  <2> QED BY <2>1, <2>2, SamePending
<1>4. CASE PacketRead
  <2>1. State = "open" /\ State' = State
    BY <1>4 DEF PacketRead, State
  <2> QED BY <1>4, <2>1, PendingPacket
<1>5. CASE RecordArrives \/ BadMagic \/ ReadFails \/ UNCHANGED vars
  <2>1. Pending' = Pending /\ received' = received
    BY <1>5, OtherSteps, SamePending DEF history
  <2>2. State' = State \/ (State # "ended" /\ State' = "ended")
    BY <1>5 DEF RecordArrives, BadMagic, ReadFails, EndWith, vars, State
  <2> QED BY <2>1, <2>2
<1> QED BY <1>1, <1>2, <1>3, <1>4, <1>5 DEF Next, Ended, Waiting

\* The stream implements FrameChannel: payloads arrive whole and in order, and
\* only at the beginning may some be missed.
THEOREM ImplementsChannel == Spec => ChannelSpec
<1>1. Init => Channel!Init
  <2> SUFFICES ASSUME Init PROVE Channel!Init
    OBVIOUS
  <2>1. payloads = <<>> /\ received = <<>> /\ phase = "reply"
    BY DEF Init
  <2>2. WireInv /\ ClientTypes
    <3>1. WireInv
      BY InitWire
    <3>2. Len(wire) \in Nat
      BY <3>1, LenProperties DEF WireInv, WireTypes
    <3>3. /\ read = 0 /\ avail = 0 /\ phase = "reply" /\ buf = <<>> /\ taken = 0
          /\ received = <<>> /\ end = "none"
      BY DEF Init
    <3>4. buf \in Seq(AnyCell) /\ Len(buf) = 0 /\ received \in Seq(Seq(AnyByte))
      BY <3>3
    <3> QED BY <3>1, <3>2, <3>3, <3>4, StreamAssumption DEF ClientTypes
  <2>3. /\ bounds[NextFrame].payloads \in 0 .. Len(payloads)
        /\ Pending = Rest(payloads, bounds[NextFrame].payloads)
    BY <2>2, PendingFacts
  <2>4. Len(payloads) = 0
    BY <2>1
  <2>5. Pending = <<>>
    <3>1. bounds[NextFrame].payloads = 0
      BY <2>3, <2>4
    <3> QED BY <2>1, <3>1, <2>4, SubSeqEmpty DEF Pending
  <2> QED BY <2>1, <2>5 DEF Channel!Init, State
<1>2. WireInv /\ ClientInv /\ (WireInv /\ ClientInv)' /\ [Next]_vars => [Channel!Next]_(Channel!vars)
  <2> SUFFICES ASSUME WireInv, ClientInv, WireInv', ClientInv', [Next]_vars
               PROVE  [Channel!Next]_(Channel!vars)
    OBVIOUS
  <2>1. CASE Pending' = Pending /\ received' = received /\ State' = State
    BY <2>1 DEF Channel!vars
  <2>2. CASE \E p \in AllPayloads :
               Pending' = Append(Pending, p) /\ received' = received /\ State' = State
    <3>1. PICK p \in AllPayloads : Pending' = Append(Pending, p)
      BY <2>2
    <3>2. received' = received /\ State' = State
      BY <2>2
    <3>3. Channel!Send
      BY <3>1, <3>2 DEF Channel!Send
    <3> QED BY <3>3 DEF Channel!Next
  <2>3. CASE /\ State = "opening" /\ State' = "open" /\ received' = received
             /\ \E n \in 0 .. Len(Pending) : Pending' = Rest(Pending, n)
    BY <2>3 DEF Channel!Next, Channel!Open, Rest
  <2>4. CASE /\ State = "open" /\ State' = State /\ Pending # <<>>
             /\ received' = Append(received, Head(Pending)) /\ Pending' = Tail(Pending)
    BY <2>4 DEF Channel!Next, Channel!Deliver
  <2>5. CASE State # "ended" /\ State' = "ended" /\ Pending' = Pending /\ received' = received
    BY <2>5 DEF Channel!Next, Channel!End
  <2> QED BY <2>1, <2>2, <2>3, <2>4, <2>5, ChannelStep
<1> QED BY <1>1, <1>2, Invariant, PTL DEF Spec, ChannelSpec, Channel!Spec

=============================================================================
