------------------------------ MODULE DataLoop ------------------------------
(***************************************************************************)
(* The data plane of one VPN session: Tunnel.RunDataLoop and everything it *)
(* spawns (pkg/gpst/tunnel.go).                                            *)
(*                                                                         *)
(*   main       the goroutine in RunDataLoop / runSession (the select)     *)
(*   reader     readLoop: connection -> TUN                                *)
(*   writer     writeLoop: tunOut -> connection                            *)
(*   keeper     the keepalive ticker goroutine                             *)
(*   tunReader  the TUN reading goroutine: TUN -> tunOut                   *)
(*                                                                         *)
(* One action is one atomic step of one goroutine: a channel operation, a  *)
(* call on the connection or on the TUN device.  The gateway, the TUN      *)
(* device and whoever holds the caller's context are the environment.      *)
(* Packets from the TUN device are the numbers 1, 2, 3 ... in the order in *)
(* which the device hands them out; data frames from the gateway are       *)
(* numbered the same way.  Time is abstracted: the read deadline may pass  *)
(* whenever nothing is there to read, the keepalive ticker may tick at any *)
(* moment.                                                                 *)
(***************************************************************************)
EXTENDS Naturals, Sequences

CONSTANTS
  QueueCap,   \* capacity of tunOut (64 in the code)
  MaxTun,     \* bound: packets the TUN device hands out
  MaxNet      \* bound: frames the gateway sends

ASSUME BoundsAssumption ==
  /\ QueueCap \in Nat \ {0}
  /\ MaxTun \in Nat
  /\ MaxNet \in Nat

VARIABLES
  callerDone, \* the context given to RunDataLoop is cancelled
  loopDone,   \* RunDataLoop's own cancel() has been called
  sessDone,   \* runSession's own cancel() has been called
  main,       \* "select", "close", "return", "returned"
  result,     \* the error RunDataLoop returns; "none" before it is known
  reader,     \* "check", "read", "tunwrite", "send", "done"
  rhand,      \* payload readLoop is about to write to the TUN device
  rerr,       \* error readLoop has returned and not sent yet
  writer,     \* "select", "write", "send", "done"
  whand,      \* packet writeLoop has taken from tunOut
  werr,       \* error writeLoop has returned and not sent yet
  keeper,     \* "select", "write", "send", "done"
  tunReader,  \* "read", "enqueue", "done"
  thand,      \* packet the TUN goroutine is about to enqueue
  tunOut,     \* chan []byte
  errCh,      \* chan error shared by reader, writer and keeper
  tunReadErr, \* chan error of the TUN goroutine
  connOpen,   \* conn has not been closed on this side
  peer,       \* the gateway: "up", "closed" (FIN or RST), "gone" (silent)
  stream,     \* frames on their way to the client
  tunDev,     \* the TUN device: "open", "fault", "closed"
  nextTun,    \* packets the TUN device has handed out
  nextNet,    \* frames the gateway has sent
  packetsSent, packetsRecv,    \* TunnelStats
  wire,       \* history: packets written to the connection
  netData,    \* history: data frames the gateway has sent
  delivered   \* history: payloads written to the TUN device

ctxVars    == <<callerDone, loopDone, sessDone>>
mainVars   == <<main, result>>
readerVars == <<reader, rhand, rerr, packetsRecv, delivered>>
writerVars == <<writer, whand, werr, packetsSent, wire>>
tunVars    == <<tunReader, thand, nextTun, tunReadErr>>
envVars    == <<peer, stream, nextNet, netData>>

vars == <<ctxVars, mainVars, readerVars, writerVars, keeper, tunVars,
          tunOut, errCh, connOpen, envVars, tunDev>>

-----------------------------------------------------------------------------
(* Channel capacities and contexts.                                        *)

\* Mutant of ErrChCap: room for one error only.
ErrChCapOne == 1

ErrChCap == 3
TunReadErrCap == 1

\* ctx of RunDataLoop, seen by the TUN goroutine.
LoopCtxDone == callerDone \/ loopDone

\* ctx of runSession, seen by main, reader, writer and keeper.
SessCtxDone == LoopCtxDone \/ sessDone

Errors  == {"canceled", "read", "tunwrite", "write", "keepalive"}
Results == Errors \cup {"tunread"}

\* A data frame, a frame readLoop skips (a keepalive, an empty payload, an
\* unknown ethertype), a header with a bad magic.
FrameTypes == {"data", "skipped", "garbage"}
Frames     == [type : FrameTypes, id : Nat]

\* A channel send blocks while the buffer is full.
SendErr(e) ==
  /\ Len(errCh) < ErrChCap
  /\ errCh' = Append(errCh, e)

-----------------------------------------------------------------------------
Init ==
  /\ callerDone = FALSE /\ loopDone = FALSE /\ sessDone = FALSE
  /\ main = "select" /\ result = "none"
  /\ reader = "check" /\ rhand = 0 /\ rerr = "none"
  /\ writer = "select" /\ whand = 0 /\ werr = "none"
  /\ keeper = "select"
  /\ tunReader = "read" /\ thand = 0
  /\ tunOut = <<>> /\ errCh = <<>> /\ tunReadErr = <<>>
  /\ connOpen = TRUE /\ peer = "up" /\ stream = <<>>
  /\ tunDev = "open"
  /\ nextTun = 0 /\ nextNet = 0
  /\ packetsSent = 0 /\ packetsRecv = 0
  /\ wire = <<>> /\ netData = <<>> /\ delivered = <<>>

-----------------------------------------------------------------------------
(* main: the select of runSession and the way out of RunDataLoop.          *)

SelectErr ==
  /\ main = "select"
  /\ errCh # <<>>
  /\ result' = Head(errCh)
  /\ errCh' = Tail(errCh)
  /\ sessDone' = TRUE
  /\ main' = "close"
  /\ UNCHANGED <<callerDone, loopDone, readerVars, writerVars, keeper, tunVars,
                 tunOut, connOpen, envVars, tunDev>>

SelectTunErr ==
  /\ main = "select"
  /\ tunReadErr # <<>>
  /\ result' = "tunread"
  /\ tunReadErr' = Tail(tunReadErr)
  /\ sessDone' = TRUE
  /\ main' = "close"
  /\ UNCHANGED <<callerDone, loopDone, readerVars, writerVars, keeper,
                 tunReader, thand, nextTun, tunOut, errCh, connOpen, envVars,
                 tunDev>>

SelectCtxDone ==
  /\ main = "select"
  /\ SessCtxDone
  /\ result' = "canceled"
  /\ main' = "close"
  /\ UNCHANGED <<ctxVars, readerVars, writerVars, keeper, tunVars, tunOut,
                 errCh, connOpen, envVars, tunDev>>

\* Mutant of CloseConn: runSession leaves the connection open.
CloseConnForgotten ==
  /\ main = "close"
  /\ main' = "return"
  /\ UNCHANGED <<ctxVars, result, readerVars, writerVars, keeper, tunVars,
                 tunOut, errCh, connOpen, envVars, tunDev>>

CloseConn ==
  /\ main = "close"
  /\ connOpen' = FALSE
  /\ main' = "return"
  /\ UNCHANGED <<ctxVars, result, readerVars, writerVars, keeper, tunVars,
                 tunOut, errCh, envVars, tunDev>>

\* The deferred cancels of runSession and of RunDataLoop run, in that order.
Return ==
  /\ main = "return"
  /\ sessDone' = TRUE
  /\ loopDone' = TRUE
  /\ main' = "returned"
  /\ UNCHANGED <<callerDone, result, readerVars, writerVars, keeper, tunVars,
                 tunOut, errCh, connOpen, envVars, tunDev>>

-----------------------------------------------------------------------------
(* reader: readLoop.                                                       *)

ReaderFails(e) ==
  /\ reader' = "send"
  /\ rerr' = e
  /\ rhand' = 0

ReaderCheck ==
  /\ reader = "check"
  /\ IF SessCtxDone
       THEN ReaderFails("canceled")
       ELSE reader' = "read" /\ UNCHANGED <<rhand, rerr>>
  /\ UNCHANGED <<packetsRecv, delivered, ctxVars, mainVars, writerVars, keeper,
                 tunVars, tunOut, errCh, connOpen, envVars, tunDev>>

\* A whole frame is read.  Closing the connection does not take back a frame
\* that has already been decrypted, so connOpen is not a condition.
ReadFrame ==
  /\ reader = "read"
  /\ stream # <<>>
  /\ Head(stream).type # "garbage"
  /\ stream' = Tail(stream)
  /\ IF Head(stream).type = "data"
       THEN /\ rhand' = Head(stream).id
            /\ packetsRecv' = packetsRecv + 1
            /\ reader' = "tunwrite"
       ELSE /\ reader' = "check"
            /\ UNCHANGED <<rhand, packetsRecv>>
  /\ UNCHANGED <<rerr, delivered, ctxVars, mainVars, writerVars, keeper,
                 tunVars, tunOut, errCh, connOpen, peer, nextNet, netData,
                 tunDev>>

\* Mutant of ReadFails: every failed read is reported as a cancellation.
ReadFailsCanceled ==
  /\ ReaderFails("canceled")
  /\ UNCHANGED <<packetsRecv, delivered, ctxVars, mainVars, writerVars, keeper,
                 tunVars, tunOut, errCh, connOpen, envVars, tunDev>>

ReadFails ==
  /\ ReaderFails(IF SessCtxDone THEN "canceled" ELSE "read")
  /\ UNCHANGED <<packetsRecv, delivered, ctxVars, mainVars, writerVars, keeper,
                 tunVars, tunOut, errCh, connOpen, envVars, tunDev>>

\* The connection is closed on this side, closed by the gateway with nothing
\* left to read, or the next header has a bad magic.
ReadError ==
  /\ reader = "read"
  /\ \/ ~connOpen
     \/ peer = "closed" /\ stream = <<>>
     \/ stream # <<>> /\ Head(stream).type = "garbage"
  /\ ReadFails

\* Mutant of ReadTimeout: no read deadline is set.
ReadWithoutDeadline == FALSE /\ UNCHANGED vars

\* The deadline set by SetReadDeadline passes before a whole frame is read.
ReadTimeout ==
  /\ reader = "read"
  /\ connOpen
  /\ ReadFails

TunWrite ==
  /\ reader = "tunwrite"
  /\ tunDev = "open"
  /\ delivered' = Append(delivered, rhand)
  /\ rhand' = 0
  /\ reader' = "check"
  /\ UNCHANGED <<rerr, packetsRecv, ctxVars, mainVars, writerVars, keeper,
                 tunVars, tunOut, errCh, connOpen, envVars, tunDev>>

\* Mutant of TunWriteError: the error is ignored and the loop goes on.
TunWriteErrorIgnored ==
  /\ reader = "tunwrite"
  /\ tunDev # "open"
  /\ rhand' = 0
  /\ reader' = "check"
  /\ UNCHANGED <<rerr, packetsRecv, delivered, ctxVars, mainVars, writerVars,
                 keeper, tunVars, tunOut, errCh, connOpen, envVars, tunDev>>

TunWriteError ==
  /\ reader = "tunwrite"
  /\ tunDev # "open"
  /\ ReaderFails("tunwrite")
  /\ UNCHANGED <<packetsRecv, delivered, ctxVars, mainVars, writerVars, keeper,
                 tunVars, tunOut, errCh, connOpen, envVars, tunDev>>

ReaderSend ==
  /\ reader = "send"
  /\ SendErr(rerr)
  /\ reader' = "done"
  /\ rerr' = "none"
  /\ UNCHANGED <<rhand, packetsRecv, delivered, ctxVars, mainVars, writerVars,
                 keeper, tunVars, tunOut, connOpen, envVars, tunDev>>

-----------------------------------------------------------------------------
(* writer: writeLoop.                                                      *)

WriterCtxDone ==
  /\ writer = "select"
  /\ SessCtxDone
  /\ writer' = "send"
  /\ werr' = "canceled"
  /\ UNCHANGED <<whand, packetsSent, wire, ctxVars, mainVars, readerVars,
                 keeper, tunVars, tunOut, errCh, connOpen, envVars, tunDev>>

WriterTake ==
  /\ writer = "select"
  /\ tunOut # <<>>
  /\ whand' = Head(tunOut)
  /\ tunOut' = Tail(tunOut)
  /\ packetsSent' = packetsSent + 1
  /\ writer' = "write"
  /\ UNCHANGED <<werr, wire, ctxVars, mainVars, readerVars, keeper, tunVars,
                 errCh, connOpen, envVars, tunDev>>

WriterWrite ==
  /\ writer = "write"
  /\ connOpen
  /\ wire' = Append(wire, whand)
  /\ whand' = 0
  /\ writer' = "select"
  /\ UNCHANGED <<werr, packetsSent, ctxVars, mainVars, readerVars, keeper,
                 tunVars, tunOut, errCh, connOpen, envVars, tunDev>>

\* A write fails once this side has closed the connection, and may fail when
\* the gateway is no longer there.
WriterWriteError ==
  /\ writer = "write"
  /\ ~connOpen \/ peer # "up"
  /\ whand' = 0
  /\ writer' = "send"
  /\ werr' = "write"
  /\ UNCHANGED <<packetsSent, wire, ctxVars, mainVars, readerVars, keeper,
                 tunVars, tunOut, errCh, connOpen, envVars, tunDev>>

WriterSend ==
  /\ writer = "send"
  /\ SendErr(werr)
  /\ writer' = "done"
  /\ werr' = "none"
  /\ UNCHANGED <<whand, packetsSent, wire, ctxVars, mainVars, readerVars,
                 keeper, tunVars, tunOut, connOpen, envVars, tunDev>>

-----------------------------------------------------------------------------
(* keeper: the keepalive goroutine of runSession.                          *)

KeeperMoves(from, to) ==
  /\ keeper = from
  /\ keeper' = to
  /\ UNCHANGED <<ctxVars, mainVars, readerVars, writerVars, tunVars, tunOut,
                 connOpen, envVars, tunDev>>

KeeperCtxDone ==
  /\ SessCtxDone
  /\ KeeperMoves("select", "done")
  /\ UNCHANGED errCh

KeeperTick ==
  /\ KeeperMoves("select", "write")
  /\ UNCHANGED errCh

KeeperWrite ==
  /\ connOpen
  /\ KeeperMoves("write", "select")
  /\ UNCHANGED errCh

KeeperWriteError ==
  /\ ~connOpen \/ peer # "up"
  /\ KeeperMoves("write", "send")
  /\ UNCHANGED errCh

KeeperSend ==
  /\ KeeperMoves("send", "done")
  /\ SendErr("keepalive")

-----------------------------------------------------------------------------
(* tunReader: the TUN goroutine of RunDataLoop.                            *)

TunRead ==
  /\ tunReader = "read"
  /\ tunDev = "open"
  /\ nextTun < MaxTun
  /\ nextTun' = nextTun + 1
  /\ thand' = nextTun + 1
  /\ tunReader' = "enqueue"
  /\ UNCHANGED <<tunReadErr, ctxVars, mainVars, readerVars, writerVars, keeper,
                 tunOut, errCh, connOpen, envVars, tunDev>>

\* The error is offered to tunReadErr and forgotten when the buffer is full.
TunReadError ==
  /\ tunReader = "read"
  /\ tunDev # "open"
  /\ tunReadErr' = IF Len(tunReadErr) < TunReadErrCap
                     THEN Append(tunReadErr, "tunread")
                     ELSE tunReadErr
  /\ tunReader' = "done"
  /\ UNCHANGED <<thand, nextTun, ctxVars, mainVars, readerVars, writerVars,
                 keeper, tunOut, errCh, connOpen, envVars, tunDev>>

\* Mutant of Enqueue: a packet is accepted although the buffer is full.
EnqueueUnbounded ==
  /\ tunReader = "enqueue"
  /\ Len(tunOut) <= QueueCap
  /\ tunOut' = Append(tunOut, thand)
  /\ thand' = 0
  /\ tunReader' = "read"
  /\ UNCHANGED <<nextTun, tunReadErr, ctxVars, mainVars, readerVars,
                 writerVars, keeper, errCh, connOpen, envVars, tunDev>>

Enqueue ==
  /\ tunReader = "enqueue"
  /\ Len(tunOut) < QueueCap
  /\ tunOut' = Append(tunOut, thand)
  /\ thand' = 0
  /\ tunReader' = "read"
  /\ UNCHANGED <<nextTun, tunReadErr, ctxVars, mainVars, readerVars,
                 writerVars, keeper, errCh, connOpen, envVars, tunDev>>

EnqueueCtxDone ==
  /\ tunReader = "enqueue"
  /\ LoopCtxDone
  /\ thand' = 0
  /\ tunReader' = "done"
  /\ UNCHANGED <<nextTun, tunReadErr, ctxVars, mainVars, readerVars,
                 writerVars, keeper, tunOut, errCh, connOpen, envVars, tunDev>>

\* Mutant of DropPacket: the default case taken with room in the buffer.
DropPacketEarly ==
  /\ tunReader = "enqueue"
  /\ ~LoopCtxDone
  /\ thand' = 0
  /\ tunReader' = "read"
  /\ UNCHANGED <<nextTun, tunReadErr, ctxVars, mainVars, readerVars,
                 writerVars, keeper, tunOut, errCh, connOpen, envVars, tunDev>>

\* The default case: taken only when no other case of the select is ready.
DropPacket ==
  /\ tunReader = "enqueue"
  /\ Len(tunOut) >= QueueCap
  /\ ~LoopCtxDone
  /\ thand' = 0
  /\ tunReader' = "read"
  /\ UNCHANGED <<nextTun, tunReadErr, ctxVars, mainVars, readerVars,
                 writerVars, keeper, tunOut, errCh, connOpen, envVars, tunDev>>

-----------------------------------------------------------------------------
(* Environment.                                                            *)

\* A signal, or the DNS server failing, cancels the caller's context.
CallerCancels ==
  /\ ~callerDone
  /\ main # "returned"
  /\ callerDone' = TRUE
  /\ UNCHANGED <<loopDone, sessDone, mainVars, readerVars, writerVars, keeper,
                 tunVars, tunOut, errCh, connOpen, envVars, tunDev>>

\* runSession of connect.go closes the TUN device once RunDataLoop is back.
CallerClosesTun ==
  /\ main = "returned"
  /\ tunDev # "closed"
  /\ tunDev' = "closed"
  /\ UNCHANGED <<ctxVars, mainVars, readerVars, writerVars, keeper, tunVars,
                 tunOut, errCh, connOpen, envVars>>

\* The device is taken away while the session runs.
TunFails ==
  /\ tunDev = "open"
  /\ main = "select"
  /\ tunDev' = "fault"
  /\ UNCHANGED <<ctxVars, mainVars, readerVars, writerVars, keeper, tunVars,
                 tunOut, errCh, connOpen, envVars>>

GatewaySends(type) ==
  /\ peer = "up"
  /\ connOpen
  /\ nextNet < MaxNet
  /\ nextNet' = nextNet + 1
  /\ stream' = Append(stream, [type |-> type, id |-> nextNet + 1])
  /\ netData' = IF type = "data" THEN Append(netData, nextNet + 1) ELSE netData
  /\ UNCHANGED <<ctxVars, mainVars, readerVars, writerVars, keeper, tunVars,
                 tunOut, errCh, connOpen, peer, tunDev>>

GatewayLeaves(how) ==
  /\ peer = "up"
  /\ connOpen
  /\ peer' = how
  /\ UNCHANGED <<ctxVars, mainVars, readerVars, writerVars, keeper, tunVars,
                 tunOut, errCh, connOpen, stream, nextNet, netData, tunDev>>

-----------------------------------------------------------------------------
Main      == SelectErr \/ SelectTunErr \/ SelectCtxDone \/ CloseConn \/ Return
Reader    == \/ ReaderCheck \/ ReadFrame \/ ReadError \/ ReadTimeout
             \/ TunWrite \/ TunWriteError \/ ReaderSend
Writer    == \/ WriterCtxDone \/ WriterTake \/ WriterWrite \/ WriterWriteError
             \/ WriterSend
Keeper    == \/ KeeperCtxDone \/ KeeperTick \/ KeeperWrite \/ KeeperWriteError
             \/ KeeperSend
TunReader == \/ TunRead \/ TunReadError \/ Enqueue \/ EnqueueCtxDone
             \/ DropPacket
Environment == \/ CallerCancels \/ CallerClosesTun \/ TunFails
               \/ \E type \in FrameTypes : GatewaySends(type)
               \/ \E how \in {"closed", "gone"} : GatewayLeaves(how)

Finished ==
  /\ main = "returned"
  /\ reader = "done" /\ writer = "done" /\ keeper = "done"
  /\ tunReader = "done"

\* Every goroutine has ended: nothing happens any more.
Terminated == Finished /\ UNCHANGED vars

Next == Main \/ Reader \/ Writer \/ Keeper \/ TunReader \/ Environment \/ Terminated

Spec == Init /\ [][Next]_vars

(***************************************************************************)
(* The Go scheduler runs every goroutine that can run.  A write into a     *)
(* connection whose peer is gone may block for as long as the kernel likes *)
(* (WriterWrite is fair only while the gateway is up), so an error is      *)
(* certain only after Close.  The read deadline surely passes only when the *)
(* gateway has left: one that is up answers keepalives for ever.           *)
(* The caller closes the TUN device after RunDataLoop (connect.go:539).    *)
(* No fairness for the gateway, the device, the ticker or the user.        *)
(***************************************************************************)
Fairness ==
  /\ WF_vars(Main)
  /\ WF_vars(ReaderCheck \/ ReadFrame \/ ReadError \/ TunWrite
             \/ TunWriteError \/ ReaderSend)
  /\ WF_vars(peer # "up" /\ ReadTimeout)
  /\ WF_vars(WriterCtxDone) /\ WF_vars(WriterTake) /\ WF_vars(WriterSend)
  /\ WF_vars(peer = "up" /\ WriterWrite)
  /\ WF_vars(~connOpen /\ WriterWriteError)
  /\ WF_vars(KeeperCtxDone) /\ WF_vars(KeeperSend)
  /\ WF_vars(peer = "up" /\ KeeperWrite)
  /\ WF_vars(~connOpen /\ KeeperWriteError)
  /\ WF_vars(TunReadError) /\ WF_vars(Enqueue) /\ WF_vars(EnqueueCtxDone)
  /\ WF_vars(DropPacket)
  /\ WF_vars(CallerClosesTun)

FairSpec == Spec /\ Fairness

-----------------------------------------------------------------------------
(* Properties.                                                             *)

\* Every variable keeps its type; the channels never exceed their capacity.
TypeOK ==
  /\ callerDone \in BOOLEAN /\ loopDone \in BOOLEAN /\ sessDone \in BOOLEAN
  /\ main \in {"select", "close", "return", "returned"}
  /\ result \in Results \cup {"none"}
  /\ reader \in {"check", "read", "tunwrite", "send", "done"}
  /\ writer \in {"select", "write", "send", "done"}
  /\ keeper \in {"select", "write", "send", "done"}
  /\ tunReader \in {"read", "enqueue", "done"}
  /\ rhand \in Nat /\ whand \in Nat /\ thand \in Nat
  /\ rerr \in Errors \cup {"none"} /\ werr \in Errors \cup {"none"}
  /\ tunOut \in Seq(Nat) /\ Len(tunOut) <= QueueCap
  /\ errCh \in Seq(Errors) /\ Len(errCh) <= ErrChCap
  /\ tunReadErr \in Seq({"tunread"}) /\ Len(tunReadErr) <= TunReadErrCap
  /\ connOpen \in BOOLEAN
  /\ peer \in {"up", "closed", "gone"}
  /\ stream \in Seq(Frames)
  /\ tunDev \in {"open", "fault", "closed"}
  /\ nextTun \in Nat /\ nextNet \in Nat
  /\ packetsSent \in Nat /\ packetsRecv \in Nat
  /\ wire \in Seq(Nat) /\ netData \in Seq(Nat) /\ delivered \in Seq(Nat)

\* A goroutine that has an error to report can always put it into errCh, also
\* when main has left its select and nobody will ever receive again: the
\* buffer of errCh (tunnel.go:284) is large enough for every sender, whichever
\* case main took.  Otherwise a goroutine would be blocked for good.
SendersNeverBlock ==
  "send" \in {reader, writer, keeper} => Len(errCh) < ErrChCap

\* RunDataLoop reports a cancellation only when its caller cancelled: its own
\* cancel() calls, which make readLoop and writeLoop return ctx.Err() as well,
\* can never win the race for the result.
CanceledOnlyByCaller ==
  /\ result = "canceled" => callerDone
  /\ main # "select" => result # "none"

Increasing(s) == \A i, j \in 1 .. Len(s) : i < j => s[i] < s[j]

\* The packets on the wire, the one in writeLoop's hands, the ones in tunOut
\* and the one the TUN goroutine is about to enqueue are in the order in which
\* the TUN device produced them, and none is there twice.
UplinkInOrder ==
  /\ Increasing(wire)
  /\ Increasing(tunOut)
  /\ \A i \in 1 .. Len(wire) :
       /\ wire[i] <= nextTun
       /\ writer = "write" => wire[i] < whand
       /\ tunReader = "enqueue" => wire[i] < thand
       /\ \A j \in 1 .. Len(tunOut) : wire[i] < tunOut[j]
  /\ \A j \in 1 .. Len(tunOut) :
       /\ tunOut[j] <= nextTun
       /\ writer = "write" => whand < tunOut[j]
       /\ tunReader = "enqueue" => tunOut[j] < thand
  /\ writer = "write" => whand <= nextTun
  /\ writer = "write" /\ tunReader = "enqueue" => whand < thand
  /\ tunReader = "enqueue" => thand = nextTun

\* PacketsSent counts a packet before it is written: it is ahead of what went
\* over the wire by the packet in writeLoop's hands, and for good by at most
\* the one packet whose write failed.
StatsFollowWire ==
  /\ Len(wire) <= packetsSent /\ packetsSent <= Len(wire) + 1
  /\ writer = "select" => packetsSent = Len(wire)

\* The data frames on their way, and readLoop's share of netData: all that it has
\* counted as received.
UnderWay == {stream[j].id : j \in {j \in 1 .. Len(stream) : stream[j].type = "data"}}
Taken    == Len(delivered) + (IF reader = "tunwrite" THEN 1 ELSE 0)

\* Nothing the gateway sends is lost, doubled or reordered on the way to the
\* TUN device as long as readLoop runs: what it has not taken yet is under way,
\* in the same order.  What was delivered before it ended is the beginning of what
\* was sent.
DownlinkComplete ==
  /\ Increasing(netData)
  /\ \A i, j \in 1 .. Len(stream) : i < j => stream[i].id < stream[j].id
  /\ Len(delivered) <= Len(netData)
  /\ \A i \in 1 .. Len(delivered) : delivered[i] = netData[i]
  /\ reader \in {"check", "read", "tunwrite"} =>
       /\ Taken <= Len(netData)
       /\ reader = "tunwrite" => rhand = netData[Taken]
       /\ UnderWay = {netData[i] : i \in Taken + 1 .. Len(netData)}

\* RunDataLoop returns when the caller cancels, when the gateway closes the
\* connection, when the TUN device fails, and also when the gateway silently
\* disappears: the read deadline ends readLoop although writes may block.
LoopEnds ==
  (callerDone \/ peer # "up" \/ tunDev = "fault") ~> main = "returned"

\* Once RunDataLoop has returned, every goroutine it started ends.
GoroutinesExit == main = "returned" ~> Finished

\* DataLoop implements Uplink: a packet is lost only when tunOut is full or
\* when the session ends.
U == INSTANCE Uplink WITH
       Cap     <- QueueCap,
       offered <- IF tunReader = "enqueue" THEN nextTun - 1 ELSE nextTun,
       intake  <- tunReader # "done",
       queue   <- tunOut,
       hand    <- whand,
       sent    <- wire,
       up      <- writer \in {"select", "write"}

UplinkSpec == U!Spec
=============================================================================
