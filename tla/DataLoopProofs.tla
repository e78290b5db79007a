--------------------------- MODULE DataLoopProofs ---------------------------
(***************************************************************************)
(* Proofs about DataLoop, for every capacity of tunOut and any number of   *)
(* packets and frames.                                                     *)
(*                                                                         *)
(* SendersNeverBlock and CanceledOnlyByCaller are not inductive alone; they *)
(* rest on TypeOK and on the three predicates below: a goroutine in "send"  *)
(* holds an error, every goroutine that has not ended owns one place in     *)
(* errCh, a pending "canceled" means a cancelled context, and runSession's  *)
(* own contexts are cancelled only after main has left its select.          *)
(***************************************************************************)
EXTENDS DataLoop, TLAPS

-----------------------------------------------------------------------------
(* What the invariants rest on.                                            *)

\* A goroutine that is about to send has something to send.
SendersHoldErrors ==
  /\ reader = "send" => rerr \in Errors
  /\ writer = "send" => werr \in Errors

\* Sends a goroutine may still make.
Owed(goroutine) == IF goroutine = "done" THEN 0 ELSE 1

\* Every goroutine that may still send has its own place in errCh.
ErrChReserved ==
  Len(errCh) + Owed(reader) + Owed(writer) + Owed(keeper) <= ErrChCap

\* Whoever reports a cancellation has seen a cancelled context, and while main
\* is in its select only the caller can have cancelled one.
CancellationHasCause ==
  /\ rerr = "canceled" \/ werr = "canceled" => SessCtxDone
  /\ \A i \in 1 .. Len(errCh) : errCh[i] = "canceled" => SessCtxDone
  /\ main = "select" => ~loopDone /\ ~sessDone

-----------------------------------------------------------------------------
(* Sequences.                                                              *)

\* What a channel send does to the buffer.
LEMMA AppendFacts ==
  ASSUME NEW S, NEW s \in Seq(S), NEW x \in S
  PROVE  /\ Append(s, x) \in Seq(S)
         /\ Len(Append(s, x)) = Len(s) + 1
         /\ \A i \in 1 .. Len(s) : Append(s, x)[i] = s[i]
         /\ Append(s, x)[Len(s) + 1] = x
  OBVIOUS

\* What a channel receive does to the buffer.
LEMMA TailFacts ==
  ASSUME NEW S, NEW s \in Seq(S), s # <<>>
  PROVE  /\ Head(s) \in S
         /\ Head(s) = s[1]
         /\ Tail(s) \in Seq(S)
         /\ Len(s) \in Nat \ {0}
         /\ Len(Tail(s)) = Len(s) - 1
         /\ \A i \in 1 .. Len(Tail(s)) : Tail(s)[i] = s[i + 1]
  OBVIOUS

-----------------------------------------------------------------------------
(* Types.                                                                  *)

USE DEF ctxVars, mainVars, readerVars, writerVars, tunVars, envVars

\* Init establishes the types.
LEMMA TypeInit == Init => TypeOK /\ SendersHoldErrors
<1> SUFFICES ASSUME Init PROVE TypeOK /\ SendersHoldErrors
  OBVIOUS
<1>1. /\ tunOut \in Seq(Nat) /\ errCh \in Seq(Errors) /\ stream \in Seq(Frames)
      /\ tunReadErr \in Seq({"tunread"})
      /\ wire \in Seq(Nat) /\ netData \in Seq(Nat) /\ delivered \in Seq(Nat)
  BY DEF Init
<1>2. /\ Len(tunOut) <= QueueCap /\ Len(errCh) <= ErrChCap
      /\ Len(tunReadErr) <= TunReadErrCap
  BY BoundsAssumption DEF Init, ErrChCap, TunReadErrCap
<1> QED BY <1>1, <1>2 DEF Init, TypeOK, SendersHoldErrors

\* Every step of every goroutine and of the environment keeps them.
LEMMA TypeStep ==
  ASSUME TypeOK, SendersHoldErrors, [Next]_vars
  PROVE  TypeOK' /\ SendersHoldErrors'
<1> USE BoundsAssumption DEF TypeOK, SendersHoldErrors, Errors, Results, ErrChCap,
                             TunReadErrCap
<1>1. CASE Main
  <2>1. CASE SelectErr
    <3>1. /\ Head(errCh) \in Errors /\ Tail(errCh) \in Seq(Errors)
          /\ Len(Tail(errCh)) <= ErrChCap
      <4>1. errCh \in Seq(Errors) /\ errCh # <<>> /\ Len(errCh) <= ErrChCap
        BY <2>1 DEF SelectErr
      <4> QED BY ONLY <4>1, TailFacts DEF ErrChCap
    <3> QED BY <2>1, <3>1 DEF SelectErr
  <2>2. CASE SelectTunErr
    <3>1. /\ Tail(tunReadErr) \in Seq({"tunread"})
          /\ Len(Tail(tunReadErr)) <= TunReadErrCap
      <4>1. /\ tunReadErr \in Seq({"tunread"}) /\ tunReadErr # <<>>
            /\ Len(tunReadErr) <= TunReadErrCap
        BY <2>2 DEF SelectTunErr
      <4> QED BY ONLY <4>1, TailFacts DEF TunReadErrCap
    <3> QED BY <2>2, <3>1 DEF SelectTunErr
  <2>3. CASE SelectCtxDone BY <2>3 DEF SelectCtxDone
  <2>4. CASE CloseConn
    <3>1. main' = "return" /\ connOpen' \in BOOLEAN BY <2>4 DEF CloseConn
    <3>2. UNCHANGED <<ctxVars, result, readerVars, writerVars, keeper, tunVars,
                      tunOut, errCh, envVars, tunDev>>
      BY <2>4 DEF CloseConn
    <3>3. SendersHoldErrors' BY <3>2
    <3>4. TypeOK' BY <3>1, <3>2
    <3> QED BY <3>3, <3>4
  <2>5. CASE Return BY <2>5 DEF Return
  <2> QED BY <1>1, <2>1, <2>2, <2>3, <2>4, <2>5 DEF Main
<1>2. CASE Reader
  <2>1. CASE ReaderCheck
    <3>1. \/ reader' = "send" /\ rerr' = "canceled" /\ rhand' = 0
          \/ reader' = "read" /\ UNCHANGED <<rhand, rerr>>
      BY ONLY <2>1 DEF ReaderCheck, ReaderFails
    <3>2. UNCHANGED <<packetsRecv, delivered, ctxVars, mainVars, writerVars,
                      keeper, tunVars, tunOut, errCh, connOpen, envVars, tunDev>>
      BY ONLY <2>1 DEF ReaderCheck
    <3> QED BY <3>1, <3>2
  <2>2. CASE ReadFrame
    <3>1. /\ Head(stream) \in Frames /\ Tail(stream) \in Seq(Frames)
      <4>1. stream \in Seq(Frames) /\ stream # <<>> BY <2>2 DEF ReadFrame
      <4> QED BY ONLY <4>1, TailFacts
    <3>2. Head(stream).id \in Nat BY ONLY <3>1 DEF Frames
    <3>3. /\ reader' \in {"tunwrite", "check"}
          /\ rhand' \in {Head(stream).id, rhand}
          /\ packetsRecv' \in {packetsRecv + 1, packetsRecv}
          /\ stream' = Tail(stream)
      BY ONLY <2>2 DEF ReadFrame
    <3>4. rhand' \in Nat /\ packetsRecv' \in Nat
      <4>1. rhand \in Nat /\ packetsRecv \in Nat OBVIOUS
      <4> QED BY ONLY <3>2, <3>3, <4>1
    <3>5. UNCHANGED <<rerr, delivered, ctxVars, mainVars, writerVars, keeper,
                      tunVars, tunOut, errCh, connOpen, peer, nextNet, netData,
                      tunDev>>
      BY <2>2 DEF ReadFrame
    <3>6. SendersHoldErrors' BY <3>3, <3>5
    <3>7. TypeOK' BY <3>1, <3>3, <3>4, <3>5
    <3> QED BY <3>6, <3>7
  <2>3. CASE ReadError BY <2>3 DEF ReadError, ReadFails, ReaderFails
  <2>4. CASE ReadTimeout BY <2>4 DEF ReadTimeout, ReadFails, ReaderFails
  <2>5. CASE TunWrite BY <2>5 DEF TunWrite
  <2>6. CASE TunWriteError BY <2>6 DEF TunWriteError, ReaderFails
  <2>7. CASE ReaderSend
    <3>1. errCh' \in Seq(Errors) /\ Len(errCh') <= ErrChCap
      BY <2>7, AppendFacts DEF ReaderSend, SendErr
    <3> QED BY <2>7, <3>1 DEF ReaderSend
  <2> QED BY <1>2, <2>1, <2>2, <2>3, <2>4, <2>5, <2>6, <2>7 DEF Reader
<1>3. CASE Writer
  <2>1. CASE WriterCtxDone BY <2>1 DEF WriterCtxDone
  <2>2. CASE WriterTake
    <3>1. /\ Head(tunOut) \in Nat /\ Tail(tunOut) \in Seq(Nat)
          /\ Len(Tail(tunOut)) <= QueueCap
      <4>1. tunOut \in Seq(Nat) /\ tunOut # <<>> /\ Len(tunOut) <= QueueCap
        BY <2>2 DEF WriterTake
      <4> QED BY ONLY <4>1, TailFacts, BoundsAssumption
    <3> QED BY <2>2, <3>1 DEF WriterTake
  <2>3. CASE WriterWrite BY <2>3 DEF WriterWrite
  <2>4. CASE WriterWriteError BY <2>4 DEF WriterWriteError
  <2>5. CASE WriterSend
    <3>1. errCh' \in Seq(Errors) /\ Len(errCh') <= ErrChCap
      BY <2>5, AppendFacts DEF WriterSend, SendErr
    <3> QED BY <2>5, <3>1 DEF WriterSend
  <2> QED BY <1>3, <2>1, <2>2, <2>3, <2>4, <2>5 DEF Writer
<1>4. CASE Keeper
  <2>1. CASE KeeperSend
    <3>1. errCh' \in Seq(Errors) /\ Len(errCh') <= ErrChCap
      BY <2>1, AppendFacts DEF KeeperSend, SendErr
    <3> QED BY <2>1, <3>1 DEF KeeperSend, KeeperMoves
  <2>2. CASE KeeperCtxDone BY <2>2 DEF KeeperCtxDone, KeeperMoves
  <2>3. CASE KeeperTick BY <2>3 DEF KeeperTick, KeeperMoves
  <2>4. CASE KeeperWrite BY <2>4 DEF KeeperWrite, KeeperMoves
  <2>5. CASE KeeperWriteError BY <2>5 DEF KeeperWriteError, KeeperMoves
  <2> QED BY <1>4, <2>1, <2>2, <2>3, <2>4, <2>5 DEF Keeper
<1>5. CASE TunReader
  <2>1. CASE TunRead BY <2>1 DEF TunRead
  <2>2. CASE TunReadError BY <2>2 DEF TunReadError
  <2>3. CASE Enqueue
    <3>1. tunOut' \in Seq(Nat) /\ Len(tunOut') <= QueueCap
      BY <2>3, AppendFacts DEF Enqueue
    <3> QED BY <2>3, <3>1 DEF Enqueue
  <2>4. CASE EnqueueCtxDone BY <2>4 DEF EnqueueCtxDone
  <2>5. CASE DropPacket BY <2>5 DEF DropPacket
  <2> QED BY <1>5, <2>1, <2>2, <2>3, <2>4, <2>5 DEF TunReader
<1>6. CASE Environment
  <2>1. CASE CallerCancels BY <2>1 DEF CallerCancels
  <2>2. CASE CallerClosesTun BY <2>2 DEF CallerClosesTun
  <2>3. CASE TunFails BY <2>3 DEF TunFails
  <2>4. ASSUME NEW type \in FrameTypes, GatewaySends(type)
        PROVE  TypeOK' /\ SendersHoldErrors'
    <3>1. [type |-> type, id |-> nextNet + 1] \in Frames BY DEF Frames
    <3>2. stream' \in Seq(Frames) BY <2>4, <3>1, AppendFacts DEF GatewaySends
    <3>3. netData' \in Seq(Nat) BY <2>4, AppendFacts DEF GatewaySends
    <3> QED BY <2>4, <3>2, <3>3 DEF GatewaySends
  <2>5. ASSUME NEW how \in {"closed", "gone"}, GatewayLeaves(how)
        PROVE  TypeOK' /\ SendersHoldErrors'
    BY <2>5 DEF GatewayLeaves
  <2> QED BY <1>6, <2>1, <2>2, <2>3, <2>4, <2>5 DEF Environment
<1>7. CASE UNCHANGED vars BY <1>7 DEF vars
<1> QED BY <1>1, <1>2, <1>3, <1>4, <1>5, <1>6, <1>7 DEF Next, Terminated

\* The types hold in every reachable state: in particular no channel ever
\* holds more than its capacity (RunDataLoop and runSession).
THEOREM TypeCorrect == Spec => []TypeOK
<1>1. TypeOK /\ SendersHoldErrors /\ [Next]_vars => (TypeOK /\ SendersHoldErrors)'
  BY TypeStep
<1> QED BY TypeInit, <1>1, PTL DEF Spec

-----------------------------------------------------------------------------
(* No sender blocks.                                                       *)

\* The values Owed takes.
LEMMA OwedFacts ==
  /\ Owed("done") = 0
  /\ \A g : g # "done" => Owed(g) = 1
  /\ \A g : Owed(g) \in 0 .. 1
  BY DEF Owed

\* A goroutine gives its place in errCh back by sending or by ending, and a
\* receive by main frees one.
LEMMA ReservedStep ==
  ASSUME TypeOK, ErrChReserved, [Next]_vars
  PROVE  ErrChReserved'
<1> USE OwedFacts DEF ErrChReserved
<1>0. errCh \in Seq(Errors) /\ Len(errCh) \in Nat BY DEF TypeOK
<1> DEFINE Unchanged == UNCHANGED <<errCh, reader, writer, keeper>>
<1>1. CASE Main
  <2>1. CASE SelectErr
    <3>1. Len(errCh') = Len(errCh) - 1
      BY <1>0, <2>1, TailFacts DEF SelectErr
    <3>2. UNCHANGED <<reader, writer, keeper>> BY <2>1 DEF SelectErr
    <3> QED BY <1>0, <3>1, <3>2 DEF ErrChCap
  <2>2. CASE ~SelectErr
    <3>1. Unchanged
      BY <1>1, <2>2 DEF Main, SelectTunErr, SelectCtxDone, CloseConn, Return
    <3> QED BY <1>0, <3>1
  <2> QED BY <2>1, <2>2
<1>2. CASE Reader
  <2>1. CASE ReaderSend
    <3>1. Len(errCh') = Len(errCh) + 1
      BY <1>0, <2>1, AppendFacts DEF ReaderSend, SendErr
    <3>2. reader = "send" /\ reader' = "done" /\ UNCHANGED <<writer, keeper>>
      BY <2>1 DEF ReaderSend
    <3> QED BY <1>0, <3>1, <3>2 DEF ErrChCap
  <2>2. CASE ~ReaderSend
    <3>1. UNCHANGED <<errCh, writer, keeper>> /\ reader # "done" /\ reader' # "done"
      BY <1>2, <2>2 DEF Reader, ReaderCheck, ReadFrame, ReadError, ReadTimeout,
                        TunWrite, TunWriteError, ReadFails, ReaderFails
    <3> QED BY <1>0, <3>1
  <2> QED BY <2>1, <2>2
<1>3. CASE Writer
  <2>1. CASE WriterSend
    <3>1. Len(errCh') = Len(errCh) + 1
      BY <1>0, <2>1, AppendFacts DEF WriterSend, SendErr
    <3>2. writer = "send" /\ writer' = "done" /\ UNCHANGED <<reader, keeper>>
      BY <2>1 DEF WriterSend
    <3> QED BY <1>0, <3>1, <3>2 DEF ErrChCap
  <2>2. CASE ~WriterSend
    <3>1. UNCHANGED <<errCh, reader, keeper>> /\ writer # "done" /\ writer' # "done"
      BY <1>3, <2>2 DEF Writer, WriterCtxDone, WriterTake, WriterWrite,
                        WriterWriteError
    <3> QED BY <1>0, <3>1
  <2> QED BY <2>1, <2>2
<1>4. CASE Keeper
  <2>1. CASE KeeperSend
    <3>1. Len(errCh') = Len(errCh) + 1
      BY <1>0, <2>1, AppendFacts DEF KeeperSend, SendErr
    <3>2. keeper = "send" /\ keeper' = "done" /\ UNCHANGED <<reader, writer>>
      BY <2>1 DEF KeeperSend, KeeperMoves
    <3> QED BY <1>0, <3>1, <3>2 DEF ErrChCap
  <2>2. CASE ~KeeperSend
    <3>1. UNCHANGED <<errCh, reader, writer>> /\ keeper # "done"
      BY <1>4, <2>2 DEF Keeper, KeeperCtxDone, KeeperTick, KeeperWrite,
                        KeeperWriteError, KeeperMoves
    <3> QED BY <1>0, <3>1 DEF ErrChCap
  <2> QED BY <2>1, <2>2
<1>5. CASE TunReader
  <2>1. Unchanged
    BY <1>5 DEF TunReader, TunRead, TunReadError, Enqueue, EnqueueCtxDone, DropPacket
  <2> QED BY <1>0, <2>1
<1>6. CASE Environment
  <2>1. Unchanged
    BY <1>6 DEF Environment, CallerCancels, CallerClosesTun, TunFails,
                GatewaySends, GatewayLeaves
  <2> QED BY <1>0, <2>1
<1>7. CASE UNCHANGED vars
  <2>1. Unchanged BY <1>7 DEF vars
  <2> QED BY <1>0, <2>1
<1> QED BY <1>1, <1>2, <1>3, <1>4, <1>5, <1>6, <1>7 DEF Next, Terminated

\* The place a goroutine owns in errCh is free when it wants to send.
LEMMA ReservedSuffices ==
  ASSUME TypeOK, ErrChReserved
  PROVE  SendersNeverBlock
<1>1. Len(errCh) \in Nat BY DEF TypeOK
<1>2. ASSUME "send" \in {reader, writer, keeper}
      PROVE  Len(errCh) < ErrChCap
  BY <1>1, <1>2, OwedFacts DEF ErrChReserved, ErrChCap
<1> QED BY <1>2 DEF SendersNeverBlock

\* No goroutine of the data loop is ever stuck in its send to errCh, whatever
\* main is doing (the buffer of three made at tunnel.go:284).
THEOREM NoSenderBlocks == Spec => []SendersNeverBlock
<1>1. Init => ErrChReserved
  BY OwedFacts DEF Init, ErrChReserved, ErrChCap
<1>2. TypeOK /\ ErrChReserved /\ [Next]_vars => ErrChReserved'
  BY ReservedStep
<1>3. TypeOK /\ ErrChReserved => SendersNeverBlock
  BY ReservedSuffices
<1> QED BY <1>1, <1>2, <1>3, TypeCorrect, PTL DEF Spec

-----------------------------------------------------------------------------
(* Only the caller's cancellation is reported as one.                      *)

\* A "canceled" enters errCh only with a cancelled context, contexts are never
\* revived, and main reads errCh only before runSession cancels its own.
LEMMA CauseStep ==
  ASSUME TypeOK, SendersHoldErrors, CancellationHasCause, CanceledOnlyByCaller,
         [Next]_vars
  PROVE  CancellationHasCause' /\ CanceledOnlyByCaller'
<1> USE DEF CancellationHasCause, CanceledOnlyByCaller, SessCtxDone, LoopCtxDone
<1>a. errCh \in Seq(Errors) BY DEF TypeOK
<1> DEFINE Quiet == UNCHANGED <<ctxVars, mainVars, rerr, werr, errCh>>
<1>b. ASSUME Quiet PROVE CancellationHasCause' /\ CanceledOnlyByCaller'
  BY <1>b
<1>c. ASSUME NEW e, e = "canceled" => SessCtxDone, e \in Errors, SendErr(e)
      PROVE  \A i \in 1 .. Len(errCh') : errCh'[i] = "canceled" => SessCtxDone
  <2>1. /\ errCh' = Append(errCh, e) /\ Len(errCh) \in Nat
        /\ Len(errCh') = Len(errCh) + 1
        /\ \A i \in 1 .. Len(errCh) : errCh'[i] = errCh[i]
        /\ errCh'[Len(errCh) + 1] = e
    BY <1>a, <1>c, AppendFacts DEF SendErr
  <2> QED BY <1>c, <2>1
<1>1. CASE Main
  <2>1. CASE SelectErr
    <3>1. /\ Head(errCh) = errCh[1] /\ Head(errCh) \in Errors
          /\ Len(errCh) \in Nat \ {0} /\ Len(errCh') = Len(errCh) - 1
          /\ \A i \in 1 .. Len(errCh') : errCh'[i] = errCh[i + 1]
      BY <1>a, <2>1, TailFacts DEF SelectErr
    <3>2. CanceledOnlyByCaller' BY <2>1, <3>1 DEF SelectErr, Errors
    <3>3. CancellationHasCause' BY <2>1, <3>1 DEF SelectErr
    <3> QED BY <3>2, <3>3
  <2>2. CASE SelectTunErr BY <2>2 DEF SelectTunErr
  <2>3. CASE SelectCtxDone BY <2>3 DEF SelectCtxDone
  <2>4. CASE CloseConn BY <2>4 DEF CloseConn
  <2>5. CASE Return BY <2>5 DEF Return
  <2> QED BY <1>1, <2>1, <2>2, <2>3, <2>4, <2>5 DEF Main
<1>2. CASE Reader
  <2>1. CASE ReaderSend
    <3>1. SendErr(rerr) /\ rerr \in Errors /\ rerr' = "none"
      BY <2>1 DEF ReaderSend, SendersHoldErrors
    <3>2. \A i \in 1 .. Len(errCh') : errCh'[i] = "canceled" => SessCtxDone
      BY <1>c, <3>1
    <3> QED BY <2>1, <3>1, <3>2 DEF ReaderSend
  <2>2. CASE ReaderCheck BY <2>2 DEF ReaderCheck, ReaderFails
  <2>3. CASE ReadFrame \/ TunWrite BY <2>3, <1>b DEF ReadFrame, TunWrite
  <2>4. CASE ReadError \/ ReadTimeout
    BY <2>4 DEF ReadError, ReadTimeout, ReadFails, ReaderFails
  <2>5. CASE TunWriteError BY <2>5 DEF TunWriteError, ReaderFails
  <2> QED BY <1>2, <2>1, <2>2, <2>3, <2>4, <2>5 DEF Reader
<1>3. CASE Writer
  <2>1. CASE WriterSend
    <3>1. SendErr(werr) /\ werr \in Errors /\ werr' = "none"
      BY <2>1 DEF WriterSend, SendersHoldErrors
    <3>2. \A i \in 1 .. Len(errCh') : errCh'[i] = "canceled" => SessCtxDone
      BY <1>c, <3>1
    <3> QED BY <2>1, <3>1, <3>2 DEF WriterSend
  <2>2. CASE WriterCtxDone BY <2>2 DEF WriterCtxDone
  <2>3. CASE WriterTake \/ WriterWrite BY <2>3, <1>b DEF WriterTake, WriterWrite
  <2>4. CASE WriterWriteError BY <2>4 DEF WriterWriteError
  <2> QED BY <1>3, <2>1, <2>2, <2>3, <2>4 DEF Writer
<1>4. CASE Keeper
  <2>1. CASE KeeperSend
    <3>1. SendErr("keepalive") BY <2>1 DEF KeeperSend
    <3>2. \A i \in 1 .. Len(errCh') : errCh'[i] = "canceled" => SessCtxDone
      BY <1>c, <3>1 DEF Errors
    <3> QED BY <2>1, <3>2 DEF KeeperSend, KeeperMoves
  <2>2. CASE ~KeeperSend
    BY <1>4, <2>2, <1>b DEF Keeper, KeeperCtxDone, KeeperTick, KeeperWrite,
                            KeeperWriteError, KeeperMoves
  <2> QED BY <2>1, <2>2
<1>5. CASE TunReader
  BY <1>5, <1>b DEF TunReader, TunRead, TunReadError, Enqueue, EnqueueCtxDone,
                    DropPacket
<1>6. CASE Environment
  <2>1. CASE CallerCancels BY <2>1 DEF CallerCancels
  <2>2. CASE ~CallerCancels
    BY <1>6, <2>2, <1>b DEF Environment, CallerClosesTun, TunFails, GatewaySends,
                            GatewayLeaves
  <2> QED BY <2>1, <2>2
<1>7. CASE UNCHANGED vars BY <1>7, <1>b DEF vars
<1> QED BY <1>1, <1>2, <1>3, <1>4, <1>5, <1>6, <1>7 DEF Next, Terminated

\* RunDataLoop returns "canceled" only when the context it was given is
\* cancelled, never because of its own cancel() (tunnel.go:320-332).
THEOREM OnlyCallerCancels == Spec => []CanceledOnlyByCaller
<1>1. Init => CancellationHasCause /\ CanceledOnlyByCaller
  BY DEF Init, CancellationHasCause, CanceledOnlyByCaller
<1>2. TypeOK /\ SendersHoldErrors /\ CancellationHasCause /\ CanceledOnlyByCaller
      /\ [Next]_vars
      => (TypeOK /\ SendersHoldErrors /\ CancellationHasCause
          /\ CanceledOnlyByCaller)'
  BY CauseStep, TypeStep
<1> QED BY TypeInit, <1>1, <1>2, PTL DEF Spec

-----------------------------------------------------------------------------
(* The uplink keeps the order of the TUN device.                           *)

\* Adding a larger packet at the young end keeps an increasing sequence
\* increasing.
LEMMA IncreasingAppend ==
  ASSUME NEW s \in Seq(Nat), NEW x \in Nat, Increasing(s),
         \A i \in 1 .. Len(s) : s[i] < x
  PROVE  /\ Increasing(Append(s, x))
         /\ \A j \in 1 .. Len(Append(s, x)) :
              \/ j \in 1 .. Len(s) /\ Append(s, x)[j] = s[j]
              \/ Append(s, x)[j] = x
<1>1. /\ Len(s) \in Nat
      /\ Len(Append(s, x)) = Len(s) + 1
      /\ \A i \in 1 .. Len(s) : Append(s, x)[i] = s[i]
      /\ Append(s, x)[Len(s) + 1] = x
  BY AppendFacts
<1>2. \A j \in 1 .. Len(Append(s, x)) :
        \/ j \in 1 .. Len(s) /\ Append(s, x)[j] = s[j]
        \/ j = Len(s) + 1 /\ Append(s, x)[j] = x
  BY <1>1
<1>3. ASSUME NEW i \in 1 .. Len(Append(s, x)), NEW j \in 1 .. Len(Append(s, x)),
             i < j
      PROVE  Append(s, x)[i] < Append(s, x)[j]
  <2>1. i \in 1 .. Len(s) /\ Append(s, x)[i] = s[i] BY <1>1, <1>3
  <2>2. CASE j \in 1 .. Len(s) BY <1>1, <1>3, <2>1, <2>2 DEF Increasing
  <2>3. CASE j = Len(s) + 1 BY <1>1, <2>1, <2>3
  <2> QED BY <1>2, <2>2, <2>3
<1> QED BY <1>2, <1>3 DEF Increasing

\* Removing the oldest packet keeps it increasing, and every other packet is
\* larger than the removed one.
LEMMA IncreasingTail ==
  ASSUME NEW s \in Seq(Nat), s # <<>>, Increasing(s)
  PROVE  /\ 1 \in 1 .. Len(s) /\ Head(s) = s[1]
         /\ Increasing(Tail(s))
         /\ \A j \in 1 .. Len(Tail(s)) :
              /\ Head(s) < Tail(s)[j]
              /\ \E k \in 1 .. Len(s) : Tail(s)[j] = s[k]
<1>1. /\ Head(s) = s[1]
      /\ Len(s) \in Nat \ {0}
      /\ Len(Tail(s)) = Len(s) - 1
      /\ \A i \in 1 .. Len(Tail(s)) : Tail(s)[i] = s[i + 1]
  BY TailFacts
<1>2. \A j \in 1 .. Len(Tail(s)) : j + 1 \in 1 .. Len(s) /\ 1 < j + 1
  BY <1>1
<1>3. ASSUME NEW i \in 1 .. Len(Tail(s)), NEW j \in 1 .. Len(Tail(s)), i < j
      PROVE  Tail(s)[i] < Tail(s)[j]
  <2>1. i + 1 < j + 1 BY <1>3
  <2> QED BY <1>1, <1>2, <2>1 DEF Increasing
<1>4. ASSUME NEW j \in 1 .. Len(Tail(s))
      PROVE  /\ Head(s) < Tail(s)[j]
             /\ \E k \in 1 .. Len(s) : Tail(s)[j] = s[k]
  <2>1. 1 \in 1 .. Len(s) BY <1>1
  <2> QED BY <1>1, <1>2, <2>1 DEF Increasing
<1> QED BY <1>1, <1>3, <1>4 DEF Increasing

\* A packet moves from the TUN goroutine to tunOut, to writeLoop's hands, to
\* the connection, each time from the young end of one place to the old end of
\* the next.
LEMMA OrderStep ==
  ASSUME TypeOK, UplinkInOrder, [Next]_vars
  PROVE  UplinkInOrder'
<1> USE DEF UplinkInOrder
<1>a. /\ wire \in Seq(Nat) /\ tunOut \in Seq(Nat)
      /\ whand \in Nat /\ thand \in Nat /\ nextTun \in Nat
      /\ Len(wire) \in Nat /\ Len(tunOut) \in Nat
  BY DEF TypeOK
<1>b. /\ \A i \in 1 .. Len(wire) : wire[i] \in Nat
      /\ \A i \in 1 .. Len(tunOut) : tunOut[i] \in Nat
  BY <1>a
<1> DEFINE Still == UNCHANGED <<wire, tunOut, writer, whand, tunReader, thand,
                                nextTun>>
<1>c. ASSUME Still PROVE UplinkInOrder' BY <1>c DEF Increasing
<1>1. CASE TunRead
  <2>1. /\ tunReader = "read" /\ tunReader' = "enqueue"
        /\ nextTun' = nextTun + 1 /\ thand' = nextTun + 1
        /\ UNCHANGED <<wire, tunOut, writer, whand>>
    BY <1>1 DEF TunRead
  <2> QED BY <1>a, <1>b, <2>1 DEF Increasing
<1>2. CASE Enqueue
  <2>1. /\ Increasing(tunOut')
        /\ \A j \in 1 .. Len(tunOut') :
             \/ j \in 1 .. Len(tunOut) /\ tunOut'[j] = tunOut[j]
             \/ tunOut'[j] = thand
    BY <1>a, <1>2, IncreasingAppend DEF Enqueue
  <2>2. /\ tunReader = "enqueue" /\ tunReader' = "read" /\ Increasing(wire')
        /\ UNCHANGED <<wire, writer, whand, nextTun>>
    BY <1>2 DEF Enqueue, Increasing
  <2>3. ASSUME NEW j \in 1 .. Len(tunOut')
        PROVE  /\ tunOut'[j] <= nextTun
               /\ writer = "write" => whand < tunOut'[j]
               /\ \A i \in 1 .. Len(wire) : wire[i] < tunOut'[j]
    <3>1. CASE j \in 1 .. Len(tunOut) /\ tunOut'[j] = tunOut[j] BY <3>1
    <3>2. CASE tunOut'[j] = thand BY <1>a, <2>2, <3>2
    <3> QED BY <2>1, <3>1, <3>2
  <2> QED BY <2>1, <2>2, <2>3
<1>3. CASE EnqueueCtxDone \/ DropPacket \/ TunReadError
  <2>1. /\ tunReader' # "enqueue"
        /\ UNCHANGED <<wire, tunOut, writer, whand, nextTun>>
    BY <1>3 DEF EnqueueCtxDone, DropPacket, TunReadError
  <2> QED BY <2>1 DEF Increasing
<1>4. CASE WriterTake
  <2>1. /\ 1 \in 1 .. Len(tunOut) /\ whand' = tunOut[1]
        /\ Increasing(tunOut')
        /\ \A j \in 1 .. Len(tunOut') :
             /\ whand' < tunOut'[j]
             /\ \E k \in 1 .. Len(tunOut) : tunOut'[j] = tunOut[k]
    BY <1>a, <1>4, IncreasingTail DEF WriterTake
  <2>2. /\ writer = "select" /\ writer' = "write" /\ Increasing(wire')
        /\ UNCHANGED <<wire, tunReader, thand, nextTun>>
    BY <1>4 DEF WriterTake, Increasing
  <2> QED BY <1>a, <1>b, <2>1, <2>2
<1>5. CASE WriterWrite
  <2>1. /\ Increasing(wire')
        /\ \A i \in 1 .. Len(wire') :
             \/ i \in 1 .. Len(wire) /\ wire'[i] = wire[i]
             \/ wire'[i] = whand
    BY <1>a, <1>5, IncreasingAppend DEF WriterWrite
  <2>2. /\ writer = "write" /\ writer' = "select" /\ Increasing(tunOut')
        /\ UNCHANGED <<tunOut, tunReader, thand, nextTun>>
    BY <1>5 DEF WriterWrite, Increasing
  <2> QED BY <1>a, <1>b, <2>1, <2>2
<1>6. CASE WriterCtxDone \/ WriterWriteError \/ WriterSend
  <2>1. /\ writer' # "write"
        /\ UNCHANGED <<wire, tunOut, tunReader, thand, nextTun>>
    BY <1>6 DEF WriterCtxDone, WriterWriteError, WriterSend
  <2> QED BY <2>1 DEF Increasing
<1>7. CASE Main
  <2>1. Still
    BY <1>7 DEF Main, SelectErr, SelectTunErr, SelectCtxDone, CloseConn, Return
  <2> QED BY <2>1, <1>c
<1>8. CASE Reader
  <2>1. Still
    BY <1>8 DEF Reader, ReaderCheck, ReadFrame, ReadError, ReadTimeout, TunWrite,
                TunWriteError, ReaderSend, ReadFails, ReaderFails
  <2> QED BY <2>1, <1>c
<1>9. CASE Keeper
  <2>1. Still
    BY <1>9 DEF Keeper, KeeperCtxDone, KeeperTick, KeeperWrite, KeeperWriteError,
                KeeperSend, KeeperMoves
  <2> QED BY <2>1, <1>c
<1>10. CASE Environment
  <2>1. Still
    BY <1>10 DEF Environment, CallerCancels, CallerClosesTun, TunFails,
                 GatewaySends, GatewayLeaves
  <2> QED BY <2>1, <1>c
<1>11. CASE UNCHANGED vars
  <2>1. Still BY <1>11 DEF vars
  <2> QED BY <2>1, <1>c
<1> QED
  BY <1>1, <1>2, <1>3, <1>4, <1>5, <1>6, <1>7, <1>8, <1>9, <1>10, <1>11
  DEF Next, Terminated, TunReader, Writer

\* Packets leave in the order in which the TUN device produced them and none
\* is sent twice, for every capacity of tunOut and every interleaving of the
\* TUN goroutine and writeLoop.
THEOREM UplinkOrdered == Spec => []UplinkInOrder
<1>1. Init => UplinkInOrder
  BY DEF Init, UplinkInOrder, Increasing
<1>2. TypeOK /\ UplinkInOrder /\ [Next]_vars => UplinkInOrder'
  BY OrderStep
<1> QED BY <1>1, <1>2, TypeCorrect, PTL DEF Spec

-----------------------------------------------------------------------------
(* The downlink loses nothing.                                             *)

\* The gateway numbers its frames.
FramesNumbered ==
  /\ \A i \in 1 .. Len(netData) : netData[i] <= nextNet
  /\ \A j \in 1 .. Len(stream) : stream[j].id <= nextNet

\* What DownlinkComplete is about.
LEMMA DownlinkTypes ==
  ASSUME TypeOK
  PROVE  /\ netData \in Seq(Nat) /\ delivered \in Seq(Nat) /\ stream \in Seq(Frames)
         /\ Len(netData) \in Nat /\ Len(delivered) \in Nat /\ Len(stream) \in Nat
         /\ \A i \in 1 .. Len(netData) : netData[i] \in Nat
         /\ \A j \in 1 .. Len(stream) : stream[j].id \in Nat
         /\ nextNet \in Nat /\ rhand \in Nat
<1>1. netData \in Seq(Nat) /\ delivered \in Seq(Nat) /\ stream \in Seq(Frames)
  BY DEF TypeOK
<1>2. \A j \in 1 .. Len(stream) : stream[j] \in Frames
  BY <1>1
<1>3. \A j \in 1 .. Len(stream) : stream[j].id \in Nat
  BY <1>2 DEF Frames
<1>4. /\ Len(netData) \in Nat /\ Len(delivered) \in Nat /\ Len(stream) \in Nat
      /\ \A i \in 1 .. Len(netData) : netData[i] \in Nat
  BY <1>1
<1>5. nextNet \in Nat /\ rhand \in Nat
  BY DEF TypeOK
<1> QED BY <1>1, <1>3, <1>4, <1>5

\* readLoop goes on without a frame, or ends.
LEMMA ReaderMovesOn ==
  ASSUME DownlinkComplete, FramesNumbered,
         UNCHANGED <<delivered, stream, netData, nextNet>>,
         \/ reader' \in {"send", "done"}
         \/ reader \in {"check", "read"} /\ reader' \in {"check", "read"}
         \/ UNCHANGED <<reader, rhand>>
  PROVE  DownlinkComplete' /\ FramesNumbered'
<1>1. FramesNumbered' /\ Increasing(netData)' /\ UnderWay' = UnderWay
  BY DEF DownlinkComplete, FramesNumbered, Increasing, UnderWay
<1>2. CASE reader' \in {"send", "done"}
  BY <1>1, <1>2 DEF DownlinkComplete
<1>3. CASE \/ reader \in {"check", "read"} /\ reader' \in {"check", "read"}
           \/ UNCHANGED <<reader, rhand>>
  <2>1. /\ Taken' = Taken
        /\ reader' \in {"check", "read", "tunwrite"} => reader \in {"check", "read", "tunwrite"}
        /\ reader' = "tunwrite" => reader = "tunwrite" /\ rhand' = rhand
    BY <1>3 DEF Taken
  <2> QED BY <1>1, <2>1 DEF DownlinkComplete
<1> QED BY <1>2, <1>3

\* The oldest frame on its way is read: it is the next one of netData, or none.
LEMMA FrameRead ==
  ASSUME TypeOK, DownlinkComplete, FramesNumbered, ReadFrame
  PROVE  DownlinkComplete' /\ FramesNumbered'
<1> DEFINE f == Head(stream)
           k == Len(delivered)
           n == Len(netData)
<1>1. /\ reader = "read" /\ stream # <<>> /\ stream' = Tail(stream)
      /\ UNCHANGED <<delivered, netData, nextNet>>
      /\ IF f.type = "data" THEN rhand' = f.id /\ reader' = "tunwrite"
         ELSE reader' = "check"
  BY DEF ReadFrame
<1>2. /\ f = stream[1] /\ Len(stream) \in Nat \ {0}
      /\ Len(stream') = Len(stream) - 1
      /\ \A j \in 1 .. Len(stream') : stream'[j] = stream[j + 1]
  <2>1. stream \in Seq(Frames)
    BY DownlinkTypes
  <2> QED BY ONLY <1>1, <2>1, TailFacts
<1>3. /\ n \in Nat /\ k \in Nat /\ \A i \in 1 .. n : netData[i] \in Nat
      /\ \A j \in 1 .. Len(stream) : stream[j].id \in Nat
  BY DownlinkTypes
<1> HIDE DEF f
<1>4. /\ k <= n /\ UnderWay = {netData[i] : i \in k + 1 .. n}
      /\ Increasing(netData)
      /\ \A i, j \in 1 .. Len(stream) : i < j => stream[i].id < stream[j].id
  BY <1>1, <1>3 DEF DownlinkComplete, Taken
<1>5. \A j \in 1 .. Len(stream') : j + 1 \in 1 .. Len(stream) /\ 1 < j + 1
  BY <1>2
<1>6. FramesNumbered'
  BY <1>1, <1>2, <1>5 DEF FramesNumbered
<1>7. \A i, j \in 1 .. Len(stream') : i < j => stream'[i].id < stream'[j].id
  <2> SUFFICES ASSUME NEW i \in 1 .. Len(stream'), NEW j \in 1 .. Len(stream'), i < j
               PROVE  stream'[i].id < stream'[j].id
    OBVIOUS
  <2>1. i + 1 < j + 1 /\ i + 1 \in 1 .. Len(stream) /\ j + 1 \in 1 .. Len(stream)
    BY <1>5
  <2> QED BY <1>2, <1>4, <2>1
<1>8. UnderWay' = IF f.type = "data" THEN UnderWay \ {f.id} ELSE UnderWay
  <2>1. \A x : x \in UnderWay <=> \E j \in 1 .. Len(stream) : stream[j].type = "data" /\ x = stream[j].id
    BY DEF UnderWay
  <2>2. \A x : x \in UnderWay' <=>
          \E j \in 1 .. Len(stream') : stream'[j].type = "data" /\ x = stream'[j].id
    BY DEF UnderWay
  <2>3. ASSUME NEW j \in 1 .. Len(stream') PROVE f.id # stream'[j].id
    <3>1. 1 \in 1 .. Len(stream) /\ j + 1 \in 1 .. Len(stream) /\ 1 < j + 1
      BY <1>2, <1>5
    <3>2. stream[1].id < stream[j + 1].id /\ stream[1].id \in Nat /\ stream[j + 1].id \in Nat
      BY <1>3, <1>4, <3>1
    <3> QED BY <1>2, <3>2
  <2>4. ASSUME NEW x \in UnderWay' PROVE x \in UnderWay /\ x # f.id
    <3>1. PICK j \in 1 .. Len(stream') : stream'[j].type = "data" /\ x = stream'[j].id
      BY <2>2
    <3>2. j + 1 \in 1 .. Len(stream) /\ stream[j + 1] = stream'[j]
      BY <1>2, <1>5
    <3> QED BY <2>1, <2>3, <3>1, <3>2
  <2>5. ASSUME NEW x \in UnderWay, x \notin UnderWay' PROVE x = f.id /\ f.type = "data"
    <3>1. PICK j \in 1 .. Len(stream) : stream[j].type = "data" /\ x = stream[j].id
      BY <2>1
    <3>2. CASE j = 1
      BY <1>2, <3>1, <3>2
    <3>3. CASE j # 1
      <4>1. j - 1 \in 1 .. Len(stream') /\ (j - 1) + 1 = j
        BY <1>2, <3>3
      <4>2. stream'[j - 1] = stream[j]
        BY <1>2, <4>1
      <4> QED BY <2>2, <2>5, <3>1, <4>1, <4>2
    <3> QED BY <3>2, <3>3
  <2> QED BY <2>4, <2>5
<1>9. CASE f.type = "data"
  <2>1. 1 \in 1 .. Len(stream) /\ f.id \in UnderWay
    BY <1>2, <1>9 DEF UnderWay
  <2>2. PICK m \in k + 1 .. n : f.id = netData[m]
    BY <1>4, <2>1
  <2>3. m = k + 1
    <3> SUFFICES ASSUME m # k + 1 PROVE FALSE
      OBVIOUS
    <3>1. k + 1 \in k + 1 .. n /\ k + 1 < m /\ k + 1 \in 1 .. n /\ m \in 1 .. n
      BY <1>3
    <3>2. netData[k + 1] < f.id /\ netData[k + 1] \in UnderWay
      BY <1>4, <2>2, <3>1 DEF Increasing
    <3>3. PICK j \in 1 .. Len(stream) : netData[k + 1] = stream[j].id
      BY <3>2 DEF UnderWay
    <3>4. j = 1 \/ stream[1].id < stream[j].id
      BY <1>2, <1>4, <2>1
    <3>5. f.id \in Nat /\ stream[j].id \in Nat /\ f.id = stream[1].id
      BY <1>2, <1>3, <2>1
    <3> QED BY <3>2, <3>3, <3>4, <3>5
  <2>4. UnderWay' = {netData[i] : i \in k + 2 .. n}
    <3>1. \A i \in k + 2 .. n : i \in k + 1 .. n /\ k + 1 < i /\ k + 1 \in 1 .. n /\ i \in 1 .. n
      BY <1>3
    <3>2. \A i \in k + 2 .. n : netData[i] # f.id
      BY <1>3, <1>4, <2>2, <2>3, <3>1 DEF Increasing
    <3>3. \A i \in k + 1 .. n : i = k + 1 \/ i \in k + 2 .. n
      BY <1>3
    <3> QED BY <1>4, <1>8, <1>9, <2>2, <2>3, <3>1, <3>2, <3>3
  <2>5. Taken' = k + 1 /\ k + 1 <= n /\ reader' = "tunwrite" /\ rhand' = netData[k + 1]
    BY <1>1, <1>3, <1>9, <2>2, <2>3 DEF Taken
  <2>6. (k + 1) + 1 = k + 2
    BY <1>3
  <2>7. UnderWay' = {netData'[i] : i \in Taken' + 1 .. Len(netData')}
    BY <1>1, <2>4, <2>5, <2>6
  <2>8. DownlinkComplete'
    BY <1>1, <1>4, <1>7, <2>5, <2>7 DEF DownlinkComplete, Increasing
  <2> QED BY <1>6, <2>8
<1>10. CASE f.type # "data"
  <2>1. Taken' = k /\ reader' = "check"
    BY <1>1, <1>3, <1>10 DEF Taken
  <2>2. UnderWay' = {netData'[i] : i \in Taken' + 1 .. Len(netData')}
    BY <1>1, <1>4, <1>8, <1>10, <2>1
  <2>3. DownlinkComplete'
    BY <1>1, <1>4, <1>7, <2>1, <2>2 DEF DownlinkComplete, Increasing
  <2> QED BY <1>6, <2>3
<1> QED BY <1>9, <1>10

\* The frame in hand goes to the TUN device.
LEMMA FrameDelivered ==
  ASSUME TypeOK, DownlinkComplete, FramesNumbered, TunWrite
  PROVE  DownlinkComplete' /\ FramesNumbered'
<1> DEFINE k == Len(delivered)
<1>1. /\ reader = "tunwrite" /\ reader' = "check"
      /\ delivered' = Append(delivered, rhand) /\ UNCHANGED <<stream, netData, nextNet>>
  BY DEF TunWrite
<1>2. k \in Nat /\ delivered \in Seq(Nat) /\ rhand \in Nat /\ Len(netData) \in Nat
  BY DownlinkTypes
<1>3. /\ Len(delivered') = k + 1 /\ delivered'[k + 1] = rhand
      /\ \A i \in 1 .. k : delivered'[i] = delivered[i]
  BY ONLY <1>1, <1>2, AppendFacts
<1>4. Taken = k + 1 /\ Taken' = k + 1 /\ rhand = netData[k + 1] /\ k + 1 <= Len(netData)
  BY <1>1, <1>2, <1>3 DEF Taken, DownlinkComplete
<1>5. \A i \in 1 .. Len(delivered') : delivered'[i] = netData'[i]
  <2>1. \A i \in 1 .. k + 1 : i \in 1 .. k \/ i = k + 1
    BY <1>2
  <2> QED BY <1>1, <1>3, <1>4, <2>1 DEF DownlinkComplete
<1>6. UnderWay' = UnderWay /\ UnderWay = {netData[i] : i \in Taken + 1 .. Len(netData)}
  BY <1>1 DEF UnderWay, DownlinkComplete
<1> QED BY <1>1, <1>3, <1>4, <1>5, <1>6 DEF DownlinkComplete, FramesNumbered, Increasing

\* A frame is sent: with the largest number.
LEMMA FrameSent ==
  ASSUME TypeOK, DownlinkComplete, FramesNumbered, NEW type \in FrameTypes, GatewaySends(type)
  PROVE  DownlinkComplete' /\ FramesNumbered'
<1> DEFINE new == [type |-> type, id |-> nextNet + 1]
           l == Len(stream)
           n == Len(netData)
<1>1. /\ nextNet' = nextNet + 1 /\ stream' = Append(stream, new)
      /\ netData' = IF type = "data" THEN Append(netData, nextNet + 1) ELSE netData
      /\ UNCHANGED <<reader, rhand, delivered>>
  BY DEF GatewaySends
<1>2. /\ netData \in Seq(Nat) /\ stream \in Seq(Frames) /\ new \in Frames
      /\ n \in Nat /\ l \in Nat /\ Len(delivered) \in Nat /\ nextNet \in Nat
      /\ \A i \in 1 .. n : netData[i] \in Nat
      /\ \A j \in 1 .. l : stream[j].id \in Nat
  BY DownlinkTypes DEF Frames
<1>3. new.id = nextNet + 1 /\ new.type = type
  OBVIOUS
<1> HIDE DEF new
<1>4. /\ Len(stream') = l + 1 /\ stream'[l + 1] = new
      /\ \A j \in 1 .. l : stream'[j] = stream[j]
  BY ONLY <1>1, <1>2, AppendFacts
<1>5. \A j \in 1 .. l + 1 : j \in 1 .. l \/ j = l + 1
  BY <1>2
<1>6. \A i, j \in 1 .. Len(stream') : i < j => stream'[i].id < stream'[j].id
  <2> SUFFICES ASSUME NEW i \in 1 .. l + 1, NEW j \in 1 .. l + 1, i < j
               PROVE  stream'[i].id < stream'[j].id
    BY <1>4
  <2>1. i \in 1 .. l
    BY <1>2
  <2>2. CASE j \in 1 .. l
    BY <1>4, <2>1, <2>2 DEF DownlinkComplete
  <2>3. CASE j = l + 1
    <3>1. stream'[i].id <= nextNet /\ stream'[i].id \in Nat
      BY <1>2, <1>4, <2>1 DEF FramesNumbered
    <3>2. stream'[j].id = nextNet + 1
      BY <1>3, <1>4, <2>3
    <3> QED BY <1>2, <3>1, <3>2
  <2> QED BY <1>5, <2>2, <2>3
<1>7. UnderWay' = IF type = "data" THEN UnderWay \cup {nextNet + 1} ELSE UnderWay
  <2>1. \A x : x \in UnderWay <=> \E j \in 1 .. l : stream[j].type = "data" /\ x = stream[j].id
    BY DEF UnderWay
  <2>2. \A x : x \in UnderWay' <=> \E j \in 1 .. l + 1 : stream'[j].type = "data" /\ x = stream'[j].id
    BY <1>4 DEF UnderWay
  <2>3. l + 1 \in 1 .. l + 1 /\ \A j \in 1 .. l : j \in 1 .. l + 1
    BY <1>2
  <2>4. \A x : x \in UnderWay' <=> x \in UnderWay \/ (type = "data" /\ x = nextNet + 1)
    BY <1>3, <1>4, <1>5, <2>1, <2>2, <2>3
  <2> QED BY <2>4
<1>8. /\ Len(netData') = IF type = "data" THEN n + 1 ELSE n
      /\ type = "data" => netData'[n + 1] = nextNet + 1
      /\ \A i \in 1 .. n : netData'[i] = netData[i]
  <2>1. CASE type = "data"
    <3>1. netData' = Append(netData, nextNet + 1) /\ nextNet + 1 \in Nat
      BY <1>1, <1>2, <2>1
    <3> QED BY ONLY <1>2, <2>1, <3>1, AppendFacts
  <2>2. CASE type # "data"
    BY <1>1, <2>2
  <2> QED BY <2>1, <2>2
<1>9. \A i \in 1 .. Len(netData') : i \in 1 .. n \/ (type = "data" /\ i = n + 1)
  BY <1>2, <1>8
<1>10. Increasing(netData')
  <2> SUFFICES ASSUME NEW i \in 1 .. Len(netData'), NEW j \in 1 .. Len(netData'), i < j
               PROVE  netData'[i] < netData'[j]
    BY DEF Increasing
  <2>1. i \in 1 .. n
    BY <1>2, <1>8
  <2>2. CASE j \in 1 .. n
    <3>1. netData[i] < netData[j]
      BY <1>2, <2>1, <2>2 DEF DownlinkComplete, Increasing
    <3> QED BY <1>8, <2>1, <2>2, <3>1
  <2>3. CASE type = "data" /\ j = n + 1
    <3>1. netData[i] \in Nat /\ netData[i] <= nextNet
      BY <1>2, <2>1 DEF FramesNumbered
    <3>2. netData'[i] = netData[i] /\ netData'[j] = nextNet + 1
      BY <1>8, <2>1, <2>3
    <3>3. netData[i] < nextNet + 1
      BY <1>2, <3>1
    <3> QED BY <3>2, <3>3
  <2> QED BY <1>9, <2>2, <2>3
<1>11. FramesNumbered'
  <2>1. \A i \in 1 .. n : netData[i] <= nextNet + 1
    BY <1>2 DEF FramesNumbered
  <2>2. \A j \in 1 .. l : stream[j].id <= nextNet + 1
    BY <1>2 DEF FramesNumbered
  <2> QED BY <1>1, <1>2, <1>3, <1>4, <1>5, <1>8, <1>9, <2>1, <2>2 DEF FramesNumbered
<1>12. /\ Len(delivered) <= Len(netData')
       /\ \A i \in 1 .. Len(delivered) : delivered[i] = netData'[i]
  BY <1>2, <1>8 DEF DownlinkComplete
<1>13. ASSUME reader \in {"check", "read", "tunwrite"}
       PROVE  /\ Taken <= Len(netData')
              /\ reader = "tunwrite" => rhand = netData'[Taken]
              /\ UnderWay' = {netData'[i] : i \in Taken + 1 .. Len(netData')}
  <2> DEFINE t == Taken
  <2>1. /\ t \in Nat /\ t <= n /\ (reader = "tunwrite" => t \in 1 .. n /\ rhand = netData[t])
        /\ UnderWay = {netData[i] : i \in t + 1 .. n}
    BY <1>2, <1>13 DEF Taken, DownlinkComplete
  <2> HIDE DEF t
  <2>2. t <= Len(netData') /\ (reader = "tunwrite" => rhand = netData'[t])
    BY <1>2, <1>8, <2>1
  <2>3. CASE type = "data"
    <3>1. \A i : i \in t + 1 .. n + 1 <=> i \in t + 1 .. n \/ i = n + 1
      BY <1>2, <2>1
    <3>2. \A i \in t + 1 .. n : netData'[i] = netData[i]
      BY <1>2, <1>8, <2>1
    <3>3. UnderWay' = {netData'[i] : i \in t + 1 .. n + 1}
      BY <1>7, <1>8, <2>1, <2>3, <3>1, <3>2
    <3> QED BY <1>8, <2>2, <2>3, <3>3 DEF t
  <2>4. CASE type # "data"
    BY <1>1, <1>7, <2>1, <2>2, <2>4 DEF t
  <2> QED BY <2>3, <2>4
<1>14. Taken' = Taken
  BY <1>1 DEF Taken
<1>15. DownlinkComplete'
  BY <1>1, <1>6, <1>10, <1>12, <1>13, <1>14 DEF DownlinkComplete
<1> QED BY <1>11, <1>15

\* Only readLoop and the gateway touch the receiving direction.
LEMMA DownlinkStep ==
  ASSUME TypeOK, DownlinkComplete, FramesNumbered, [Next]_vars
  PROVE  DownlinkComplete' /\ FramesNumbered'
<1> DEFINE Still == UNCHANGED <<reader, rhand, delivered, stream, netData, nextNet>>
<1>1. CASE Still
  BY <1>1, ReaderMovesOn
<1>2. CASE Reader
  <2>1. CASE ReadFrame BY <2>1, FrameRead
  <2>2. CASE TunWrite BY <2>2, FrameDelivered
  <2>3. CASE ~ReadFrame /\ ~TunWrite
    <3>1. UNCHANGED <<delivered, stream, netData, nextNet>>
      BY <1>2, <2>3 DEF Reader, ReaderCheck, ReadError, ReadTimeout, ReadFails, ReaderFails,
                        TunWriteError, ReaderSend
    <3>2. \/ reader' \in {"send", "done"}
          \/ reader \in {"check", "read"} /\ reader' \in {"check", "read"}
      BY <1>2, <2>3 DEF Reader, ReaderCheck, ReadError, ReadTimeout, ReadFails, ReaderFails,
                        TunWriteError, ReaderSend
    <3> QED BY <3>1, <3>2, ReaderMovesOn
  <2> QED BY <2>1, <2>2, <2>3
<1>3. ASSUME NEW type \in FrameTypes, GatewaySends(type)
      PROVE  DownlinkComplete' /\ FramesNumbered'
  BY <1>3, FrameSent
<1>4. CASE Main
  <2>1. Still
    BY <1>4 DEF Main, SelectErr, SelectTunErr, SelectCtxDone, CloseConn, Return
  <2> QED BY <1>1, <2>1
<1>5. CASE Writer
  <2>1. Still
    BY <1>5 DEF Writer, WriterCtxDone, WriterTake, WriterWrite, WriterWriteError, WriterSend
  <2> QED BY <1>1, <2>1
<1>6. CASE Keeper
  <2>1. Still
    BY <1>6 DEF Keeper, KeeperCtxDone, KeeperTick, KeeperWrite, KeeperWriteError,
                KeeperSend, KeeperMoves
  <2> QED BY <1>1, <2>1
<1>7. CASE TunReader
  <2>1. Still
    BY <1>7 DEF TunReader, TunRead, TunReadError, Enqueue, EnqueueCtxDone, DropPacket
  <2> QED BY <1>1, <2>1
<1>8. CASE \/ CallerCancels \/ CallerClosesTun \/ TunFails
           \/ \E how \in {"closed", "gone"} : GatewayLeaves(how)
  <2>1. Still
    BY <1>8 DEF CallerCancels, CallerClosesTun, TunFails, GatewayLeaves
  <2> QED BY <1>1, <2>1
<1>9. CASE UNCHANGED vars
  <2>1. Still
    BY <1>9 DEF vars
  <2> QED BY <1>1, <2>1
<1> QED BY <1>2, <1>3, <1>4, <1>5, <1>6, <1>7, <1>8, <1>9 DEF Next, Terminated, Environment

\* While readLoop runs, what the gateway has sent is delivered, in hand or under
\* way, in the order of sending; and what was delivered stays the beginning of
\* it after readLoop has ended (readLoop), for any number of frames.
THEOREM NothingLostDown == Spec => []DownlinkComplete
<1>1. Init => DownlinkComplete /\ FramesNumbered
  <2> SUFFICES ASSUME Init PROVE DownlinkComplete /\ FramesNumbered
    OBVIOUS
  <2>1. /\ netData = <<>> /\ delivered = <<>> /\ stream = <<>> /\ reader = "check"
        /\ Len(netData) = 0 /\ Len(delivered) = 0 /\ Len(stream) = 0
    BY DEF Init
  <2>2. Taken = 0 /\ UnderWay = {} /\ Taken + 1 .. Len(netData) = {}
    BY <2>1 DEF Taken, UnderWay
  <2> QED BY <2>1, <2>2 DEF DownlinkComplete, FramesNumbered, Increasing
<1>2. TypeOK /\ DownlinkComplete /\ FramesNumbered /\ [Next]_vars
      => (DownlinkComplete /\ FramesNumbered)'
  BY DownlinkStep
<1> QED BY <1>1, <1>2, TypeCorrect, PTL DEF Spec

-----------------------------------------------------------------------------
(* The refinement of Uplink, and the statistics.  Uplink tells an empty hand *)
(* from a full one by 0, DataLoop by where the goroutine is.  HandsTell says *)
(* that the two agree; it is what the refinement mapping needs beyond the    *)
(* types.                                                                  *)

\* The writer holds a packet exactly while it writes one, the TUN goroutine is
\* about to enqueue the youngest packet, and 0 is no packet.
HandsTell ==
  /\ whand # 0 <=> writer = "write"
  /\ tunReader = "enqueue" => thand = nextTun /\ thand # 0
  /\ \A i \in 1 .. Len(tunOut) : tunOut[i] # 0

\* PacketsSent counts the packet in the writer's hands.
SentCounted ==
  /\ writer = "select" => packetsSent = Len(wire)
  /\ writer = "write"  => packetsSent = Len(wire) + 1
  /\ packetsSent \in {Len(wire), Len(wire) + 1}

\* Steps that leave the sending direction alone.
UplinkIdle == UNCHANGED <<writerVars, tunReader, thand, nextTun, tunOut>>

-----------------------------------------------------------------------------
(* Which steps concern the sending direction.                              *)

\* Only the writer and the TUN goroutine touch it.
LEMMA OthersIdle ==
  ASSUME [Next]_vars
  PROVE  Writer \/ TunReader \/ UplinkIdle
<1> USE DEF UplinkIdle
<1>1. CASE Main
  BY <1>1 DEF Main, SelectErr, SelectTunErr, SelectCtxDone, CloseConn, Return
<1>2. CASE Reader
  BY <1>2 DEF Reader, ReaderCheck, ReadFrame, ReadError, ReadTimeout, ReadFails,
              TunWrite, TunWriteError, ReaderSend
<1>3. CASE Keeper
  BY <1>3 DEF Keeper, KeeperCtxDone, KeeperTick, KeeperWrite, KeeperWriteError,
              KeeperSend, KeeperMoves
<1>4. CASE Environment
  BY <1>4 DEF Environment, CallerCancels, CallerClosesTun, TunFails, GatewaySends,
              GatewayLeaves
<1>5. CASE UNCHANGED vars
  BY <1>5 DEF vars
<1> QED BY <1>1, <1>2, <1>3, <1>4, <1>5 DEF Next, Terminated

-----------------------------------------------------------------------------
(* Hands.                                                                  *)

\* At the start all hands and the queue are empty.
LEMMA HandsInit == Init => HandsTell
<1> SUFFICES ASSUME Init PROVE HandsTell
  OBVIOUS
<1>1. Len(tunOut) = 0 BY DEF Init
<1> QED BY <1>1 DEF Init, HandsTell

\* A packet moves from hand to queue to hand, and a hand is emptied when the
\* goroutine moves on.
LEMMA HandsStep ==
  ASSUME TypeOK, HandsTell, [Next]_vars
  PROVE  HandsTell'
<1>1. CASE UplinkIdle
  BY <1>1 DEF UplinkIdle, HandsTell
<1>2. CASE Writer
  <2>1. CASE WriterTake
    <3>1. tunOut \in Seq(Nat) /\ tunOut # <<>> BY <2>1 DEF TypeOK, WriterTake
    <3>2. \A i \in 1 .. Len(tunOut) : tunOut[i] # 0 BY DEF HandsTell
    <3>3. Head(tunOut) # 0
      BY ONLY <3>1, <3>2, TailFacts
    <3>4. \A i \in 1 .. Len(Tail(tunOut)) : Tail(tunOut)[i] # 0
      BY ONLY <3>1, <3>2, TailFacts
    <3>5. /\ whand' = Head(tunOut) /\ tunOut' = Tail(tunOut) /\ writer' = "write"
          /\ UNCHANGED <<tunReader, thand, nextTun>>
      BY <2>1 DEF WriterTake
    <3> QED BY <3>3, <3>4, <3>5 DEF HandsTell
  <2>2. CASE ~WriterTake
    <3>1. UNCHANGED <<tunReader, thand, nextTun, tunOut>>
      BY <1>2, <2>2 DEF Writer, WriterCtxDone, WriterWrite, WriterWriteError,
                        WriterSend
    <3>2. (whand # 0 <=> writer = "write")'
      BY <1>2, <2>2 DEF HandsTell, Writer, WriterCtxDone, WriterWrite,
                        WriterWriteError, WriterSend
    <3> QED BY <3>1, <3>2 DEF HandsTell
  <2> QED BY <2>1, <2>2
<1>3. CASE TunReader
  <2>1. UNCHANGED <<writer, whand>>
    BY <1>3 DEF TunReader, TunRead, TunReadError, Enqueue, EnqueueCtxDone, DropPacket
  <2>2. CASE Enqueue
    <3>1. /\ tunOut \in Seq(Nat) /\ thand \in Nat /\ thand # 0
          /\ tunOut' = Append(tunOut, thand) /\ tunReader' = "read"
      BY <2>2 DEF TypeOK, HandsTell, Enqueue
    <3>2. \A i \in 1 .. Len(tunOut) : tunOut[i] # 0 BY DEF HandsTell
    <3>3. \A i \in 1 .. Len(tunOut') : tunOut'[i] # 0
      <4>1. Len(tunOut) \in Nat BY <3>1
      <4> QED BY ONLY <3>1, <3>2, <4>1, AppendFacts
    <3> QED BY <2>1, <3>1, <3>3 DEF HandsTell
  <2>3. CASE TunRead
    BY <2>1, <2>3 DEF TypeOK, HandsTell, TunRead
  <2>4. CASE TunReadError \/ EnqueueCtxDone \/ DropPacket
    <3>1. tunReader' # "enqueue" /\ UNCHANGED tunOut
      BY <2>4 DEF TunReadError, EnqueueCtxDone, DropPacket
    <3> QED BY <2>1, <3>1 DEF HandsTell
  <2> QED BY <1>3, <2>2, <2>3, <2>4 DEF TunReader
<1> QED BY <1>1, <1>2, <1>3, OthersIdle

-----------------------------------------------------------------------------
(* The refinement.                                                         *)

\* The initial state of the data loop is the initial state of Uplink.
LEMMA UplinkInit == Init => U!Init
  BY DEF Init, U!Init

\* A step of the TUN goroutine accepts a packet, drops it because the queue is
\* full, ends the intake, or is invisible.
LEMMA UplinkTunReader ==
  ASSUME TypeOK, HandsTell, TunReader
  PROVE  [U!Next]_(U!vars)
<1>1. UNCHANGED <<writer, whand, wire>>
  BY DEF TunReader, TunRead, TunReadError, Enqueue, EnqueueCtxDone, DropPacket
<1>2. CASE TunRead
  <2>1. /\ tunReader = "read" /\ tunReader' = "enqueue"
        /\ nextTun \in Nat /\ nextTun' = nextTun + 1 /\ UNCHANGED tunOut
    BY <1>2 DEF TypeOK, TunRead
  <2> QED BY <1>1, <2>1 DEF U!vars
<1>3. CASE TunReadError
  <2>1. /\ tunReader = "read" /\ tunReader' = "done"
        /\ UNCHANGED <<nextTun, tunOut>>
    BY <1>3 DEF TunReadError
  <2>2. U!StopIntake BY <1>1, <2>1 DEF U!StopIntake
  <2> QED BY <2>2 DEF U!Next
<1>4. CASE Enqueue
  <2>1. /\ tunReader = "enqueue" /\ tunReader' = "read" /\ nextTun \in Nat
        /\ thand = nextTun /\ Len(tunOut) < QueueCap
        /\ tunOut' = Append(tunOut, thand) /\ UNCHANGED nextTun
    BY <1>4 DEF TypeOK, HandsTell, Enqueue
  <2>2. nextTun - 1 + 1 = nextTun BY <2>1
  <2>3. U!Accept BY <1>1, <2>1, <2>2 DEF U!Accept
  <2> QED BY <2>3 DEF U!Next
<1>5. CASE EnqueueCtxDone
  <2>1. /\ tunReader = "enqueue" /\ tunReader' = "done" /\ nextTun \in Nat
        /\ UNCHANGED <<nextTun, tunOut>>
    BY <1>5 DEF TypeOK, EnqueueCtxDone
  <2>2. nextTun - 1 + 1 = nextTun BY <2>1
  <2>3. U!StopIntake BY <1>1, <2>1, <2>2 DEF U!StopIntake
  <2> QED BY <2>3 DEF U!Next
<1>6. CASE DropPacket
  <2>1. /\ tunReader = "enqueue" /\ tunReader' = "read" /\ nextTun \in Nat
        /\ UNCHANGED <<nextTun, tunOut>>
    BY <1>6 DEF TypeOK, DropPacket
  <2>2. Len(tunOut) = QueueCap
    <3>1. Len(tunOut) \in Nat /\ Len(tunOut) >= QueueCap /\ Len(tunOut) <= QueueCap
      BY <1>6 DEF TypeOK, DropPacket
    <3> QED BY ONLY <3>1, BoundsAssumption
  <2>3. nextTun - 1 + 1 = nextTun BY <2>1
  <2>4. U!Drop BY <1>1, <2>1, <2>2, <2>3 DEF U!Drop
  <2> QED BY <2>4 DEF U!Next
<1> QED BY <1>2, <1>3, <1>4, <1>5, <1>6 DEF TunReader

\* A step of the writer takes a packet, transmits it, fails, or, once it has
\* failed, is invisible.
LEMMA UplinkWriter ==
  ASSUME TypeOK, HandsTell, Writer
  PROVE  [U!Next]_(U!vars)
<1>1. UNCHANGED <<tunReader, nextTun>>
  BY DEF Writer, WriterCtxDone, WriterTake, WriterWrite, WriterWriteError, WriterSend
<1>2. whand # 0 <=> writer = "write"
  BY DEF HandsTell
<1>3. CASE WriterCtxDone
  <2>1. U!Fail BY <1>1, <1>2, <1>3 DEF WriterCtxDone, U!Fail
  <2> QED BY <2>1 DEF U!Next
<1>4. CASE WriterTake
  <2>1. U!Take BY <1>1, <1>2, <1>4 DEF WriterTake, U!Take
  <2> QED BY <2>1 DEF U!Next
<1>5. CASE WriterWrite
  <2>1. U!Transmit BY <1>1, <1>2, <1>5 DEF WriterWrite, U!Transmit
  <2> QED BY <2>1 DEF U!Next
<1>6. CASE WriterWriteError
  <2>1. U!Fail BY <1>1, <1>6 DEF WriterWriteError, U!Fail
  <2> QED BY <2>1 DEF U!Next
<1>7. CASE WriterSend
  BY <1>1, <1>7 DEF WriterSend, U!vars
<1> QED BY <1>3, <1>4, <1>5, <1>6, <1>7 DEF Writer

\* The data loop implements Uplink: for any capacity of tunOut a packet is lost
\* only because tunOut is full or because the session ends, and none is sent
\* twice or out of order (RunDataLoop, writeLoop).
THEOREM ImplementsUplink == Spec => UplinkSpec
<1>1. TypeOK /\ HandsTell /\ [Next]_vars => HandsTell'
  BY HandsStep
<1>2. TypeOK /\ HandsTell /\ [Next]_vars => [U!Next]_(U!vars)
  <2> SUFFICES ASSUME TypeOK, HandsTell, [Next]_vars
               PROVE  [U!Next]_(U!vars)
    OBVIOUS
  <2>1. CASE UplinkIdle BY <2>1 DEF UplinkIdle, U!vars
  <2>2. CASE Writer BY <2>2, UplinkWriter
  <2>3. CASE TunReader BY <2>3, UplinkTunReader
  <2> QED BY <2>1, <2>2, <2>3, OthersIdle
<1> HIDE DEF ctxVars, mainVars, readerVars, writerVars, tunVars, envVars
<1> QED BY HandsInit, UplinkInit, TypeCorrect, <1>1, <1>2, PTL
        DEF Spec, UplinkSpec, U!Spec

-----------------------------------------------------------------------------
(* Statistics.                                                             *)

\* The counter goes up when a packet is taken, the wire when it is written.
LEMMA SentStep ==
  ASSUME TypeOK, SentCounted, [Next]_vars
  PROVE  SentCounted'
<1>0. Len(wire) \in Nat /\ wire \in Seq(Nat) /\ packetsSent \in Nat /\ whand \in Nat
  BY DEF TypeOK
<1>1. CASE UplinkIdle \/ TunReader
  <2>1. UNCHANGED <<writer, packetsSent, wire>>
    BY <1>1 DEF UplinkIdle, TunReader, TunRead, TunReadError, Enqueue,
                EnqueueCtxDone, DropPacket
  <2> QED BY <2>1 DEF SentCounted
<1>2. CASE Writer
  <2>1. CASE WriterTake
    <3>1. /\ writer = "select" /\ writer' = "write" /\ UNCHANGED wire
          /\ packetsSent' = packetsSent + 1
      BY <2>1 DEF WriterTake
    <3> QED BY <1>0, <3>1 DEF SentCounted
  <2>2. CASE WriterWrite
    <3>1. /\ writer = "write" /\ writer' = "select" /\ UNCHANGED packetsSent
          /\ wire' = Append(wire, whand)
      BY <2>2 DEF WriterWrite
    <3>2. Len(wire') = Len(wire) + 1 BY ONLY <1>0, <3>1, AppendFacts
    <3> QED BY <1>0, <3>1, <3>2 DEF SentCounted
  <2>3. CASE WriterCtxDone \/ WriterWriteError \/ WriterSend
    <3>1. writer' \in {"send", "done"} /\ UNCHANGED <<packetsSent, wire>>
      BY <2>3 DEF WriterCtxDone, WriterWriteError, WriterSend
    <3> QED BY <3>1 DEF SentCounted
  <2> QED BY <1>2, <2>1, <2>2, <2>3 DEF Writer
<1> QED BY <1>1, <1>2, OthersIdle

\* PacketsSent is never more than one packet ahead of the wire, and not ahead at
\* all while writeLoop waits for a packet (writeLoop).
THEOREM StatsFollow == Spec => []StatsFollowWire
<1>1. Init => SentCounted
  BY DEF Init, SentCounted
<1>2. TypeOK /\ SentCounted /\ [Next]_vars => SentCounted'
  BY SentStep
<1>3. TypeOK /\ SentCounted => StatsFollowWire
  <2> SUFFICES ASSUME TypeOK, SentCounted PROVE StatsFollowWire
    OBVIOUS
  <2>1. Len(wire) \in Nat /\ packetsSent \in Nat BY DEF TypeOK
  <2> QED BY <2>1 DEF SentCounted, StatsFollowWire
<1> QED BY <1>1, <1>2, <1>3, TypeCorrect, PTL DEF Spec
=============================================================================
