---------------------------- MODULE SessionProofs ----------------------------
(***************************************************************************)
(* Proofs about Session, for any number of signals.                        *)
(*                                                                         *)
(* The defers of runSession are a stack whose contents follow from the     *)
(* phase (DefersByPhase).  From this, what is held is on the stack          *)
(* (HeldIsDeferred), nothing is held when it is empty (TornDown), and what  *)
(* lies above the logout is gone when the logout runs                       *)
(* (LogoutOutsideTunnel).                                                   *)
(***************************************************************************)
EXTENDS Session, SequenceTheorems, TLAPS

-----------------------------------------------------------------------------
(* What the invariants rest on.                                            *)

Stacks == {<<>>, <<"cancel">>, <<"logout", "cancel">>,
           <<"tun", "logout", "cancel">>,
           <<"tunnel", "tun", "logout", "cancel">>,
           <<"dns", "tunnel", "tun", "logout", "cancel">>}

\* A cleanup is on a stack.
OnStack(s, name) == \E i \in 1 .. Len(s) : s[i] = name

\* Every phase adds at most one cleanup, only the unwinding takes them off.
DefersByPhase ==
  /\ main = "login" => defers = <<"cancel">>
  /\ main \in {"getconfig", "tunnew"} => defers = <<"logout", "cancel">>
  /\ main \in {"dial", "awaitstart"} => defers = <<"tun", "logout", "cancel">>
  /\ main = "startdns" => defers = <<"tunnel", "tun", "logout", "cancel">>
  /\ main = "loop" => defers \in {<<"tunnel", "tun", "logout", "cancel">>,
                                  <<"dns", "tunnel", "tun", "logout", "cancel">>}
  /\ main = "returned" => defers = <<>>
  /\ defers \in Stacks

\* The DNS server starts last, and runSession's own context is cancelled by
\* its failure or at the end.
CancellationHasCause ==
  /\ main \in {"login", "getconfig", "tunnew", "dial", "awaitstart", "startdns"}
       => dns = "off"
  /\ sessDone => dns = "failed" \/ main \in {"unwind", "returned", "exited"}

\* The unwinding begins with an error.
UnwindHasError == main \in {"unwind", "returned"} => err # "none"

IInv == /\ TypeOK /\ DefersByPhase /\ HeldIsDeferred
        /\ CancellationHasCause /\ CanceledHasCause /\ UnwindHasError

-----------------------------------------------------------------------------
(* Stacks of cleanups.                                                     *)

\* What is on the stacks that occur.
LEMMA StackFacts ==
  /\ Stacks \subseteq Seq(Cleanups)
  /\ OnStack(<<"cancel">>, "cancel")
  /\ \A name \in {"logout", "cancel"} : OnStack(<<"logout", "cancel">>, name)
  /\ \A name \in {"tun", "logout", "cancel"} :
       OnStack(<<"tun", "logout", "cancel">>, name)
  /\ \A name \in {"tunnel", "tun", "logout", "cancel"} :
       OnStack(<<"tunnel", "tun", "logout", "cancel">>, name)
  /\ \A name \in {"tunnel", "tun", "logout", "cancel"} :
       OnStack(<<"dns", "tunnel", "tun", "logout", "cancel">>, name)
  BY DEF Stacks, OnStack, Cleanups

\* What deferring a cleanup does to the stack.
LEMMA PushProperties ==
  ASSUME NEW S, NEW x \in S, NEW s \in Seq(S)
  PROVE  /\ <<x>> \o s \in Seq(S)
         /\ Len(<<x>> \o s) = Len(s) + 1
         /\ (<<x>> \o s)[1] = x
         /\ \A i \in 2 .. Len(s) + 1 : (<<x>> \o s)[i] = s[i - 1]
<1>1. <<x>> \in Seq(S) /\ Len(<<x>>) = 1 /\ <<x>>[1] = x /\ Len(s) \in Nat
  OBVIOUS
<1> DEFINE top == <<x>>
<1> HIDE DEF top
<1> QED BY <1>1, ConcatProperties DEF top

\* A stack is known by its elements.
LEMMA PushIs ==
  ASSUME NEW x \in Cleanups, NEW s \in Seq(Cleanups), NEW u \in Seq(Cleanups),
         Len(u) = Len(s) + 1, u[1] = x, \A i \in 2 .. Len(s) + 1 : u[i] = s[i - 1]
  PROVE  <<x>> \o s = u
  BY PushProperties, SeqEqual

\* The stacks that occur, one on top of the other.
LEMMA PushFacts ==
  /\ <<"logout">> \o <<"cancel">> = <<"logout", "cancel">>
  /\ <<"tun">> \o <<"logout", "cancel">> = <<"tun", "logout", "cancel">>
  /\ <<"tunnel">> \o <<"tun", "logout", "cancel">>
       = <<"tunnel", "tun", "logout", "cancel">>
  /\ <<"dns">> \o <<"tunnel", "tun", "logout", "cancel">>
       = <<"dns", "tunnel", "tun", "logout", "cancel">>
  /\ \A s \in Seq(Cleanups) : <<>> \o s = s
<1>1. <<"logout">> \o <<"cancel">>
       = <<"logout", "cancel">>
  <2> DEFINE x == "logout"
             t == <<"cancel">>
             u == <<"logout", "cancel">>
  <2>1. t \in Seq(Cleanups) /\ Len(t) = 1 /\ u \in Seq(Cleanups) /\ Len(u) = 2
    BY DEF Cleanups
  <2>2. t[1] = "cancel"
    OBVIOUS
  <2>3. x = "logout" /\ u[1] = x /\ u[2] = "cancel"
    OBVIOUS
  <2>4. x \in Cleanups BY DEF Cleanups
  <2> HIDE DEF x, t, u
  <2>5. Len(u) = Len(t) + 1 /\ \A i \in 2 .. Len(t) + 1 : u[i] = t[i - 1]
    BY ONLY <2>1, <2>2, <2>3
  <2>6. <<x>> \o t = u BY ONLY <2>1, <2>3, <2>4, <2>5, PushIs
  <2> QED BY <2>6 DEF x, t, u
<1>2. <<"tun">> \o <<"logout", "cancel">>
       = <<"tun", "logout", "cancel">>
  <2> DEFINE x == "tun"
             t == <<"logout", "cancel">>
             u == <<"tun", "logout", "cancel">>
  <2>1. t \in Seq(Cleanups) /\ Len(t) = 2 /\ u \in Seq(Cleanups) /\ Len(u) = 3
    BY DEF Cleanups
  <2>2. t[1] = "logout" /\ t[2] = "cancel"
    OBVIOUS
  <2>3. x = "tun" /\ u[1] = x /\ u[2] = "logout" /\ u[3] = "cancel"
    OBVIOUS
  <2>4. x \in Cleanups BY DEF Cleanups
  <2> HIDE DEF x, t, u
  <2>5. Len(u) = Len(t) + 1 /\ \A i \in 2 .. Len(t) + 1 : u[i] = t[i - 1]
    BY ONLY <2>1, <2>2, <2>3
  <2>6. <<x>> \o t = u BY ONLY <2>1, <2>3, <2>4, <2>5, PushIs
  <2> QED BY <2>6 DEF x, t, u
<1>3. <<"tunnel">> \o <<"tun", "logout", "cancel">>
       = <<"tunnel", "tun", "logout", "cancel">>
  <2> DEFINE x == "tunnel"
             t == <<"tun", "logout", "cancel">>
             u == <<"tunnel", "tun", "logout", "cancel">>
  <2>1. t \in Seq(Cleanups) /\ Len(t) = 3 /\ u \in Seq(Cleanups) /\ Len(u) = 4
    BY DEF Cleanups
  <2>2. t[1] = "tun" /\ t[2] = "logout" /\ t[3] = "cancel"
    OBVIOUS
  <2>3. x = "tunnel" /\ u[1] = x /\ u[2] = "tun" /\ u[3] = "logout" /\ u[4] = "cancel"
    OBVIOUS
  <2>4. x \in Cleanups BY DEF Cleanups
  <2> HIDE DEF x, t, u
  <2>5. Len(u) = Len(t) + 1 /\ \A i \in 2 .. Len(t) + 1 : u[i] = t[i - 1]
    BY ONLY <2>1, <2>2, <2>3
  <2>6. <<x>> \o t = u BY ONLY <2>1, <2>3, <2>4, <2>5, PushIs
  <2> QED BY <2>6 DEF x, t, u
<1>4. <<"dns">> \o <<"tunnel", "tun", "logout", "cancel">>
       = <<"dns", "tunnel", "tun", "logout", "cancel">>
  <2> DEFINE x == "dns"
             t == <<"tunnel", "tun", "logout", "cancel">>
             u == <<"dns", "tunnel", "tun", "logout", "cancel">>
  <2>1. t \in Seq(Cleanups) /\ Len(t) = 4 /\ u \in Seq(Cleanups) /\ Len(u) = 5
    BY DEF Cleanups
  <2>2. t[1] = "tunnel" /\ t[2] = "tun" /\ t[3] = "logout" /\ t[4] = "cancel"
    OBVIOUS
  <2>3. x = "dns" /\ u[1] = x /\ u[2] = "tunnel" /\ u[3] = "tun" /\ u[4] = "logout" /\ u[5] = "cancel"
    OBVIOUS
  <2>4. x \in Cleanups BY DEF Cleanups
  <2> HIDE DEF x, t, u
  <2>5. Len(u) = Len(t) + 1 /\ \A i \in 2 .. Len(t) + 1 : u[i] = t[i - 1]
    BY ONLY <2>1, <2>2, <2>3
  <2>6. <<x>> \o t = u BY ONLY <2>1, <2>3, <2>4, <2>5, PushIs
  <2> QED BY <2>6 DEF x, t, u
<1> QED BY <1>1, <1>2, <1>3, <1>4, ConcatEmptySeq

\* A cleanup that is deferred leaves the others where they are.
LEMMA PushKeeps ==
  ASSUME NEW x \in Cleanups, NEW s \in Seq(Cleanups)
  PROVE  /\ OnStack(<<x>> \o s, x)
         /\ \A name : OnStack(s, name) => OnStack(<<x>> \o s, name)
<1> DEFINE u == <<x>> \o s
<1>1. /\ Len(s) \in Nat /\ Len(u) = Len(s) + 1 /\ u[1] = x
      /\ \A i \in 2 .. Len(s) + 1 : u[i] = s[i - 1]
  BY PushProperties
<1> HIDE DEF u
<1>2. OnStack(u, x)
  <2>1. 1 \in 1 .. Len(u) BY <1>1
  <2> QED BY <1>1, <2>1 DEF OnStack
<1>3. ASSUME NEW name, OnStack(s, name) PROVE OnStack(u, name)
  <2>1. PICK i \in 1 .. Len(s) : s[i] = name BY <1>3 DEF OnStack
  <2>2. i + 1 \in 2 .. Len(s) + 1 /\ i + 1 \in 1 .. Len(u) /\ (i + 1) - 1 = i
    BY <1>1
  <2>3. u[i + 1] = name BY <1>1, <2>1, <2>2
  <2> QED BY <2>2, <2>3 DEF OnStack
<1> QED BY <1>2, <1>3 DEF u

\* Running a cleanup: the rest of the stack stays, and below the logout there is
\* neither the device nor the connection.
LEMMA PopFacts ==
  ASSUME NEW s \in Stacks, s # <<>>
  PROVE  /\ Tail(s) \in Stacks
         /\ \A name : OnStack(s, name) => name = Head(s) \/ OnStack(Tail(s), name)
         /\ Head(s) = "logout" => ~OnStack(s, "tun") /\ ~OnStack(s, "tunnel")
<1>1. Tail(s) \in Stacks
  <2>1. CASE s = <<"cancel">> BY <2>1 DEF Stacks
  <2>2. CASE s = <<"logout", "cancel">> BY <2>2 DEF Stacks
  <2>3. CASE s = <<"tun", "logout", "cancel">> BY <2>3 DEF Stacks
  <2>4. CASE s = <<"tunnel", "tun", "logout", "cancel">> BY <2>4 DEF Stacks
  <2>5. CASE s = <<"dns", "tunnel", "tun", "logout", "cancel">> BY <2>5 DEF Stacks
  <2> QED BY <2>1, <2>2, <2>3, <2>4, <2>5 DEF Stacks
<1>2. ASSUME NEW name, OnStack(s, name), name # Head(s)
      PROVE  OnStack(Tail(s), name)
  <2>1. s \in Seq(Cleanups) BY StackFacts
  <2>2. PICK i \in 1 .. Len(s) : s[i] = name BY <1>2 DEF OnStack
  <2>3. i # 1 BY <1>2, <2>1, <2>2
  <2>4. i - 1 \in 1 .. Len(Tail(s)) /\ Tail(s)[i - 1] = name
    BY <2>1, <2>2, <2>3
  <2> QED BY <2>4 DEF OnStack
<1>3. Head(s) = "logout" => s = <<"logout", "cancel">>
  BY DEF Stacks
<1>4. ~OnStack(<<"logout", "cancel">>, "tun") /\ ~OnStack(<<"logout", "cancel">>, "tunnel")
  BY DEF OnStack
<1> QED BY <1>1, <1>2, <1>3, <1>4

-----------------------------------------------------------------------------
(* The invariant.                                                          *)

USE DEF sigVars, resVars

\* Nothing is held at the start but the context.
LEMMA InvInit == Init => IInv
<1> SUFFICES ASSUME Init PROVE IInv
  OBVIOUS
<1>1. defers = <<"cancel">> /\ defers \in Stacks /\ Deferred("cancel")
  BY StackFacts DEF Init, Stacks, OnStack, Deferred
<1>2. TypeOK
  <2>1. defers \in Seq(Cleanups) BY <1>1, StackFacts
  <2>2. sigCh \in 0 .. SigChCap BY DEF Init, SigChCap
  <2> QED BY <2>1, <2>2 DEF Init, TypeOK, Phases
<1>3. DefersByPhase /\ HeldIsDeferred
  BY <1>1 DEF Init, DefersByPhase, HeldIsDeferred
<1>4. CancellationHasCause /\ CanceledHasCause /\ UnwindHasError
  BY DEF Init, CancellationHasCause, CanceledHasCause, UnwindHasError
<1> QED BY <1>2, <1>3, <1>4 DEF IInv

\* A phase that ends well puts its cleanup on the stack together with what it
\* acquires.
LEMMA SetupStep ==
  ASSUME IInv, Setup
  PROVE  IInv'
<1>0. TypeOK /\ DefersByPhase /\ HeldIsDeferred /\ CancellationHasCause
      /\ CanceledHasCause /\ UnwindHasError
  BY DEF IInv
<1>1. /\ UNCHANGED <<serveDNS, err, sigVars, sessDone>>
      /\ main \in {"login", "getconfig", "tunnew", "dial", "awaitstart", "startdns"}
      /\ main' \in {"getconfig", "tunnew", "dial", "awaitstart", "startdns", "loop"}
  BY DEF Setup, Login, GetConfig, NewTun, Dial, StartTunnel, StartDNS, SkipDNS, Proceed
<1>2. defers \in Seq(Cleanups) BY <1>0 DEF TypeOK
<1>3. DefersByPhase'
  <2>1. CASE Login
    <3>1. main' = "getconfig" /\ defers' = <<"logout", "cancel">>
      BY <1>0, <2>1, PushFacts DEF Login, Proceed, DefersByPhase
    <3> QED BY <3>1 DEF DefersByPhase, Stacks
  <2>2. CASE GetConfig
    <3>1. main' = "tunnew" /\ defers' = <<"logout", "cancel">>
      BY <1>0, <1>2, <2>2, PushFacts DEF GetConfig, Proceed, DefersByPhase
    <3> QED BY <3>1 DEF DefersByPhase, Stacks
  <2>3. CASE NewTun
    <3>1. main' = "dial" /\ defers' = <<"tun", "logout", "cancel">>
      BY <1>0, <2>3, PushFacts DEF NewTun, Proceed, DefersByPhase
    <3> QED BY <3>1 DEF DefersByPhase, Stacks
  <2>4. CASE Dial
    <3>1. main' = "awaitstart" /\ defers' = <<"tun", "logout", "cancel">>
      BY <1>0, <1>2, <2>4, PushFacts DEF Dial, Proceed, DefersByPhase
    <3> QED BY <3>1 DEF DefersByPhase, Stacks
  <2>5. CASE StartTunnel
    <3>1. main' = "startdns" /\ defers' = <<"tunnel", "tun", "logout", "cancel">>
      BY <1>0, <2>5, PushFacts DEF StartTunnel, Proceed, DefersByPhase
    <3> QED BY <3>1 DEF DefersByPhase, Stacks
  <2>6. CASE StartDNS
    <3>1. main' = "loop" /\ defers' = <<"dns", "tunnel", "tun", "logout", "cancel">>
      BY <1>0, <2>6, PushFacts DEF StartDNS, Proceed, DefersByPhase
    <3> QED BY <3>1 DEF DefersByPhase, Stacks
  <2>7. CASE SkipDNS
    <3>1. main' = "loop" /\ defers' = <<"tunnel", "tun", "logout", "cancel">>
      BY <1>0, <1>2, <2>7, PushFacts DEF SkipDNS, Proceed, DefersByPhase
    <3> QED BY <3>1 DEF DefersByPhase, Stacks
  <2> QED BY <2>1, <2>2, <2>3, <2>4, <2>5, <2>6, <2>7 DEF Setup
<1>4. defers' \in Seq(Cleanups)
  BY <1>3, StackFacts DEF DefersByPhase
<1>5. TypeOK'
  BY <1>0, <1>1, <1>4 DEF TypeOK, Phases, Setup, Login, GetConfig, NewTun, Dial,
                          StartTunnel, StartDNS, SkipDNS
<1>6. HeldIsDeferred'
  <2>1. CASE Login
    <3>1. /\ OnStack(defers', "logout")
          /\ \A name : OnStack(defers, name) => OnStack(defers', name)
      <4>1. defers' = <<"logout">> \o defers BY <2>1 DEF Login, Proceed
      <4>2. "logout" \in Cleanups BY DEF Cleanups
      <4> QED BY ONLY <1>2, <4>1, <4>2, PushKeeps
    <3> QED BY <1>0, <1>1, <2>1, <3>1
            DEF Login, Proceed, HeldIsDeferred, Running, Deferred, OnStack
  <2>2. CASE NewTun
    <3>1. /\ OnStack(defers', "tun")
          /\ \A name : OnStack(defers, name) => OnStack(defers', name)
      <4>1. defers' = <<"tun">> \o defers BY <2>2 DEF NewTun, Proceed
      <4>2. "tun" \in Cleanups BY DEF Cleanups
      <4> QED BY ONLY <1>2, <4>1, <4>2, PushKeeps
    <3> QED BY <1>0, <1>1, <2>2, <3>1
            DEF NewTun, Proceed, HeldIsDeferred, Running, Deferred, OnStack
  <2>3. CASE StartTunnel
    <3>1. /\ OnStack(defers', "tunnel")
          /\ \A name : OnStack(defers, name) => OnStack(defers', name)
      <4>1. defers' = <<"tunnel">> \o defers BY <2>3 DEF StartTunnel, Proceed
      <4>2. "tunnel" \in Cleanups BY DEF Cleanups
      <4> QED BY ONLY <1>2, <4>1, <4>2, PushKeeps
    <3> QED BY <1>0, <1>1, <2>3, <3>1
            DEF StartTunnel, Proceed, HeldIsDeferred, Running, Deferred, OnStack
  <2>4. CASE StartDNS
    <3>1. \A name : OnStack(defers, name) => OnStack(defers', name)
      <4>1. defers' = <<"dns">> \o defers BY <2>4 DEF StartDNS, Proceed
      <4>2. "dns" \in Cleanups BY DEF Cleanups
      <4> QED BY ONLY <1>2, <4>1, <4>2, PushKeeps
    <3> QED BY <1>0, <1>1, <2>4, <3>1
            DEF StartDNS, Proceed, HeldIsDeferred, Running, Deferred, OnStack
  <2>5. CASE GetConfig \/ Dial \/ SkipDNS
    <3>1. UNCHANGED defers
      BY <1>2, <2>5, PushFacts DEF GetConfig, Dial, SkipDNS, Proceed
    <3> QED BY <1>0, <1>1, <2>5, <3>1
            DEF GetConfig, Dial, SkipDNS, Proceed, HeldIsDeferred, Running, Deferred
  <2> QED BY <2>1, <2>2, <2>3, <2>4, <2>5 DEF Setup
<1>7. dns' = "off" \/ main' = "loop"
  BY <1>0, <1>1 DEF CancellationHasCause, Setup, Login, GetConfig, NewTun, Dial,
                    StartTunnel, StartDNS, SkipDNS, Proceed
<1>8. (~sessDone /\ err # "canceled") \/ ctxDone
  BY <1>0, <1>1 DEF CancellationHasCause, CanceledHasCause
<1>9. CancellationHasCause' /\ CanceledHasCause' /\ UnwindHasError'
  BY <1>0, <1>1, <1>7, <1>8 DEF CancellationHasCause, CanceledHasCause, UnwindHasError
<1> QED BY <1>3, <1>5, <1>6, <1>9 DEF IInv

\* A phase that fails leaves nothing behind that is not on the stack.
LEMMA FailureStep ==
  ASSUME IInv, Failures
  PROVE  IInv'
<1>0. TypeOK /\ DefersByPhase /\ HeldIsDeferred /\ CancellationHasCause
      /\ CanceledHasCause /\ UnwindHasError
  BY DEF IInv
<1>1. /\ UNCHANGED <<serveDNS, defers, sigVars, sessDone, tun, dns>>
      /\ gateway' \in {gateway, "abandoned"}
      /\ main' = "unwind" /\ main \notin {"unwind", "returned", "exited"}
      /\ conn' \in {conn, "closed"}
      /\ main = "awaitstart" => conn' = "closed"
      /\ err' \in {"error", "canceled"}
      /\ err' = "canceled" => main = "loop" /\ SessCtxDone
  BY DEF Failures, LoginFails, GetConfigFails, NewTunFails, DialFails,
         StartTunnelFails, TunnelDies, LoopCanceled, Fail, LoopEnds
<1>2. TypeOK'
  BY <1>0, <1>1 DEF TypeOK, Phases
<1>3. DefersByPhase'
  BY <1>0, <1>1 DEF DefersByPhase
<1>4. HeldIsDeferred'
  BY <1>0, <1>1 DEF HeldIsDeferred, Running, Deferred
<1>5. CancellationHasCause' /\ CanceledHasCause' /\ UnwindHasError'
  BY <1>0, <1>1 DEF CancellationHasCause, CanceledHasCause, UnwindHasError, SessCtxDone
<1> QED BY <1>2, <1>3, <1>4, <1>5 DEF IInv

\* A cleanup takes off the stack what it releases.
LEMMA UnwindStep ==
  ASSUME IInv, Unwind
  PROVE  IInv'
<1>0. TypeOK /\ DefersByPhase /\ HeldIsDeferred /\ CancellationHasCause
      /\ CanceledHasCause /\ UnwindHasError
  BY DEF IInv
<1>1. PICK name \in Cleanups : Cleanup(name)
  BY DEF Unwind, ShutdownDNS, CloseTunnel, CloseTun, Logout, CancelSession, Cleanups
<1>2. /\ main = "unwind" /\ UNCHANGED <<serveDNS, main, err, sigVars>>
      /\ defers \in Stacks /\ defers # <<>>
      /\ Head(defers) = name /\ defers' = Tail(defers)
  BY <1>0, <1>1 DEF Cleanup, DefersByPhase
<1>3. /\ defers' \in Stacks
      /\ \A n : OnStack(defers, n) /\ n # name => OnStack(defers', n)
  BY ONLY <1>2, PopFacts
<1>4. /\ dns' \in {dns, "stopped"}
      /\ dns = "failed" => dns' = "failed"
  <2>1. CASE ShutdownDNS
    <3>1. CASE dns = "serving" BY <2>1, <3>1 DEF ShutdownDNS
    <3>2. CASE dns = "set" BY <2>1, <3>2 DEF ShutdownDNS
    <3>3. CASE dns \notin {"serving", "set"}
      <4>1. dns' = dns BY <2>1, <3>3 DEF ShutdownDNS
      <4> QED BY <4>1
    <3> QED BY <3>1, <3>2, <3>3
  <2>2. CASE ~ShutdownDNS
    BY <2>2 DEF Unwind, CloseTunnel, CloseTun, Logout, CancelSession
  <2> QED BY <2>1, <2>2
<1>5. /\ IF name = "logout" THEN gateway' \in {"ended", "abandoned"}
                            ELSE gateway' = gateway
      /\ tun' = IF name = "tun" THEN "closed" ELSE tun
      /\ conn' = IF name = "tunnel" THEN "closed" ELSE conn
      /\ sessDone' = IF name = "cancel" THEN TRUE ELSE sessDone
  BY <1>2 DEF Unwind, ShutdownDNS, CloseTunnel, CloseTun, Logout, CancelSession, Cleanup
<1>6. TypeOK'
  <2>1. defers' \in Seq(Cleanups) BY <1>3, StackFacts
  <2> QED BY <1>0, <1>2, <1>4, <1>5, <2>1 DEF TypeOK
<1>7. DefersByPhase'
  BY <1>2, <1>3 DEF DefersByPhase
<1>8. HeldIsDeferred'
  <2>1. /\ gateway = "open" => OnStack(defers, "logout")
        /\ tun = "up" => OnStack(defers, "tun")
        /\ conn = "open" => OnStack(defers, "tunnel")
        /\ conn # "dialled"
        /\ ~sessDone => OnStack(defers, "cancel")
    BY <1>0, <1>2 DEF HeldIsDeferred, Running, Deferred, OnStack
  <2>2. /\ gateway' = "open" => OnStack(defers', "logout")
        /\ tun' = "up" => OnStack(defers', "tun")
        /\ conn' = "open" => OnStack(defers', "tunnel")
        /\ conn' # "dialled"
        /\ ~sessDone' => OnStack(defers', "cancel")
    BY <1>3, <1>5, <2>1
  <2> QED BY <2>2 DEF HeldIsDeferred, Deferred, OnStack
<1>9. CancellationHasCause' /\ CanceledHasCause' /\ UnwindHasError'
  BY <1>0, <1>2, <1>4, <1>5 DEF CancellationHasCause, CanceledHasCause, UnwindHasError
<1> QED BY <1>6, <1>7, <1>8, <1>9 DEF IInv

\* The end of runSession, the signals and the DNS server hold nothing new.
LEMMA OtherStep ==
  ASSUME IInv, Return \/ Exit \/ Signal \/ Signals \/ Dns \/ UNCHANGED vars
  PROVE  IInv'
<1>0. TypeOK /\ DefersByPhase /\ HeldIsDeferred /\ CancellationHasCause
      /\ CanceledHasCause /\ UnwindHasError
  BY DEF IInv
<1> USE DEF IInv, TypeOK, DefersByPhase, HeldIsDeferred, CancellationHasCause,
            CanceledHasCause, UnwindHasError, Running, Deferred, Phases, SigChCap
<1>1. CASE Return BY <1>0, <1>1 DEF Return
<1>2. CASE Exit BY <1>0, <1>2 DEF Exit
<1>3. CASE Signal BY <1>0, <1>3 DEF Signal
<1>4. CASE FirstSignal BY <1>0, <1>4 DEF FirstSignal
<1>5. CASE SecondSignal BY <1>0, <1>5 DEF SecondSignal
<1>6. CASE SignalCtxDone BY <1>0, <1>6 DEF SignalCtxDone
<1>7. CASE DnsAssign BY <1>0, <1>7 DEF DnsAssign, DnsMoves
<1>8. CASE DnsListen BY <1>0, <1>8 DEF DnsListen, DnsMoves
<1>9. ASSUME NEW from \in {"set", "serving"}, DnsFails(from) PROVE IInv'
  BY <1>0, <1>9 DEF DnsFails, DnsMoves
<1>10. CASE UNCHANGED vars BY <1>0, <1>10 DEF vars
<1> QED BY <1>1, <1>2, <1>3, <1>4, <1>5, <1>6, <1>7, <1>8, <1>9, <1>10 DEF Signals, Dns

\* The invariant holds in every reachable state.
LEMMA Invariant == Spec => []IInv
<1>1. IInv /\ [Next]_vars => IInv'
  BY SetupStep, FailureStep, UnwindStep, OtherStep DEF Next, Exited
<1> QED BY InvInit, <1>1, PTL DEF Spec

-----------------------------------------------------------------------------
(* Theorems.                                                               *)

\* The types hold; the signal channel never exceeds its capacity.
THEOREM TypeCorrect == Spec => []TypeOK
<1>1. IInv => TypeOK BY DEF IInv
<1> QED BY Invariant, <1>1, PTL

\* On every path through runSession, what it holds has its cleanup deferred.
THEOREM HeldAreDeferred == Spec => []HeldIsDeferred
<1>1. IInv => HeldIsDeferred BY DEF IInv
<1> QED BY Invariant, <1>1, PTL

\* When runSession returns, the device, the connection and its context are gone
\* and the gateway was sent a logout (the defers of runSession).
THEOREM AllTornDown == Spec => []TornDown
<1>1. IInv => TornDown
  <2> SUFFICES ASSUME IInv, main = "returned" PROVE TornDown
    BY DEF TornDown
  <2>1. defers = <<>> BY DEF IInv, DefersByPhase
  <2>2. \A name : ~Deferred(name) BY <2>1 DEF Deferred
  <2> QED BY <2>2 DEF IInv, TypeOK, HeldIsDeferred, Running, TornDown
<1> QED BY Invariant, <1>1, PTL

\* runSession never returns nil, so that the outer loop never sees a session that
\* ended well (connect.go:446), and says "canceled" only after a signal or a failed
\* DNS server.
THEOREM ResultsHaveCause == Spec => []ResultHasCause
<1>1. IInv => ResultHasCause
  BY DEF IInv, UnwindHasError, NeverReturnsNil, ResultHasCause
<1> QED BY Invariant, <1>1, PTL

\* The gateway holds no session that the client knows of before the login.
ClosedBeforeLogin == main = "login" => gateway # "open"

\* What is not deferred yet is not held.
LEMMA NothingBeforeLogin == IInv => ClosedBeforeLogin
<1> SUFFICES ASSUME IInv, main = "login" PROVE gateway # "open"
  BY DEF ClosedBeforeLogin
<1>1. defers = <<"cancel">> BY DEF IInv, DefersByPhase
<1>2. ~Deferred("logout") BY <1>1 DEF Deferred
<1> QED BY <1>2 DEF IInv, HeldIsDeferred, Running

\* The logout is sent only when the device and the connection are gone.
THEOREM LogoutAfterTunnel == Spec => LogoutOutsideTunnel
<1>1. ASSUME IInv, Next, gateway' # gateway, gateway = "open"
      PROVE  tun # "up" /\ conn \notin {"dialled", "open"}
  <2>1. Logout
    BY <1>1, NothingBeforeLogin
            DEF ClosedBeforeLogin, Next, Setup, Login, GetConfig, NewTun, Dial,
                StartTunnel, StartDNS, SkipDNS, Proceed, Failures, Fail, LoginFails, GetConfigFails, NewTunFails, DialFails,
                StartTunnelFails, TunnelDies, LoopCanceled, LoopEnds, Unwind,
                ShutdownDNS, CloseTunnel, CloseTun, CancelSession, Return, Exit,
                Signal, Signals, FirstSignal, SecondSignal, SignalCtxDone, Dns,
                DnsAssign, DnsListen, DnsFails, DnsMoves, Exited, vars
  <2>2. defers \in Stacks /\ defers # <<>> /\ Head(defers) = "logout"
    BY <1>1, <2>1 DEF IInv, DefersByPhase, Logout, Cleanup
  <2>3. ~OnStack(defers, "tun") /\ ~OnStack(defers, "tunnel")
    BY ONLY <2>2, PopFacts
  <2>4. main = "unwind" BY <2>1 DEF Logout, Cleanup
  <2> QED BY <1>1, <2>3, <2>4 DEF IInv, HeldIsDeferred, Running, Deferred, OnStack
<1> QED BY Invariant, <1>1, PTL DEF Spec, LogoutOutsideTunnel

\* What a step does to the phase and to the gateway's session.
LEMMA LifeStep ==
  ASSUME IInv, IInv', [Next]_vars
  PROVE  Life' = Life \/ Abstract!Next
<1>0. ClosedBeforeLogin
  BY NothingBeforeLogin
<1>1. main \in Phases /\ gateway \in {"none", "open", "ended", "abandoned"}
  BY DEF IInv, TypeOK
<1>2. CASE Login
  <2>1. Life = "login" /\ Life' = "held" BY <1>0, <1>2 DEF Login, Proceed, Life, ClosedBeforeLogin
  <2> QED BY <2>1 DEF Abstract!Next, Abstract!Steps
<1>3. CASE Setup /\ ~Login
  <2>1. /\ gateway' = gateway
        /\ main \in {"getconfig", "tunnew", "dial", "awaitstart", "startdns"}
        /\ main' \in {"tunnew", "dial", "awaitstart", "startdns", "loop"}
    BY <1>3 DEF Setup, GetConfig, NewTun, Dial, StartTunnel, StartDNS, SkipDNS,
                Proceed, resVars
  <2>2. Life' = Life \/ (Life = "held" /\ Life' = "configured") BY <2>1 DEF Life
  <2> QED BY <2>2 DEF Abstract!Next, Abstract!Steps
<1>4. CASE Failures
  <2>1. /\ \/ gateway' = gateway
           \/ main = "login" /\ gateway' = "abandoned"
        /\ main' = "unwind" /\ main \notin {"unwind", "returned", "exited"}
    BY <1>4 DEF Failures, LoginFails, GetConfigFails, NewTunFails, DialFails,
                StartTunnelFails, TunnelDies, LoopCanceled, Fail, LoopEnds, resVars
  <2>2. \/ Life' = Life
        \/ Life = "login" /\ Life' = "over"
        \/ Life \in {"held", "configured"} /\ Life' = "closing"
    BY <1>0, <2>1 DEF Life, ClosedBeforeLogin
  <2> QED BY <2>2 DEF Abstract!Next, Abstract!Steps
<1>5. CASE Logout
  <2>1. main = "unwind" /\ main' = main /\ gateway' \in {"ended", "abandoned"}
    BY <1>5 DEF Logout, Cleanup
  <2>2. Life' = "over" /\ Life \in {"over", "closing"} BY <2>1 DEF Life
  <2> QED BY <2>2 DEF Abstract!Next, Abstract!Steps
<1>6. CASE Return
  <2>1. main = "unwind" /\ main' = "returned" /\ gateway' = gateway /\ defers' = <<>>
    BY <1>6 DEF Return, resVars
  <2>2. gateway' # "open" BY <2>1 DEF IInv, HeldIsDeferred, Running, Deferred
  <2>3. Life' = "over" /\ Life = "over" BY <2>1, <2>2 DEF Life
  <2> QED BY <2>3
<1>7. CASE Exit
  <2>1. main = "returned" /\ main' = "exited" /\ gateway' = gateway
    BY <1>7 DEF Exit, resVars
  <2>2. gateway # "open" BY <2>1 DEF IInv, DefersByPhase, HeldIsDeferred, Running, Deferred
  <2>3. Life' = "over" /\ Life = "over" BY <2>1, <2>2 DEF Life
  <2> QED BY <2>3
<1>8. CASE SecondSignal
  <2>1. main # "exited" /\ main' = "exited" /\ gateway' = gateway
    BY <1>8 DEF SecondSignal, Running, resVars
  <2>2. main = "returned" => gateway # "open"
    BY DEF IInv, DefersByPhase, HeldIsDeferred, Running, Deferred
  <2>3. \/ Life' = Life
        \/ Life = "login" /\ Life' = "over"
        \/ Life \in {"held", "configured", "closing"} /\ Life' = "cut"
    BY <1>0, <2>1, <2>2 DEF Life, ClosedBeforeLogin
  <2> QED BY <2>3 DEF Abstract!Next, Abstract!Steps
<1>9. CASE \/ ShutdownDNS \/ CloseTunnel \/ CloseTun \/ CancelSession
           \/ Signal \/ FirstSignal \/ SignalCtxDone \/ Dns \/ UNCHANGED vars
  <2>1. main' = main /\ gateway' = gateway
    BY <1>9 DEF ShutdownDNS, CloseTunnel, CloseTun, CancelSession, Cleanup, Signal,
                FirstSignal, SignalCtxDone, Dns, DnsAssign, DnsListen, DnsFails,
                DnsMoves, vars, resVars
  <2> QED BY <2>1 DEF Life
<1> QED BY <1>2, <1>3, <1>4, <1>5, <1>6, <1>7, <1>8, <1>9
        DEF Next, Unwind, Signals, Exited

\* A session implements what it is to the gateway: whoever was logged in is
\* logged out, once, before runSession returns (connect.go:496).
THEOREM ImplementsSessionLife == Spec => SessionLifeSpec
<1>1. Init => Abstract!Init
  BY DEF Init, Abstract!Init, Life
<1>2. IInv /\ IInv' /\ [Next]_vars => [Abstract!Next]_Life
  BY LifeStep
<1> QED BY <1>1, <1>2, Invariant, PTL DEF Spec, SessionLifeSpec, Abstract!Spec
=============================================================================
