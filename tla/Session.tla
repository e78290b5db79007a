------------------------------ MODULE Session ------------------------------
(***************************************************************************)
(* One VPN session from login to logout: runSession of connect.go with its *)
(* stack of deferred cleanups, the signal goroutine of the connect command *)
(* and the goroutine of the local DNS server.                              *)
(*                                                                         *)
(*   main     runSession, a phase per blocking call, then the defers       *)
(*   sigG     the goroutine that waits for a first and a second signal     *)
(*   dns      the goroutine in dnsServer.ListenAndServe                    *)
(*                                                                         *)
(* The data plane is module DataLoop: here RunDataLoop is one phase that   *)
(* ends with an error when the tunnel dies and with "canceled" when the    *)
(* session's context is cancelled.  HTTP requests (login, getconfig,       *)
(* logout) and the read of START_TUNNEL know neither a context nor a       *)
(* timeout: they end when the gateway or the network makes them end.       *)
(***************************************************************************)
EXTENDS Naturals, Sequences

CONSTANT MaxSignals   \* bound: signals the user sends

ASSUME SignalsAssumption == MaxSignals \in Nat

VARIABLES
  serveDNS,   \* configuration: ~noServeDNS
  main,       \* phase of runSession
  err,        \* what runSession returns: "none", "canceled", "error"
  defers,     \* deferred cleanups, the next one to run first
  signals,    \* signals sent so far
  sigCh,      \* signals in the channel
  sigG,       \* "first", "second", "done"
  ctxDone,    \* the command's context is cancelled
  sessDone,   \* runSession's own cancel() has been called
  gateway,    \* the gateway's session: "none", "open", "ended", or "abandoned":
              \* the gateway may keep it, the client has done with it
  tun,        \* TUN device: "none", "up", "closed"
  conn,       \* tunnel connection: "none", "dialled", "open", "closed"
  dns         \* "off", "spawned", "set", "serving", "stopped", "failed"

sigVars == <<signals, sigCh, sigG, ctxDone>>
resVars == <<gateway, tun, conn>>
vars    == <<serveDNS, main, err, defers, sigVars, sessDone, resVars, dns>>

SigChCap == 2

\* The context of runSession and of everything it starts.
SessCtxDone == ctxDone \/ sessDone

Phases == {"login", "getconfig", "tunnew", "dial", "awaitstart", "startdns",
           "loop", "unwind", "returned", "exited"}

Running == main # "exited"

-----------------------------------------------------------------------------
Init ==
  /\ serveDNS \in BOOLEAN
  /\ main = "login" /\ err = "none" /\ defers = <<"cancel">>
  /\ signals = 0 /\ sigCh = 0 /\ sigG = "first" /\ ctxDone = FALSE
  /\ sessDone = FALSE
  /\ gateway = "none" /\ tun = "none" /\ conn = "none" /\ dns = "off"

-----------------------------------------------------------------------------
(* main: the phases of runSession.                                         *)

\* The phase ends well; its cleanup, if any, is deferred.
Proceed(from, to, cleanup) ==
  /\ main = from
  /\ main' = to
  /\ defers' = cleanup \o defers
  /\ UNCHANGED <<serveDNS, err, sigVars, sessDone>>

\* The phase fails: runSession returns an error through its defers.
Fail(from) ==
  /\ main = from
  /\ main' = "unwind"
  /\ err' = "error"
  /\ UNCHANGED <<serveDNS, defers, sigVars, sessDone>>

Login ==
  /\ Proceed("login", "getconfig", <<"logout">>)
  /\ gateway' = "open"
  /\ UNCHANGED <<tun, conn, dns>>

\* The reply may be lost after the gateway has opened a session: nobody logs out
\* of a session that runSession was never told of.
LoginFails ==
  /\ Fail("login")
  /\ gateway' \in {gateway, "abandoned"}
  /\ UNCHANGED <<tun, conn, dns>>

\* Mutant of GetConfigFails: the error path returns past the defers.
GetConfigFailsHard ==
  /\ main = "getconfig"
  /\ main' = "returned"
  /\ err' = "error"
  /\ UNCHANGED <<serveDNS, defers, sigVars, sessDone, resVars, dns>>

GetConfig      == Proceed("getconfig", "tunnew", <<>>) /\ UNCHANGED <<resVars, dns>>
GetConfigFails == Fail("getconfig") /\ UNCHANGED <<resVars, dns>>

\* Mutant of NewTun: the cleanup of the device is not deferred.
NewTunNotDeferred ==
  /\ Proceed("tunnew", "dial", <<>>)
  /\ tun' = "up"
  /\ UNCHANGED <<gateway, conn, dns>>

\* tun.New, then AddDefaultRoute, whose failure is only logged.
NewTun ==
  /\ Proceed("tunnew", "dial", <<"tun">>)
  /\ tun' = "up"
  /\ UNCHANGED <<gateway, conn, dns>>

\* tun.New closes the interface itself when it cannot configure it.
NewTunFails == Fail("tunnew") /\ UNCHANGED <<resVars, dns>>

\* TCP and TLS, both under the context.
Dial ==
  /\ ~SessCtxDone
  /\ Proceed("dial", "awaitstart", <<>>)
  /\ conn' = "dialled"
  /\ UNCHANGED <<gateway, tun, dns>>

DialFails == Fail("dial") /\ UNCHANGED <<resVars, dns>>

\* The gateway answers START_TUNNEL; setConn installs the connection.
StartTunnel ==
  /\ Proceed("awaitstart", "startdns", <<"tunnel">>)
  /\ conn' = "open"
  /\ UNCHANGED <<gateway, tun, dns>>

\* The gateway answers something else, or the read fails.
StartTunnelFails ==
  /\ Fail("awaitstart")
  /\ conn' = "closed"
  /\ UNCHANGED <<gateway, tun, dns>>

\* NewServer never returns an error.
StartDNS ==
  /\ serveDNS
  /\ Proceed("startdns", "loop", <<"dns">>)
  /\ dns' = "spawned"
  /\ UNCHANGED resVars

SkipDNS ==
  /\ ~serveDNS
  /\ Proceed("startdns", "loop", <<>>)
  /\ UNCHANGED <<resVars, dns>>

\* RunDataLoop returns; it has closed the connection.
LoopEnds(e) ==
  /\ main = "loop"
  /\ main' = "unwind"
  /\ err' = e
  /\ conn' = "closed"
  /\ UNCHANGED <<serveDNS, defers, sigVars, sessDone, gateway, tun, dns>>

TunnelDies == LoopEnds("error")

\* Mutant of LoopCanceled: the result of the race is reported as it comes.
LoopCanceledAnyTime == LoopEnds("canceled")

LoopCanceled == SessCtxDone /\ LoopEnds("canceled")

-----------------------------------------------------------------------------
(* main: the defers, last deferred first.                                  *)

\* Mutant of Cleanup: the cleanups run in the order in which they were deferred.
CleanupInOrder(name) ==
  /\ main = "unwind"
  /\ defers # <<>>
  /\ defers[Len(defers)] = name
  /\ defers' = SubSeq(defers, 1, Len(defers) - 1)
  /\ UNCHANGED <<serveDNS, main, err, sigVars>>

Cleanup(name) ==
  /\ main = "unwind"
  /\ defers # <<>>
  /\ Head(defers) = name
  /\ defers' = Tail(defers)
  /\ UNCHANGED <<serveDNS, main, err, sigVars>>

\* Server.Shutdown does nothing while s.server is nil.  Before the server
\* listens, it may come too early to stop anything.
ShutdownDNS ==
  /\ Cleanup("dns")
  /\ dns' \in CASE dns = "serving" -> {"stopped"}
                [] dns = "set"     -> {"set", "stopped"}
                [] OTHER           -> {dns}
  /\ UNCHANGED <<sessDone, resVars>>

CloseTunnel ==
  /\ Cleanup("tunnel")
  /\ conn' = "closed"
  /\ UNCHANGED <<sessDone, gateway, tun, dns>>

\* RemoveRoutes, RemoveDNS, Close.
CloseTun ==
  /\ Cleanup("tun")
  /\ tun' = "closed"
  /\ UNCHANGED <<sessDone, gateway, conn, dns>>

\* The logout request is sent; a failure is only logged.
Logout ==
  /\ Cleanup("logout")
  /\ gateway' \in {"ended", "abandoned"}
  /\ UNCHANGED <<sessDone, tun, conn, dns>>

CancelSession ==
  /\ Cleanup("cancel")
  /\ sessDone' = TRUE
  /\ UNCHANGED <<resVars, dns>>

Return ==
  /\ main = "unwind"
  /\ defers = <<>>
  /\ main' = "returned"
  /\ UNCHANGED <<serveDNS, err, defers, sigVars, sessDone, resVars, dns>>

\* run and the command return, the process ends.
Exit ==
  /\ main = "returned"
  /\ main' = "exited"
  /\ UNCHANGED <<serveDNS, err, defers, sigVars, sessDone, resVars, dns>>

-----------------------------------------------------------------------------
(* The signal goroutine.                                                   *)

\* Mutant of Signal: the channel takes every signal.
SignalUncapped ==
  /\ Running
  /\ signals < MaxSignals
  /\ signals' = signals + 1
  /\ sigCh' = sigCh + 1
  /\ UNCHANGED <<serveDNS, main, err, defers, sigG, ctxDone, sessDone, resVars,
                 dns>>

\* signal.Notify never blocks: a signal that finds the channel full is lost.
Signal ==
  /\ Running
  /\ signals < MaxSignals
  /\ signals' = signals + 1
  /\ sigCh' = IF sigCh < SigChCap THEN sigCh + 1 ELSE sigCh
  /\ UNCHANGED <<serveDNS, main, err, defers, sigG, ctxDone, sessDone, resVars,
                 dns>>

\* Mutant of FirstSignal: the signal is logged, the context left alone.
FirstSignalLogged ==
  /\ Running
  /\ sigG = "first"
  /\ sigCh > 0
  /\ sigCh' = sigCh - 1
  /\ sigG' = "second"
  /\ UNCHANGED <<serveDNS, main, err, defers, signals, ctxDone, sessDone, resVars,
                 dns>>

FirstSignal ==
  /\ Running
  /\ sigG = "first"
  /\ sigCh > 0
  /\ sigCh' = sigCh - 1
  /\ ctxDone' = TRUE
  /\ sigG' = "second"
  /\ UNCHANGED <<serveDNS, main, err, defers, signals, sessDone, resVars, dns>>

\* os.Exit(130).
SecondSignal ==
  /\ Running
  /\ sigG = "second"
  /\ sigCh > 0
  /\ sigCh' = sigCh - 1
  /\ main' = "exited"
  /\ sigG' = "done"
  /\ UNCHANGED <<serveDNS, err, defers, signals, ctxDone, sessDone, resVars, dns>>

\* The context is done, and a select takes any case that is ready.
SignalCtxDone ==
  /\ Running
  /\ sigG # "done"
  /\ ctxDone
  /\ sigG' = "done"
  /\ UNCHANGED <<serveDNS, main, err, defers, signals, sigCh, ctxDone, sessDone,
                 resVars, dns>>

-----------------------------------------------------------------------------
(* The goroutine of the DNS server.                                        *)

DnsMoves(from, to) ==
  /\ Running
  /\ dns = from
  /\ dns' = to
  /\ UNCHANGED <<serveDNS, main, err, defers, sigVars, resVars>>

\* s.server is assigned.
DnsAssign == DnsMoves("spawned", "set") /\ UNCHANGED sessDone
DnsListen == DnsMoves("set", "serving") /\ UNCHANGED sessDone

\* Mutant of DnsFails: the failure is only logged.
DnsFailsSilently(from) == DnsMoves(from, "failed") /\ UNCHANGED sessDone

\* The port is taken, or the socket fails: the session is cancelled.
DnsFails(from) == DnsMoves(from, "failed") /\ sessDone' = TRUE

-----------------------------------------------------------------------------
Setup    == \/ Login \/ GetConfig \/ NewTun \/ Dial \/ StartTunnel
            \/ StartDNS \/ SkipDNS
Failures == \/ LoginFails \/ GetConfigFails \/ NewTunFails \/ DialFails
            \/ StartTunnelFails \/ TunnelDies \/ LoopCanceled
Unwind   == ShutdownDNS \/ CloseTunnel \/ CloseTun \/ Logout \/ CancelSession
Signals  == FirstSignal \/ SecondSignal \/ SignalCtxDone
Dns      == \/ DnsAssign \/ DnsListen
            \/ \E from \in {"set", "serving"} : DnsFails(from)

Exited == main = "exited" /\ UNCHANGED vars

Next == \/ Setup \/ Failures \/ Unwind \/ Return \/ Exit \/ Signal \/ Signals
        \/ Dns \/ Exited

Spec == Init /\ [][Next]_vars

(***************************************************************************)
(* What the Go runtime and the kernel do by themselves: local calls end, a *)
(* dial ends once the context is done, RunDataLoop ends once the context   *)
(* is done (DataLoop!LoopEnds), runnable goroutines run.                   *)
(***************************************************************************)
ClientFairness ==
  /\ WF_vars(NewTun \/ NewTunFails)
  /\ WF_vars(SessCtxDone /\ DialFails)
  /\ WF_vars(StartDNS \/ SkipDNS)
  /\ WF_vars(LoopCanceled)
  /\ WF_vars(ShutdownDNS \/ CloseTunnel \/ CloseTun \/ CancelSession)
  /\ WF_vars(Return \/ Exit)
  /\ WF_vars(Signals)

\* The gateway, or the network in its place, ends every request.
GatewayFairness ==
  /\ WF_vars(Login \/ LoginFails)
  /\ WF_vars(GetConfig \/ GetConfigFails)
  /\ WF_vars(StartTunnel \/ StartTunnelFails)
  /\ WF_vars(Logout)

ClientSpec == Spec /\ ClientFairness
FairSpec   == ClientSpec /\ GatewayFairness

-----------------------------------------------------------------------------
(* Properties.                                                             *)

Cleanups == {"cancel", "logout", "tun", "tunnel", "dns"}

\* Every variable keeps its type; the signal channel keeps its capacity.
TypeOK ==
  /\ serveDNS \in BOOLEAN
  /\ main \in Phases
  /\ err \in {"none", "canceled", "error"}
  /\ defers \in Seq(Cleanups)
  /\ signals \in Nat /\ sigCh \in 0 .. SigChCap
  /\ sigG \in {"first", "second", "done"}
  /\ ctxDone \in BOOLEAN /\ sessDone \in BOOLEAN
  /\ gateway \in {"none", "open", "ended", "abandoned"}
  /\ tun \in {"none", "up", "closed"}
  /\ conn \in {"none", "dialled", "open", "closed"}
  /\ dns \in {"off", "spawned", "set", "serving", "stopped", "failed"}

Deferred(name) == \E i \in 1 .. Len(defers) : defers[i] = name

\* Whatever runSession holds has its cleanup on the stack of defers, in every
\* phase and on every error path, so that returning releases it: the gateway's
\* session, the TUN device, the connection, its context.
HeldIsDeferred ==
  Running =>
    /\ gateway = "open" => Deferred("logout")
    /\ tun = "up" => Deferred("tun")
    /\ conn = "open" => Deferred("tunnel")
    /\ conn = "dialled" => main = "awaitstart"
    /\ ~sessDone => Deferred("cancel")

\* "All resources are torn down before it returns" (connect.go:478), the DNS
\* server left aside: no device, no connection, no session that runSession was
\* told of and sent no logout for, no live context.
TornDown ==
  main = "returned" =>
    /\ tun # "up"
    /\ conn \notin {"dialled", "open"}
    /\ gateway # "open"
    /\ sessDone

\* The same with the local DNS server: it does not serve once runSession has
\* returned.
DnsTornDown == main = "returned" => dns # "serving"

\* The logout request is sent after the tunnel connection and the TUN device
\* are gone: it cannot be routed into a tunnel that nobody reads any more.
LogoutOutsideTunnel ==
  [][gateway' # gateway /\ gateway = "open" =>
       tun # "up" /\ conn \notin {"dialled", "open"}]_vars

\* runSession reports a cancellation only after a signal or a failed DNS
\* server; run then tells the two apart by the command's context.
CanceledHasCause == err = "canceled" => ctxDone \/ dns = "failed"

\* However the session ends, runSession reports an error: the outer loop never
\* sees a session that ended well (what module RunLoop is given as AnyError or
\* RealError).
NeverReturnsNil == main = "returned" => err # "none"

\* What run is told is true: an error of every session, a cancellation only of
\* one that was cancelled.
ResultHasCause == NeverReturnsNil /\ CanceledHasCause

\* A signal ends the process, provided the gateway ends the requests that are
\* under way.
SignalEndsProcess == signals > 0 ~> main = "exited"

\* A DNS server that fails takes the session down with it (connect.go:575).
DnsFailureEndsSession == dns = "failed" ~> main \in {"returned", "exited"}

\* "Press Ctrl+C a second time (or send another SIGINT/SIGTERM) to skip
\* cleanup and exit immediately" (README.md:266): two signals end the process
\* even if the gateway never answers.
SecondSignalForcesExit == signals >= 2 ~> main = "exited"

\* What the session is to the gateway; os.Exit cuts it off.
Life ==
  IF gateway # "open" THEN IF main = "login" THEN "login" ELSE "over"
  ELSE CASE main = "getconfig" -> "held"
         [] main = "unwind"    -> "closing"
         [] main = "returned"  -> "lost"
         [] main = "exited"    -> "cut"
         [] OTHER              -> "configured"

Abstract == INSTANCE SessionLife WITH life <- Life

\* runSession implements SessionLife: on every path on which it was logged in it
\* logs out before it returns, once (connect.go:496).
SessionLifeSpec == Abstract!Spec
=============================================================================
