------------------------------ MODULE Command ------------------------------
(***************************************************************************)
(* The connect command from its command line to its exit: Startup finds the *)
(* credentials, RunLoop calls one session after the other, and every session *)
(* goes through Client.  A signal may come at any time.                     *)
(*                                                                         *)
(* What a session does between its configuration and its logout is module   *)
(* Session; here it may fail, become active and last for long.  Its result  *)
(* is one of SessionErrors, "error" if it got no configuration.             *)
(***************************************************************************)
EXTENDS RunLoop, Startup, Client

commandVars == <<vars, startVars, clientVars>>

CommandInit == Init /\ StartInit /\ ClientInit

InSession == main = "session" /\ sessions < MaxSessions

-----------------------------------------------------------------------------
(* Startup.                                                                *)

Preparing ==
  \/ LoadConfig \/ LoadConfigFails \/ Skip
  \/ CommandStarts(ctxDone) \/ CommandReturns
  \/ UsernamePrompt \/ PasswordPrompt

Shell == Forks \/ ShellEnds \/ ShellKilled(ctxDone) \/ ChildEnds

Prepare == (Preparing \/ Shell) /\ UNCHANGED <<vars, clientVars>>

\* run sets InputCallback and enters its loop.
EnterRun ==
  /\ CallRun
  /\ Start(HasCookieAuth, CanReconnect)
  /\ callback' = Callback
  /\ UNCHANGED <<call, otpUsed, inputStr, token, config, prelogin, sent, posed,
                 otpAsked, live>>

ReturnEarly == stage = "failed" /\ StartFails /\ UNCHANGED <<startVars, clientVars>>

-----------------------------------------------------------------------------
(* A session.                                                              *)

Begin == IF UseCookie THEN LoginWithCookie ELSE Login

\* What the client does between idle and done.
ClientStep ==
  \/ Begin \/ Prelogin \/ LoginReply \/ Input \/ InputCanceled(ctxDone)
  \/ Configure \/ SessionEnds \/ Logout

Step ==
  /\ InSession
  /\ ClientStep
  /\ UNCHANGED <<vars, startVars>>

\* runSession returns; without a configuration it has had no tunnel.
EndSession ==
  /\ Return
  /\ \E e \in SessionErrors, up, long \in BOOLEAN :
       /\ config = NoConfig => e = "error" /\ ~up
       /\ RunSession(e, up, long)
  /\ UNCHANGED startVars

-----------------------------------------------------------------------------
Decide ==
  /\ ShutDown \/ FirstFails \/ GiveUp \/ Sleep \/ SleepCanceled \/ WakeUp
  /\ UNCHANGED <<startVars, clientVars>>

\* Before LoadConfig is over a signal just ends the process.
Interrupt ==
  /\ stage # "config"
  /\ Cancel
  /\ UNCHANGED <<startVars, clientVars>>

\* The command has returned, or the bound on sessions is reached.
CommandStopped == Stopped /\ UNCHANGED <<startVars, clientVars>>

CommandNext ==
  \/ Prepare \/ EnterRun \/ ReturnEarly
  \/ Step \/ EndSession \/ Decide
  \/ Interrupt \/ CommandStopped

CommandSpec == CommandInit /\ [][CommandNext]_commandVars

\* The command is sequential.  Its timers fire, and the gateway answers or the
\* request fails; the user may leave a prompt alone, and nobody ends what the
\* shell left behind.
CommandFairness ==
  /\ WF_commandVars(ShellKilled(ctxDone) /\ UNCHANGED <<vars, clientVars>>)
  /\ WF_commandVars((Skip \/ CommandStarts(ctxDone) \/ CommandReturns)
                      /\ UNCHANGED <<vars, clientVars>>)
  /\ WF_commandVars(Decide \/ EndSession)
  /\ WF_commandVars(/\ InSession
                    /\ \/ Begin \/ Prelogin \/ LoginReply \/ TotpInput \/ OtpInput
                       \/ InputCanceled(ctxDone) \/ Configure \/ SessionEnds \/ Logout
                    /\ UNCHANGED <<vars, startVars>>)

CommandFairSpec == CommandSpec /\ CommandFairness

-----------------------------------------------------------------------------
(* Properties.                                                             *)

\* Every variable of the command keeps its type.
CommandTypeOK == TypeOK /\ StartTypeOK /\ ClientTypeOK

\* "For automated reconnects, use --totp-secret" (README.md:278): whoever gets a
\* second session answers its challenge without a user, and without a code that
\* is spent.
ReconnectNeedsNoUser == call = "input" /\ sessions > 0 => callback = "totp"

\* What is good for one login is used for one, over all sessions: the cookie by
\* the first session, the one-time password for one challenge.
SingleUseOnce == CookieUsedOnce /\ OtpAskedOnce

\* What the sessions are to the gateway.
Life == CASE call \in {"idle", "done"} -> "over"
          [] call = "config"          -> "held"
          [] call = "active"          -> "configured"
          [] call = "logout"          -> "closing"
          [] OTHER                    -> "login"

Abstract == INSTANCE SessionLife WITH life <- Life

\* One session after the other implements SessionLife, as module Session does:
\* none begins before the last one is logged out, or was refused.
SessionLifeSpec == Abstract!Spec
=============================================================================
