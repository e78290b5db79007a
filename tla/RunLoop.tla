------------------------------ MODULE RunLoop ------------------------------
(***************************************************************************)
(* The outer loop of connect.go: run calls runSession again and again with *)
(* a backoff, until it may not or the command's context is cancelled.      *)
(* Before that, connectCommand finds out what to call run with (module      *)
(* Startup); here it does or fails.                                        *)
(*                                                                         *)
(* runSession is seen through its signature: it returns nil or an error,   *)
(* after a session that became active or not, after more or less than 30 s. *)
(* SessionErrors says which results it is taken to return.  The real one    *)
(* (module Session) never returns nil, because RunDataLoop never does; with *)
(* {"error"} the loop is the one users get, with {"nil", "error"} it is the *)
(* one the code of run is written for.                                     *)
(***************************************************************************)
EXTENDS Naturals, Sequences

CONSTANTS
  SessionErrors,  \* results of runSession
  MaxSessions     \* bound: calls of runSession

ASSUME RunAssumption ==
  /\ SessionErrors \subseteq {"nil", "error"}
  /\ "error" \in SessionErrors
  /\ MaxSessions \in Nat

VARIABLES
  hasCookieAuth, canReconnect,  \* configuration
  main,         \* "startup", "session", "decide", "sleep", "exited"
  ctxDone,      \* the command's context is cancelled
  first,        \* no session has ended well yet
  backoff,      \* seconds
  result,       \* what the last runSession returned
  lasted,       \* the last session took more than 30 s
  exit,         \* what run returns: "none" before it does
  sessions,     \* history: calls of runSession so far
  established,  \* history: some session became active
  cookieLogins, \* history: logins with the cookie
  waits         \* history: what was slept, each with what preceded it

vars == <<hasCookieAuth, canReconnect, main, ctxDone, first, backoff, result,
          lasted, exit, sessions, established, cookieLogins, waits>>

MaxBackoff == 30

Init ==
  /\ hasCookieAuth = FALSE /\ canReconnect = FALSE
  /\ main = "startup" /\ ctxDone = FALSE
  /\ first = TRUE /\ backoff = 1
  /\ result = "none" /\ lasted = FALSE /\ exit = "none"
  /\ sessions = 0 /\ established = FALSE /\ cookieLogins = 0 /\ waits = <<>>

-----------------------------------------------------------------------------
\* run is called with a cookie or not, with what a reconnect needs or not.
Start(cookie, reconnect) ==
  /\ main = "startup"
  /\ hasCookieAuth' = cookie /\ canReconnect' = reconnect
  /\ main' = "session"
  /\ UNCHANGED <<ctxDone, first, backoff, result, lasted, exit, sessions,
                 established, cookieLogins, waits>>

UseCookie == first /\ hasCookieAuth

\* runSession returns e; up: the session became active; long: it took > 30 s.
RunSession(e, up, long) ==
  /\ main = "session"
  /\ sessions < MaxSessions
  /\ e = "nil" => up
  /\ sessions' = sessions + 1
  /\ cookieLogins' = IF UseCookie THEN cookieLogins + 1 ELSE cookieLogins
  /\ established' = (established \/ up)
  /\ result' = e
  /\ lasted' = long
  /\ main' = "decide"
  /\ UNCHANGED <<hasCookieAuth, canReconnect, ctxDone, first, backoff, exit, waits>>

ExitWith(e) ==
  /\ main' = "exited"
  /\ exit' = e
  /\ UNCHANGED <<hasCookieAuth, canReconnect, ctxDone, backoff, result, lasted,
                 sessions, established, cookieLogins, waits>>

\* Startup fails: connectCommand returns without calling run.
StartFails ==
  /\ main = "startup"
  /\ ExitWith("error")
  /\ UNCHANGED first

ShutDown ==
  /\ main = "decide"
  /\ ctxDone
  /\ ExitWith("nil")
  /\ UNCHANGED first

FirstFails ==
  /\ main = "decide"
  /\ ~ctxDone
  /\ first /\ result # "nil"
  /\ ExitWith(result)
  /\ UNCHANGED first

GiveUp ==
  /\ main = "decide"
  /\ ~ctxDone
  /\ ~(first /\ result # "nil")
  /\ ~canReconnect
  /\ first' = FALSE
  /\ ExitWith(result)

\* Mutant of Sleep: a long session does not reset the backoff.
SleepNoReset ==
  /\ main = "decide"
  /\ ~ctxDone
  /\ ~(first /\ result # "nil")
  /\ canReconnect
  /\ first' = FALSE
  /\ main' = "sleep"
  /\ UNCHANGED <<hasCookieAuth, canReconnect, ctxDone, backoff, result, lasted,
                 exit, sessions, established, cookieLogins, waits>>

Sleep ==
  /\ main = "decide"
  /\ ~ctxDone
  /\ ~(first /\ result # "nil")
  /\ canReconnect
  /\ first' = FALSE
  /\ backoff' = IF lasted THEN 1 ELSE backoff
  /\ main' = "sleep"
  /\ UNCHANGED <<hasCookieAuth, canReconnect, ctxDone, result, lasted, exit,
                 sessions, established, cookieLogins, waits>>

SleepCanceled ==
  /\ main = "sleep"
  /\ ctxDone
  /\ ExitWith("nil")
  /\ UNCHANGED first

WakeUp ==
  /\ main = "sleep"
  /\ waits' = Append(waits, [wait |-> backoff, afterLong |-> lasted])
  /\ backoff' = IF 2 * backoff > MaxBackoff THEN MaxBackoff ELSE 2 * backoff
  /\ main' = "session"
  /\ UNCHANGED <<hasCookieAuth, canReconnect, ctxDone, first, result, lasted,
                 exit, sessions, established, cookieLogins>>

\* A signal.
Cancel ==
  /\ ~ctxDone
  /\ main # "exited"
  /\ ctxDone' = TRUE
  /\ UNCHANGED <<hasCookieAuth, canReconnect, main, first, backoff, result,
                 lasted, exit, sessions, established, cookieLogins, waits>>

\* run has returned, or the bound on sessions is reached.
Stopped ==
  /\ main = "exited" \/ (main = "session" /\ sessions = MaxSessions)
  /\ UNCHANGED vars

Next ==
  \/ \E cookie, reconnect \in BOOLEAN : Start(cookie, reconnect)
  \/ StartFails
  \/ \E e \in SessionErrors, up, long \in BOOLEAN : RunSession(e, up, long)
  \/ ShutDown \/ FirstFails \/ GiveUp \/ Sleep \/ SleepCanceled \/ WakeUp
  \/ Cancel \/ Stopped

Spec == Init /\ [][Next]_vars

\* run is sequential code, and the timer of a sleep fires.
Fairness ==
  /\ WF_vars(ShutDown \/ FirstFails \/ GiveUp \/ Sleep \/ SleepCanceled \/ WakeUp)
  /\ WF_vars(\E e \in SessionErrors, up, long \in BOOLEAN : RunSession(e, up, long))

FairSpec == Spec /\ Fairness

-----------------------------------------------------------------------------
(* Properties.                                                             *)

\* Every variable keeps its type.
TypeOK ==
  /\ hasCookieAuth \in BOOLEAN /\ canReconnect \in BOOLEAN
  /\ main \in {"startup", "session", "decide", "sleep", "exited"}
  /\ ctxDone \in BOOLEAN /\ first \in BOOLEAN
  /\ backoff \in 1 .. MaxBackoff
  /\ result \in {"none", "nil", "error"} /\ lasted \in BOOLEAN
  /\ exit \in {"none", "nil", "error"}
  /\ sessions \in Nat /\ established \in BOOLEAN /\ cookieLogins \in Nat
  /\ waits \in Seq([wait : 1 .. MaxBackoff, afterLong : BOOLEAN])

\* The documented schedule "1s -> 2s -> 4s ... capped at 30s" (README.md:268):
\* the first wait and every wait after a session of more than 30 s is 1 s, any
\* other is twice the one before, at most 30 s.
BackoffSchedule ==
  \A i \in 1 .. Len(waits) :
    waits[i].wait =
      IF i = 1 \/ waits[i].afterLong
        THEN 1
        ELSE IF waits[i - 1].wait >= 16 THEN 30 ELSE 2 * waits[i - 1].wait

\* A prelogin cookie is good for one login: it is presented once at most, and
\* only by the first session.
CookieUsedOnce ==
  /\ cookieLogins <= 1
  /\ cookieLogins = 1 => hasCookieAuth

\* After a session that ended well the loop gives up only when it is cancelled
\* or when it has no credentials to log in again.
NeverGivesUpLater == main = "exited" /\ ~first => ctxDone \/ ~canReconnect

\* "When the tunnel dies mid-session, gobalprotect automatically reconnects"
\* (README.md:268): with credentials to log in again and an active session
\* behind it, run does not return an error.
ReconnectsAfterTunnelDies == established /\ canReconnect => exit # "error"

\* A signal ends the loop, also in the middle of a wait, once the session that
\* is under way has returned.
CancelEndsLoop ==
  ctxDone /\ main # "startup" /\ sessions < MaxSessions ~> main = "exited"
=============================================================================
