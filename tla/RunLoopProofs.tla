---------------------------- MODULE RunLoopProofs ----------------------------
(***************************************************************************)
(* Proofs about RunLoop, for any number of sessions and any results of     *)
(* them that RunAssumption allows.                                         *)
(*                                                                         *)
(* BackoffSchedule speaks of the waits that have happened; what carries it *)
(* is that the backoff is at any time the next wait (BackoffIsNext).       *)
(* CookieUsedOnce needs that first is false before the second session.     *)
(***************************************************************************)
EXTENDS RunLoop, TLAPS

-----------------------------------------------------------------------------
(* What the invariants rest on.                                            *)

\* The wait that the schedule asks for after the i-th one.
NextWait(i) ==
  IF i = 0 THEN 1 ELSE IF waits[i].wait >= 16 THEN 30 ELSE 2 * waits[i].wait

\* Until run returns, the backoff is the next wait of the schedule; in a sleep
\* it has been reset.
BackoffIsNext ==
  main # "exited" =>
    backoff = IF main = "sleep" /\ lasted THEN 1 ELSE NextWait(Len(waits))

\* The first session is the only one that starts with first set.
CookieUnused ==
  /\ main = "startup" => first /\ cookieLogins = 0
  /\ main = "session" /\ first => cookieLogins = 0
  /\ main = "sleep" => ~first

-----------------------------------------------------------------------------
(* Types and schedule.                                                     *)

Waits == [wait : 1 .. MaxBackoff, afterLong : BOOLEAN]

\* What waking up records.
LEMMA AppendFacts ==
  ASSUME NEW S, NEW s \in Seq(S), NEW x \in S
  PROVE  /\ Append(s, x) \in Seq(S)
         /\ Len(s) \in Nat
         /\ Len(Append(s, x)) = Len(s) + 1
         /\ \A i \in 1 .. Len(s) : Append(s, x)[i] = s[i]
         /\ Append(s, x)[Len(s) + 1] = x
  OBVIOUS

\* Doubling with the cap stays within the bounds of a wait.
LEMMA DoubleFacts ==
  ASSUME NEW b \in 1 .. MaxBackoff
  PROVE  LET doubled == IF 2 * b > MaxBackoff THEN MaxBackoff ELSE 2 * b
         IN  /\ doubled \in 1 .. MaxBackoff
             /\ doubled = IF b >= 16 THEN 30 ELSE 2 * b
  BY DEF MaxBackoff

\* Everything holds before the first session.
LEMMA InvInit == Init => TypeOK /\ BackoffIsNext /\ BackoffSchedule
                         /\ CookieUsedOnce /\ CookieUnused /\ NeverGivesUpLater
<1> SUFFICES ASSUME Init
             PROVE  TypeOK /\ BackoffIsNext /\ BackoffSchedule /\ CookieUsedOnce
                    /\ CookieUnused /\ NeverGivesUpLater
  OBVIOUS
<1>1. Len(waits) = 0 /\ waits \in Seq(Waits) BY DEF Init
<1>2. TypeOK
  <2>1. backoff \in 1 .. MaxBackoff BY DEF Init, MaxBackoff
  <2>2. waits \in Seq([wait : 1 .. MaxBackoff, afterLong : BOOLEAN])
    BY <1>1 DEF Waits
  <2> QED BY <2>1, <2>2 DEF Init, TypeOK
<1>3. BackoffIsNext /\ BackoffSchedule
  BY <1>1 DEF Init, BackoffIsNext, NextWait, BackoffSchedule
<1>4. CookieUsedOnce /\ CookieUnused /\ NeverGivesUpLater
  BY DEF Init, CookieUsedOnce, CookieUnused, NeverGivesUpLater
<1> QED BY <1>2, <1>3, <1>4

\* Steps of run other than waking up do not wait.
LEMMA NoWait ==
  ASSUME TypeOK, [Next]_vars, ~WakeUp
  PROVE  UNCHANGED waits
  BY DEF Next, Start, StartFails, RunSession, ShutDown, FirstFails, GiveUp, Sleep, SleepCanceled,
         Cancel, Stopped, ExitWith, vars

\* Every step keeps the types.
LEMMA TypeStep ==
  ASSUME TypeOK, [Next]_vars
  PROVE  TypeOK'
<1> USE DEF TypeOK
<1>1. ASSUME NEW e \in SessionErrors, NEW up \in BOOLEAN, NEW long \in BOOLEAN,
             RunSession(e, up, long)
      PROVE  TypeOK'
  <2>1. e \in {"nil", "error"} BY RunAssumption
  <2> QED BY <1>1, <2>1 DEF RunSession
<1>2. CASE ShutDown BY <1>2 DEF ShutDown, ExitWith
<1>3. CASE FirstFails BY <1>3 DEF FirstFails, ExitWith
<1>4. CASE GiveUp BY <1>4 DEF GiveUp, ExitWith
<1>5. CASE Sleep
  <2>1. 1 \in 1 .. MaxBackoff BY DEF MaxBackoff
  <2> QED BY <1>5, <2>1 DEF Sleep
<1>6. CASE SleepCanceled BY <1>6 DEF SleepCanceled, ExitWith
<1>7. CASE WakeUp
  <2>1. waits' \in Seq(Waits)
    <3>1. waits \in Seq(Waits) /\ [wait |-> backoff, afterLong |-> lasted] \in Waits
      BY DEF Waits
    <3>2. waits' = Append(waits, [wait |-> backoff, afterLong |-> lasted])
      BY <1>7 DEF WakeUp
    <3> QED BY ONLY <3>1, <3>2, AppendFacts
  <2>2. backoff' \in 1 .. MaxBackoff
    BY <1>7, DoubleFacts DEF WakeUp
  <2> QED BY <1>7, <2>1, <2>2 DEF WakeUp, Waits
<1>8. CASE Cancel BY <1>8 DEF Cancel
<1>9. CASE Stopped \/ UNCHANGED vars BY <1>9 DEF Stopped, vars
<1>10. ASSUME NEW cookie \in BOOLEAN, NEW reconnect \in BOOLEAN,
              Start(cookie, reconnect)
       PROVE  TypeOK'
  BY <1>10 DEF Start
<1>11. CASE StartFails BY <1>11 DEF StartFails, ExitWith
<1> QED
  BY <1>1, <1>2, <1>3, <1>4, <1>5, <1>6, <1>7, <1>8, <1>9, <1>10, <1>11 DEF Next

\* The backoff stays the next wait, and the waits stay on the schedule.
LEMMA BackoffStep ==
  ASSUME TypeOK, BackoffIsNext, BackoffSchedule, [Next]_vars
  PROVE  BackoffIsNext' /\ BackoffSchedule'
<1>1. CASE WakeUp
  <2> DEFINE n == Len(waits)
             slept == [wait |-> backoff, afterLong |-> lasted]
  <2>1. /\ waits \in Seq(Waits) /\ n \in Nat /\ slept \in Waits
        /\ waits' = Append(waits, slept)
        /\ main = "sleep" /\ main' = "session"
    BY <1>1 DEF TypeOK, Waits, WakeUp
  <2>2. /\ Len(waits') = n + 1
        /\ \A i \in 1 .. n : waits'[i] = waits[i]
        /\ waits'[n + 1] = slept
    BY ONLY <2>1, AppendFacts
  <2>3. backoff' = IF backoff >= 16 THEN 30 ELSE 2 * backoff
    BY <1>1, DoubleFacts DEF WakeUp, TypeOK
  <2>4. BackoffIsNext'
    <3>1. waits'[n + 1].wait = backoff BY <2>2
    <3>2. n + 1 # 0 BY <2>1
    <3> QED BY <2>1, <2>2, <2>3, <3>1, <3>2 DEF BackoffIsNext, NextWait
  <2>5. backoff = IF n + 1 = 1 \/ lasted
                    THEN 1
                    ELSE IF waits[n].wait >= 16 THEN 30 ELSE 2 * waits[n].wait
    BY <2>1 DEF BackoffIsNext, NextWait
  <2>6. BackoffSchedule'
    <3> SUFFICES ASSUME NEW i \in 1 .. n + 1
                 PROVE  waits'[i].wait =
                          IF i = 1 \/ waits'[i].afterLong
                            THEN 1
                            ELSE IF waits'[i - 1].wait >= 16
                                   THEN 30 ELSE 2 * waits'[i - 1].wait
      BY <2>2 DEF BackoffSchedule
    <3>1. CASE i \in 1 .. n
      <4>1. i = 1 \/ i - 1 \in 1 .. n BY <2>1, <3>1
      <4>2. waits'[i] = waits[i] /\ (i = 1 \/ waits'[i - 1] = waits[i - 1])
        BY <2>2, <3>1, <4>1
      <4> QED BY <3>1, <4>2 DEF BackoffSchedule
    <3>2. CASE i = n + 1
      <4>1. waits'[i].wait = backoff /\ waits'[i].afterLong = lasted
        BY <2>2, <3>2
      <4>2. i = 1 \/ waits'[i - 1] = waits[n] BY <2>1, <2>2, <3>2
      <4> QED BY <2>5, <3>2, <4>1, <4>2
    <3> QED BY <2>1, <3>1, <3>2
  <2> QED BY <2>4, <2>6
<1>2. CASE ~WakeUp
  <2>1. UNCHANGED waits BY <1>2, NoWait
  <2>2. BackoffIsNext'
    <3>1. CASE Sleep
      BY <2>1, <3>1 DEF Sleep, BackoffIsNext, NextWait
    <3>2. CASE ~Sleep
      <4>1. \/ main' = "exited"
            \/ UNCHANGED backoff /\ main = "session" /\ main' = "decide"
            \/ UNCHANGED <<backoff, lasted>> /\ main = "startup" /\ main' = "session"
            \/ UNCHANGED <<backoff, main, lasted>>
        BY <1>2, <3>2 DEF Next, Start, StartFails, RunSession, ShutDown, FirstFails, GiveUp,
                          SleepCanceled, Cancel, Stopped, ExitWith, vars
      <4> QED BY <2>1, <4>1 DEF BackoffIsNext, NextWait
    <3> QED BY <3>1, <3>2
  <2>3. BackoffSchedule' BY <2>1 DEF BackoffSchedule
  <2> QED BY <2>2, <2>3
<1> QED BY <1>1, <1>2

\* The cookie is not used again, and only a step that may end the loop ends it.
LEMMA OtherStep ==
  ASSUME TypeOK, CookieUsedOnce, CookieUnused, NeverGivesUpLater, [Next]_vars
  PROVE  CookieUsedOnce' /\ CookieUnused' /\ NeverGivesUpLater'
<1> USE DEF CookieUsedOnce, CookieUnused, NeverGivesUpLater
<1>1. ASSUME NEW e \in SessionErrors, NEW up \in BOOLEAN, NEW long \in BOOLEAN,
             RunSession(e, up, long)
      PROVE  CookieUsedOnce' /\ CookieUnused' /\ NeverGivesUpLater'
  <2>1. UseCookie => cookieLogins = 0 /\ hasCookieAuth
    BY <1>1 DEF UseCookie, RunSession
  <2> QED BY <1>1, <2>1 DEF RunSession, TypeOK
<1>2. CASE ShutDown BY <1>2 DEF ShutDown, ExitWith
<1>3. CASE FirstFails BY <1>3 DEF FirstFails, ExitWith
<1>4. CASE GiveUp BY <1>4 DEF GiveUp, ExitWith
<1>5. CASE Sleep BY <1>5 DEF Sleep
<1>6. CASE SleepCanceled BY <1>6 DEF SleepCanceled, ExitWith
<1>7. CASE WakeUp BY <1>7 DEF WakeUp
<1>8. CASE Cancel BY <1>8 DEF Cancel
<1>9. CASE Stopped \/ UNCHANGED vars BY <1>9 DEF Stopped, vars
<1>10. ASSUME NEW cookie \in BOOLEAN, NEW reconnect \in BOOLEAN,
              Start(cookie, reconnect)
       PROVE  CookieUsedOnce' /\ CookieUnused' /\ NeverGivesUpLater'
  BY <1>10 DEF Start
<1>11. CASE StartFails BY <1>11 DEF StartFails, ExitWith
<1> QED
  BY <1>1, <1>2, <1>3, <1>4, <1>5, <1>6, <1>7, <1>8, <1>9, <1>10, <1>11 DEF Next

-----------------------------------------------------------------------------
(* Theorems.                                                               *)

\* The types hold: the backoff never leaves 1 .. 30 seconds.
THEOREM TypeCorrect == Spec => []TypeOK
<1>1. TypeOK /\ [Next]_vars => TypeOK' BY TypeStep
<1> QED BY InvInit, <1>1, PTL DEF Spec

\* However many sessions there are and however long they last, the waits between
\* them are on the documented schedule (run, connect.go:419-470).
THEOREM WaitsOnSchedule == Spec => []BackoffSchedule
<1>1. TypeOK /\ BackoffIsNext /\ BackoffSchedule /\ [Next]_vars
        => BackoffIsNext' /\ BackoffSchedule'
  BY BackoffStep
<1> QED BY InvInit, TypeCorrect, <1>1, PTL DEF Spec

\* The prelogin cookie is presented by the first session only.
THEOREM CookieOnlyOnce == Spec => []CookieUsedOnce
<1>1. /\ TypeOK /\ CookieUsedOnce /\ CookieUnused /\ NeverGivesUpLater
      /\ [Next]_vars
      => CookieUsedOnce' /\ CookieUnused' /\ NeverGivesUpLater'
  BY OtherStep
<1> QED BY InvInit, TypeCorrect, <1>1, PTL DEF Spec

\* Once a session has ended well, run returns only when it is cancelled or has
\* no credentials for another login.
THEOREM KeepsReconnecting == Spec => []NeverGivesUpLater
<1>1. /\ TypeOK /\ CookieUsedOnce /\ CookieUnused /\ NeverGivesUpLater
      /\ [Next]_vars
      => CookieUsedOnce' /\ CookieUnused' /\ NeverGivesUpLater'
  BY OtherStep
<1> QED BY InvInit, TypeCorrect, <1>1, PTL DEF Spec
=============================================================================
