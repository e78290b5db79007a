---------------------------- MODULE CommandProofs ----------------------------
(***************************************************************************)
(* Proofs about Command, for any number of sessions, any command lines,     *)
(* files and replies of the gateway that the assumptions allow.             *)
(*                                                                         *)
(* The command implements RunLoop, so that whatever holds of the loop alone  *)
(* holds of the loop with its sessions.  What relates the sessions to one     *)
(* another rests on SessionsNeedTotp: nobody gets past the first session     *)
(* without a secret for codes.                                             *)
(***************************************************************************)
EXTENDS Command, RunLoopProofs, LoopTheorems, SequenceTheorems

-----------------------------------------------------------------------------
(* What the invariants rest on.                                            *)

LoggedInCalls == {"config", "active", "logout"}

\* Client and gateway agree on who is logged in, except for what got lost.
GatewayAgrees ==
  IF call \in LoggedInCalls THEN token \in Cookies /\ live = "yes"
                        ELSE token = "" /\ live # "yes"

\* What a login has submitted, by how far it has come.
CredentialsByCall ==
  /\ call \in {"idle", "prelogin"} => sent = <<>>
  /\ call \in {"login", "input"} => sent \in {<<"cookie">>, <<"password">>}
  /\ CredentialsInOrder

\* The challenge in hand is the one the gateway has posed.
ChallengeInHand == call \in {"input", "challenge"} => inputStr = posed

ClientInv == GatewayAgrees /\ CredentialsByCall /\ ChallengeInHand

\* There is a session after the first one only with what a reconnect needs, and
\* then codes are generated.
SessionsNeedTotp ==
  /\ canReconnect => callback = "totp"
  /\ main = "sleep" => canReconnect
  /\ main = "session" /\ sessions > 0 => canReconnect
  /\ main = "startup" => sessions = 0
  /\ call # "idle" => main = "session"

\* Once the one-time password was asked for, its login is past the challenge.
OtpSpent ==
  \/ otpAsked = 0
  \/ /\ otpAsked = 1 /\ callback = "otp"
     /\ main # "startup"
     /\ main = "session" => call \notin {"idle", "prelogin", "login", "input"}

\* A user name is asked for before the password.
NameBeforePassword ==
  stage \in {"password", "ready"} => username # "" \/ HasCookieAuth

\* A shell runs only while what it prints is wanted, so that no command is
\* skipped with its shell still running.
StartInv ==
  /\ StartTypeOK
  /\ shell # "none" => Needed(stage)
  /\ ProfileAsNamed

-----------------------------------------------------------------------------
(* Steps of the client.                                                    *)

\* A reply that is neither a challenge nor an error brings a cookie, and nothing
\* else lets the client in.
LEMMA ReplyFacts ==
  ASSUME NEW body \in LoginBodies
  PROVE  /\ ParseLoginOrChallenge(body) = "cookie"
              => Argument(body.args, 1) \in Cookies /\ Grants(body)
         /\ Grants(body) => ParseLoginOrChallenge(body) = "cookie"
<1>1. /\ body.script \in {"none", "fails", "unset", "Challenge", "Error"}
      /\ body.jnlp \in BOOLEAN
      /\ body.args \in ArgLists
  BY DEF LoginBodies
<1>2. body.args \in Seq(Cookies \cup Placeholders) BY <1>1, ClientAssumption
<1>3. 1 < Len(body.args) => body.args[2] \in Cookies \cup Placeholders
  BY <1>2
<1>4. "" \in Placeholders BY DEF Placeholders
<1>5. Argument(body.args, 1) =
        IF 1 < Len(body.args) /\ body.args[2] \notin Placeholders THEN body.args[2] ELSE ""
  <2>1. 1 + 1 = 2 OBVIOUS
  <2> QED BY <2>1, Zenon DEF Argument
<1>6. Argument(body.args, 1) # ""
        <=> 1 < Len(body.args) /\ body.args[2] \in Cookies
  BY <1>3, <1>4, <1>5, ClientAssumption
<1>7. Argument(body.args, 1) # "" => Argument(body.args, 1) = body.args[2]
  BY <1>5
<1>8. ParseLoginOrChallenge(body) = "cookie" <=>
        ~IsChallenge(body) /\ body.jnlp /\ Argument(body.args, 1) # ""
  BY <1>1 DEF ParseLoginOrChallenge
<1>9. ~IsChallenge(body) <=> body.script \notin {"Challenge", "Error"}
  BY <1>1 DEF IsChallenge
<1>10. Len(body.args) > 1 <=> 1 < Len(body.args) BY <1>2
<1> QED BY <1>6, <1>7, <1>8, <1>9, <1>10 DEF Grants

\* A sequence of one, and another element.
LEMMA AppendToOne ==
  ASSUME NEW x, NEW y
  PROVE  Append(<<x>>, y) = <<x, y>>
<1> DEFINE S == {x, y}
           s == Append(<<x>>, y)
<1>1. <<x>> \in Seq(S) /\ <<x, y>> \in Seq(S) /\ y \in S OBVIOUS
<1>2. /\ Len(<<x>>) = 1 /\ <<x>>[1] = x
      /\ Len(<<x, y>>) = 2 /\ <<x, y>>[1] = x /\ <<x, y>>[2] = y
  OBVIOUS
<1> HIDE DEF S
<1>3. /\ s \in Seq(S) /\ Len(s) = Len(<<x>>) + 1
      /\ \A i \in 1 .. Len(<<x>>) : s[i] = <<x>>[i]
      /\ s[Len(<<x>>) + 1] = y
  BY ONLY <1>1, AppendProperties
<1> HIDE DEF s
<1>4. Len(s) = 2 /\ s[1] = x /\ s[2] = y BY <1>2, <1>3
<1>5. \A i \in 1 .. Len(s) : s[i] = <<x, y>>[i] BY <1>2, <1>4
<1>6. s = <<x, y>> BY <1>1, <1>2, <1>3, <1>4, <1>5, SeqEqual
<1> QED BY <1>6 DEF s

\* Appending the code to what a login has begun with.
LEMMA AppendCode ==
  ASSUME NEW s, s \in {<<"cookie">>, <<"password">>}
  PROVE  /\ Append(s, "code") \in {<<"cookie", "code">>, <<"password", "code">>}
         /\ Append(s, "code") # <<>> /\ s # <<>>
         /\ Append(s, "code")[1] = s[1]
<1>1. ASSUME NEW w, s = <<w>>
      PROVE  /\ Append(s, "code") = <<w, "code">> /\ s # <<>>
             /\ Append(s, "code") # <<>> /\ Append(s, "code")[1] = s[1]
  <2>1. Append(s, "code") = <<w, "code">> BY <1>1, AppendToOne
  <2>2. <<w, "code">>[1] = <<w>>[1] /\ <<w, "code">> # <<>> /\ <<w>> # <<>> OBVIOUS
  <2> QED BY <1>1, <2>1, <2>2
<1> QED BY <1>1

\* A reply to a login keeps the three invariants of the client.
LEMMA ReplyStep ==
  ASSUME ClientInv, LoginReply
  PROVE  ClientInv'
<1> USE DEF ClientInv, GatewayAgrees, LoggedInCalls, CredentialsByCall,
            CredentialsInOrder, ChallengeInHand
<1>1. CASE LoginFails BY <1>1 DEF LoginFails
<1>2. ASSUME NEW body \in LoginBodies, LoginError(body) PROVE ClientInv'
  <2>1. ~Grants(body) BY <1>2, ReplyFacts DEF LoginError
  <2> QED BY <1>2, <2>1 DEF LoginError
<1>3. ASSUME NEW body \in LoginBodies, LoggedIn(body) PROVE ClientInv'
  <2>1. Argument(body.args, 1) \in Cookies /\ Grants(body)
    BY <1>3, ReplyFacts DEF LoggedIn
  <2>2. live' = "yes" BY <1>3, <2>1 DEF LoggedIn
  <2> QED BY <1>3, <2>1, <2>2 DEF LoggedIn
<1>4. ASSUME NEW body \in LoginBodies, Challenged(body) PROVE ClientInv'
  BY <1>4 DEF Challenged
<1>5. ASSUME NEW body \in LoginBodies, SecondChallenge(body) PROVE ClientInv'
  BY <1>5 DEF SecondChallenge
<1> QED BY <1>1, <1>2, <1>3, <1>4, <1>5 DEF LoginReply

\* So does whatever the callback does.
LEMMA InputStep ==
  ASSUME ClientInv, Input \/ InputCanceled(ctxDone)
  PROVE  ClientInv'
<1> USE DEF ClientInv, GatewayAgrees, LoggedInCalls, CredentialsByCall,
            CredentialsInOrder, ChallengeInHand
<1>1. CASE SubmitCode
  <2>1. /\ sent \in {<<"cookie">>, <<"password">>}
        /\ sent' = Append(sent, "code")
        /\ UNCHANGED prelogin
    BY <1>1 DEF SubmitCode
  <2>2. /\ sent' \in {<<"cookie", "code">>, <<"password", "code">>}
        /\ sent' # <<>> /\ sent # <<>> /\ sent'[1] = sent[1]
    BY ONLY <2>1, AppendCode
  <2>3. CredentialsInOrder' BY <2>1, <2>2
  <2>4. call' = "challenge" /\ call = "input" BY <1>1 DEF SubmitCode
  <2>5. CredentialsByCall' BY <2>3, <2>4
  <2>6. GatewayAgrees' /\ ChallengeInHand' BY <1>1 DEF SubmitCode
  <2> QED BY <2>5, <2>6
<1>2. CASE LoginReturnsError /\ call = "input" /\ UNCHANGED <<inputStr, sent>>
  BY <1>2 DEF LoginReturnsError
<1>3. SubmitCode \/ (LoginReturnsError /\ call = "input" /\ UNCHANGED <<inputStr, sent>>)
  BY DEF Input, TotpInput, OtpInput, UserInput, InputFails, InputCanceled
<1> QED BY <1>1, <1>2, <1>3

\* Every step of the client keeps them.
LEMMA ClientKeeps ==
  ASSUME ClientInv, ClientStep
  PROVE  ClientInv'
<1> USE DEF ClientInv, GatewayAgrees, LoggedInCalls, CredentialsByCall,
            CredentialsInOrder, ChallengeInHand
<1>1. CASE Begin
  <2>1. CASE Login BY <2>1 DEF Login
  <2>2. CASE LoginWithCookie
    <3>1. sent' = <<"cookie">> /\ sent'[1] = "cookie" BY <2>2 DEF LoginWithCookie
    <3>2. CredentialsInOrder' BY <3>1
    <3>3. call = "idle" /\ call' = "login" /\ UNCHANGED <<inputStr, posed, token, live>>
      BY <2>2 DEF LoginWithCookie
    <3> QED BY <3>1, <3>2, <3>3
  <2> QED BY <1>1, <2>1, <2>2 DEF Begin
<1>2. CASE Prelogin
  <2>1. CASE PreloginFails BY <2>1 DEF PreloginFails, LoginReturnsError
  <2>2. CASE PreloginSaml BY <2>2 DEF PreloginSaml
  <2>3. CASE SubmitPassword BY <2>3 DEF SubmitPassword
  <2> QED BY <1>2, <2>1, <2>2, <2>3 DEF Prelogin
<1>3. CASE LoginReply BY <1>3, ReplyStep
<1>4. CASE Input \/ InputCanceled(ctxDone) BY <1>4, InputStep
<1>5. CASE Configure BY <1>5 DEF Configure, GetConfigFails, GetConfig
<1>6. CASE SessionEnds BY <1>6 DEF SessionEnds
<1>7. CASE Logout BY <1>7 DEF Logout
<1> QED BY <1>1, <1>2, <1>3, <1>4, <1>5, <1>6, <1>7 DEF ClientStep

-----------------------------------------------------------------------------
(* The DNS servers of a configuration.                                      *)

\* What the loop over the lists has seen after k of them.
Merged(all, k, seen) ==
  /\ {seen[j] : j \in 1 .. Len(seen)} = {all[i] : i \in 1 .. k} \ {""}
  /\ \A j \in 1 .. Len(seen) : \A i \in 1 .. j - 1 :
       \E m \in 1 .. k : all[m] = seen[i] /\ \A l \in 1 .. m : all[l] # seen[j]

\* One server more, unless it is known.
WithServer(seen, d) == IF d = "" \/ Contains(seen, d) THEN seen ELSE Append(seen, d)

\* A turn of the loop over the servers keeps what the servers before it gave.
LEMMA MergeStep ==
  ASSUME NEW D, NEW all \in Seq(D), NEW k \in Nat, k < Len(all),
         NEW seen \in Seq(D), Merged(all, k, seen)
  PROVE  /\ WithServer(seen, all[k + 1]) \in Seq(D)
         /\ Merged(all, k + 1, WithServer(seen, all[k + 1]))
<1> DEFINE d == all[k + 1]
           more == WithServer(seen, d)
<1>1. k + 1 \in 1 .. Len(all) /\ Len(all) \in Nat
  BY LenProperties
<1>2. d \in D
  BY <1>1, ElementOfSeq
<1>3. Len(seen) \in Nat
  BY LenProperties
<1>4. Contains(seen, d) <=> \E j \in 1 .. Len(seen) : seen[j] = d
  BY DEF Contains
<1>5. {all[i] : i \in 1 .. k + 1} = {all[i] : i \in 1 .. k} \cup {d}
  <2>1. \A i \in 1 .. k + 1 : i \in 1 .. k \/ i = k + 1
    OBVIOUS
  <2>2. \A i \in 1 .. k : i \in 1 .. k + 1
    OBVIOUS
  <2>3. k + 1 \in 1 .. k + 1
    OBVIOUS
  <2> QED BY <2>1, <2>2, <2>3
<1> HIDE DEF d, more
<1>6. CASE d = "" \/ Contains(seen, d)
  <2>1. more = seen
    BY <1>6 DEF more, WithServer
  <2>2. d = "" \/ d \in {seen[j] : j \in 1 .. Len(seen)}
    BY <1>4, <1>6
  <2>3. {seen[j] : j \in 1 .. Len(seen)} = {all[i] : i \in 1 .. k + 1} \ {""}
    BY <1>5, <2>2 DEF Merged
  <2>4. \A m \in 1 .. k : m \in 1 .. k + 1
    OBVIOUS
  <2>5. ASSUME NEW j \in 1 .. Len(seen), NEW i \in 1 .. j - 1
        PROVE  \E m \in 1 .. k + 1 : all[m] = seen[i] /\ \A l \in 1 .. m : all[l] # seen[j]
    BY <2>4 DEF Merged
  <2>6. Merged(all, k + 1, seen)
    BY ONLY <2>3, <2>5 DEF Merged
  <2> QED BY <2>1, <2>6 DEF more, d
<1>7. CASE d # "" /\ ~Contains(seen, d)
  <2> DEFINE n == Len(seen)
  <2>1. more = Append(seen, d)
    BY <1>7 DEF more, WithServer
  <2>2. /\ more \in Seq(D) /\ Len(more) = n + 1
        /\ \A j \in 1 .. n : more[j] = seen[j]
        /\ more[n + 1] = d
    BY <1>2, <2>1, AppendProperties
  <2> HIDE DEF n
  <2>3. n \in Nat
    BY <1>3 DEF n
  <2>4. {more[j] : j \in 1 .. n + 1} = {seen[j] : j \in 1 .. n} \cup {d}
    <3>1. \A j \in 1 .. n + 1 : j \in 1 .. n \/ j = n + 1
      BY <2>3
    <3>2. \A j \in 1 .. n : j \in 1 .. n + 1
      BY <2>3
    <3>3. n + 1 \in 1 .. n + 1
      BY <2>3
    <3> QED BY <2>2, <3>1, <3>2, <3>3
  <2>5. {seen[j] : j \in 1 .. n} = {all[i] : i \in 1 .. k} \ {""}
    BY DEF Merged, n
  <2>6. {more[j] : j \in 1 .. Len(more)} = {all[i] : i \in 1 .. k + 1} \ {""}
    BY <1>5, <1>7, <2>2, <2>4, <2>5
  <2>7. ASSUME NEW j \in 1 .. Len(more), NEW i \in 1 .. j - 1
        PROVE  \E m \in 1 .. k + 1 : all[m] = more[i] /\ \A l \in 1 .. m : all[l] # more[j]
    <3>1. i \in 1 .. n /\ more[i] = seen[i]
      BY <2>2, <2>3
    <3>2. CASE j \in 1 .. n
      <4>1. PICK m \in 1 .. k : all[m] = seen[i] /\ \A l \in 1 .. m : all[l] # seen[j]
        BY <3>2 DEF Merged, n
      <4>2. m \in 1 .. k + 1 /\ more[j] = seen[j]
        BY <2>2, <3>2
      <4> QED BY <3>1, <4>1, <4>2
    <3>3. CASE j = n + 1
      <4>1. PICK m \in 1 .. k : all[m] = seen[i]
        BY <2>5, <3>1
      <4>2. ASSUME NEW l \in 1 .. m PROVE all[l] # d
        <5>1. l \in 1 .. k
          OBVIOUS
        <5>2. d \notin {seen[q] : q \in 1 .. n}
          BY <1>4, <1>7 DEF n
        <5> QED BY <1>7, <2>5, <5>1, <5>2
      <4>3. m \in 1 .. k + 1 /\ more[j] = d
        BY <2>2, <3>3
      <4> QED BY <3>1, <4>1, <4>2, <4>3
    <3> QED BY <2>2, <2>3, <3>2, <3>3
  <2>8. Merged(all, k + 1, more)
    BY ONLY <2>6, <2>7 DEF Merged
  <2> QED BY <2>2, <2>8 DEF more, d
<1> QED BY <1>6, <1>7

\* The loop ends with the servers of both lists.
LEMMA MergeDNSMerges ==
  ASSUME NEW D, NEW dns \in Seq(D), NEW dnsv6 \in Seq(D)
  PROVE  /\ MergeDNS(dns, dnsv6) \in Seq(D) /\ dns \o dnsv6 \in Seq(D)
         /\ Merged(dns \o dnsv6, Len(dns \o dnsv6), MergeDNS(dns, dnsv6))
<1> DEFINE all == dns \o dnsv6
           n == Len(all)
           S == Seq(D)
           next(i, v) == IF all[i] = "" \/ Contains(v, all[i]) THEN v ELSE Append(v, all[i])
           body(f) == [i \in 0 .. n |-> IF i = 0 THEN <<>> ELSE next(i, f[i - 1])]
           step == [p \in (1 .. n) \X S |-> next(p[1], p[2])]
           seen == CHOOSE f : f = body(f)
<1>1. all \in Seq(D)
  BY ConcatProperties
<1>2. MergeDNS(dns, dnsv6) = seen[n]
  BY DEF MergeDNS
<1> HIDE DEF all
<1>3. n \in Nat /\ \A i \in 1 .. n : all[i] \in D
  BY <1>1, LenProperties, ElementOfSeq
<1>4. \A i \in 1 .. n, v \in S : next(i, v) \in S
  BY <1>3, AppendProperties
<1> HIDE DEF next, n, S
<1>5. step \in [(1 .. n) \X S -> S] /\ \A i \in 1 .. n, v \in S : step[<<i, v>>] = next(i, v)
  BY <1>4
<1> HIDE DEF step
<1>6. PICK f \in [0 .. n -> S] : f[0] = <<>> /\ \A i \in 1 .. n : f[i] = step[<<i, f[i - 1]>>]
  <2>1. <<>> \in S
    BY DEF S
  <2>2. \E f \in [0 .. n -> S] : IsLoop(f, n, <<>>, step)
    BY <1>3, <1>5, <2>1, LoopRuns, Zenon
  <2> QED BY <2>2 DEF IsLoop
<1>7. f = body(f)
  <2>1. ASSUME NEW i \in 0 .. n PROVE f[i] = IF i = 0 THEN <<>> ELSE next(i, f[i - 1])
    <3>1. CASE i = 0
      BY <1>6, <3>1
    <3>2. CASE i # 0
      <4>1. i \in 1 .. n /\ f[i - 1] \in S
        BY <1>3, <3>2
      <4>2. f[i] = next(i, f[i - 1])
        BY ONLY <1>5, <1>6, <4>1
      <4> QED BY <3>2, <4>2
    <3> QED BY <3>1, <3>2
  <2> QED BY <2>1
<1>8. seen = body(seen)
  BY <1>7
<1> HIDE DEF seen
<1>9. seen[0] = <<>> /\ \A i \in 1 .. n : seen[i] = next(i, seen[i - 1])
  BY <1>3, <1>8
<1> DEFINE T == {i \in 0 .. n : seen[i] \in S /\ Merged(all, i, seen[i])}
<1>10. 0 \in T
  <2>1. <<>> \in S /\ Merged(all, 0, <<>>)
    BY DEF Merged, S
  <2> QED BY <1>3, <1>9, <2>1
<1>11. ASSUME NEW i \in T, i < n PROVE i + 1 \in T
  <2>1. i \in Nat /\ i + 1 \in 1 .. n /\ i + 1 \in 0 .. n /\ (i + 1) - 1 = i
    BY <1>3, <1>11
  <2>2. seen[i] \in Seq(D) /\ Merged(all, i, seen[i]) /\ i < Len(all)
    BY <1>11 DEF S, n
  <2>3. seen[i + 1] = next(i + 1, seen[i])
    BY <1>9, <2>1
  <2>4. seen[i + 1] \in Seq(D) /\ Merged(all, i + 1, seen[i + 1])
    BY <1>1, <2>1, <2>2, <2>3, MergeStep DEF next, WithServer
  <2> QED BY <2>1, <2>4 DEF S
<1>12. T = 0 .. n
  <2>1. T \subseteq 0 .. n
    OBVIOUS
  <2> HIDE DEF T
  <2> QED BY <1>3, <1>10, <1>11, <2>1, BoundedInduction
<1>13. n \in T
  BY <1>3, <1>12
<1> QED BY <1>1, <1>2, <1>13 DEF all, n, S

\* So does what a session works with.
LEMMA ParsedOnce ==
  ASSUME NEW body \in ConfigBodies, config' = ParseConfigResponse(body)
  PROVE  DnsServersOnce'
<1> DEFINE all == body.dns \o body.dnsv6
           dns == MergeDNS(body.dns, body.dnsv6)
<1>1. body.dns \in Seq(STRING) /\ body.dnsv6 \in Seq(STRING)
  BY ClientAssumption DEF ConfigBodies
<1>2. dns \in Seq(STRING) /\ all \in Seq(STRING) /\ Merged(all, Len(all), dns)
  BY <1>1, MergeDNSMerges
<1>3. config'.dns = dns /\ config'.offered = all
  BY DEF ParseConfigResponse
<1> HIDE DEF all, dns
<1>4. DOMAIN dns = 1 .. Len(dns) /\ DOMAIN all = 1 .. Len(all)
  BY <1>2, LenProperties
<1>5. ToSet(dns) = {dns[j] : j \in 1 .. Len(dns)} /\ ToSet(all) = {all[i] : i \in 1 .. Len(all)}
  BY <1>4 DEF ToSet
<1>6. InOrderOnce(dns, all)
  BY ONLY <1>2, <1>5 DEF InOrderOnce, Merged
<1> QED BY <1>3, <1>6 DEF DnsServersOnce

-----------------------------------------------------------------------------
(* Steps of the command.                                                   *)

\* Every step of the command is one of the loop, or the loop does not see it.
LEMMA CommandStep ==
  ASSUME [CommandNext]_commandVars
  PROVE  [Next]_vars
<1>1. CASE EnterRun
  <2>1. HasCookieAuth \in BOOLEAN /\ CanReconnect \in BOOLEAN
    BY DEF HasCookieAuth, CanReconnect
  <2> QED BY <1>1, <2>1 DEF EnterRun, Next
<1>2. CASE EndSession BY <1>2 DEF EndSession, Next
<1>3. CASE Decide BY <1>3 DEF Decide, Next
<1>4. CASE ReturnEarly \/ Interrupt \/ CommandStopped
  BY <1>4 DEF ReturnEarly, Interrupt, CommandStopped, Next
<1>5. CASE Prepare \/ Step \/ UNCHANGED commandVars
  BY <1>5 DEF Prepare, Step, commandVars
<1> QED BY <1>1, <1>2, <1>3, <1>4, <1>5 DEF CommandNext

\* What a step outside a session leaves of the client.
LEMMA OutsideSession ==
  ASSUME [CommandNext]_commandVars, ~Step, ~EndSession, ~EnterRun
  PROVE  UNCHANGED clientVars
  BY DEF CommandNext, Prepare, ReturnEarly, Decide, Interrupt, CommandStopped, commandVars

\* The client's invariants hold from one session to the next.
LEMMA ClientInvStep ==
  ASSUME ClientInv, [CommandNext]_commandVars
  PROVE  ClientInv'
<1>1. CASE Step BY <1>1, ClientKeeps DEF Step
<1>2. CASE EndSession
  BY <1>2 DEF EndSession, Return, ClientInv, GatewayAgrees, LoggedInCalls,
              CredentialsByCall, CredentialsInOrder, ChallengeInHand
<1>3. CASE EnterRun
  BY <1>3 DEF EnterRun, ClientInv, GatewayAgrees, LoggedInCalls, CredentialsByCall,
              CredentialsInOrder, ChallengeInHand
<1>4. CASE UNCHANGED clientVars
  BY <1>4 DEF clientVars, ClientInv, GatewayAgrees, LoggedInCalls, CredentialsByCall,
              CredentialsInOrder, ChallengeInHand
<1> QED BY <1>1, <1>2, <1>3, <1>4, OutsideSession

\* What a login begins with.
LEMMA FirstCredential ==
  LET C == {"cookie", "password", "code"}
  IN  <<>> \in Seq(C) /\ <<"cookie">> \in Seq(C) /\ <<"password">> \in Seq(C)
  OBVIOUS

\* The client's variables keep their types, whatever the gateway answers.
LEMMA ClientTypes ==
  ASSUME ClientTypeOK, ClientStep
  PROVE  ClientTypeOK'
<1> USE DEF ClientTypeOK
<1>1. CASE Begin
  BY <1>1, FirstCredential DEF Begin, Login, LoginWithCookie
<1>2. CASE Prelogin
  BY <1>2, FirstCredential
     DEF Prelogin, PreloginFails, LoginReturnsError, PreloginSaml, SubmitPassword
<1>3. CASE LoginReply
  <2>1. CASE LoginFails BY <2>1 DEF LoginFails
  <2>2. ASSUME NEW body \in LoginBodies,
               LoginError(body) \/ LoggedIn(body) \/ Challenged(body) \/ SecondChallenge(body)
        PROVE  ClientTypeOK'
    <3>1. body.inputStr \in InputStrs BY DEF LoginBodies
    <3>2. CASE LoginError(body) BY <3>2 DEF LoginError
    <3>3. CASE LoggedIn(body)
      <4>1. token' \in Cookies BY <3>3, ReplyFacts DEF LoggedIn
      <4>2. "" \in InputStrs BY DEF InputStrs
      <4> QED BY <3>3, <4>1, <4>2 DEF LoggedIn
    <3>4. CASE Challenged(body) BY <3>1, <3>4 DEF Challenged
    <3>5. CASE SecondChallenge(body) BY <3>1, <3>5 DEF SecondChallenge
    <3> QED BY <2>2, <3>2, <3>3, <3>4, <3>5
  <2> QED BY <1>3, <2>1, <2>2 DEF LoginReply
<1>4. CASE Input \/ InputCanceled(ctxDone)
  <2>1. Append(sent, "code") \in Seq({"cookie", "password", "code"})
    <3> DEFINE C == {"cookie", "password", "code"}
    <3>1. sent \in Seq(C) /\ "code" \in C OBVIOUS
    <3> HIDE DEF C
    <3>2. Append(sent, "code") \in Seq(C) BY ONLY <3>1, AppendProperties
    <3> QED BY <3>2 DEF C
  <2>2. /\ sent' \in {sent, Append(sent, "code")}
        /\ call' \in {"challenge", "done"}
        /\ otpUsed' \in BOOLEAN /\ otpAsked' \in {otpAsked, otpAsked + 1}
        /\ UNCHANGED <<callback, token, prelogin, inputStr, posed, live>>
    BY <1>4 DEF Input, TotpInput, OtpInput, UserInput, InputFails, InputCanceled,
                SubmitCode, LoginReturnsError
  <2>3. sent' \in Seq({"cookie", "password", "code"}) BY <2>1, <2>2
  <2>4. otpAsked' \in Nat
    <3>1. otpAsked \in Nat OBVIOUS
    <3>2. otpAsked' = otpAsked \/ otpAsked' = otpAsked + 1 BY <2>2
    <3> QED BY ONLY <3>1, <3>2
  <2> QED BY <2>2, <2>3, <2>4
<1>5. CASE Configure
  BY <1>5 DEF Configure, GetConfigFails, GetConfig
<1>6. CASE SessionEnds \/ Logout
  BY <1>6 DEF SessionEnds, Logout
<1> QED BY <1>1, <1>2, <1>3, <1>4, <1>5, <1>6 DEF ClientStep

\* So do they from one session to the next.
LEMMA ClientTypeStep ==
  ASSUME ClientTypeOK, [CommandNext]_commandVars
  PROVE  ClientTypeOK'
<1>1. CASE Step BY <1>1, ClientTypes DEF Step
<1>2. CASE EndSession
  BY <1>2, FirstCredential DEF EndSession, Return, ClientTypeOK, InputStrs
<1>3. CASE EnterRun
  <2>1. Callback \in Callbacks BY DEF Callback, Callbacks
  <2> QED BY <1>3, <2>1 DEF EnterRun, ClientTypeOK
<1>4. CASE UNCHANGED clientVars
  BY <1>4 DEF clientVars, ClientTypeOK
<1> QED BY <1>1, <1>2, <1>3, <1>4, OutsideSession

\* A step of the client does not touch the callback; the one-time password is
\* asked for once more, or the login moves on without it.
LEMMA ClientStepFacts ==
  ASSUME ClientStep
  PROVE  /\ UNCHANGED callback
         /\ \/ /\ call = "input" /\ callback = "otp"
               /\ call' \in {"challenge", "done"}
               /\ otpAsked' = otpAsked + 1
            \/ /\ UNCHANGED otpAsked
               /\ call \notin {"idle", "prelogin", "login", "input"}
                    => call' \notin {"idle", "prelogin", "login", "input"}
<1>1. CASE Begin BY <1>1 DEF Begin, Login, LoginWithCookie
<1>2. CASE Prelogin
  BY <1>2 DEF Prelogin, PreloginFails, LoginReturnsError, PreloginSaml, SubmitPassword
<1>3. CASE LoginReply
  BY <1>3 DEF LoginReply, LoginFails, LoginError, LoggedIn, Challenged, SecondChallenge
<1>4. CASE Input \/ InputCanceled(ctxDone)
  BY <1>4 DEF Input, TotpInput, OtpInput, UserInput, InputFails, InputCanceled,
              SubmitCode, LoginReturnsError
<1>5. CASE Configure BY <1>5 DEF Configure, GetConfigFails, GetConfig
<1>6. CASE SessionEnds \/ Logout BY <1>6 DEF SessionEnds, Logout
<1> QED BY <1>1, <1>2, <1>3, <1>4, <1>5, <1>6 DEF ClientStep

\* Nobody gets past the first session without a secret for codes.
LEMMA TotpStep ==
  ASSUME TypeOK, SessionsNeedTotp, [CommandNext]_commandVars
  PROVE  SessionsNeedTotp'
<1> USE DEF SessionsNeedTotp
<1>1. CASE Step
  <2>1. UNCHANGED callback /\ main = "session" BY <1>1, ClientStepFacts DEF Step, InSession
  <2> QED BY <1>1, <2>1 DEF Step, vars
<1>2. CASE EndSession
  <2>1. main' = "decide" /\ UNCHANGED canReconnect BY <1>2 DEF EndSession, RunSession
  <2>2. call' = "idle" /\ UNCHANGED callback BY <1>2 DEF EndSession, Return
  <2> QED BY <2>1, <2>2
<1>3. CASE EnterRun
  <2>1. CanReconnect => Callback = "totp" BY DEF CanReconnect, Callback
  <2>2. /\ callback' = Callback /\ canReconnect' = CanReconnect
        /\ main = "startup" /\ main' = "session" /\ UNCHANGED <<sessions, call>>
    BY <1>3 DEF EnterRun, Start
  <2>3. sessions' = 0 BY <2>2
  <2> QED BY <2>1, <2>2, <2>3
<1>4. CASE Decide /\ UNCHANGED clientVars
  BY <1>4 DEF Decide, ShutDown, FirstFails, GiveUp, Sleep, SleepCanceled, WakeUp, ExitWith,
              clientVars
<1>5. CASE (ReturnEarly \/ Interrupt) /\ UNCHANGED clientVars
  BY <1>5 DEF ReturnEarly, StartFails, ExitWith, Interrupt, Cancel, clientVars
<1>6. CASE (Prepare \/ CommandStopped \/ UNCHANGED commandVars) /\ UNCHANGED clientVars
  BY <1>6 DEF Prepare, CommandStopped, Stopped, commandVars, vars, clientVars
<1> QED BY <1>1, <1>2, <1>3, <1>4, <1>5, <1>6, OutsideSession DEF CommandNext

\* The one-time password is asked for once at most.
LEMMA OtpStep ==
  ASSUME TypeOK, SessionsNeedTotp, OtpSpent, [CommandNext]_commandVars
  PROVE  OtpSpent'
<1> USE DEF OtpSpent
<1>1. CASE Step
  <2>1. main = "session" /\ UNCHANGED main BY <1>1 DEF Step, InSession, vars
  <2> QED BY <1>1, <2>1, ClientStepFacts DEF Step
<1>2. CASE EndSession BY <1>2 DEF EndSession, Return, RunSession
<1>3. CASE EnterRun BY <1>3 DEF EnterRun, Start
<1>4. CASE Decide /\ UNCHANGED clientVars
  <2>1. CASE WakeUp BY <1>4, <2>1 DEF WakeUp, SessionsNeedTotp, clientVars
  <2>2. CASE ~WakeUp
    BY <1>4, <2>2 DEF Decide, ShutDown, FirstFails, GiveUp, Sleep, SleepCanceled, ExitWith,
                      clientVars
  <2> QED BY <2>1, <2>2
<1>5. CASE (ReturnEarly \/ Interrupt) /\ UNCHANGED clientVars
  BY <1>5 DEF ReturnEarly, StartFails, ExitWith, Interrupt, Cancel, clientVars
<1>6. CASE (Prepare \/ CommandStopped \/ UNCHANGED commandVars) /\ UNCHANGED clientVars
  BY <1>6 DEF Prepare, CommandStopped, Stopped, commandVars, vars, clientVars
<1> QED BY <1>1, <1>2, <1>3, <1>4, <1>5, <1>6, OutsideSession DEF CommandNext

\* The order in which the settings are found.
LEMMA FollowingFacts ==
  /\ Following("config") = "passwordCmd" /\ Following("passwordCmd") = "otpCmd"
  /\ Following("otpCmd") = "username" /\ Following("username") = "password"
  /\ Following("password") = "ready"
  BY DEF Following

\* Whoever is asked for a password has a user name, or a cookie.
LEMMA NameStep ==
  ASSUME NameBeforePassword, [CommandNext]_commandVars
  PROVE  NameBeforePassword'
<1> USE DEF NameBeforePassword
<1>1. CASE LoadConfig BY <1>1, FollowingFacts DEF LoadConfig
<1>2. CASE LoadConfigFails BY <1>2 DEF LoadConfigFails
<1>3. CASE Skip
  <2>1. /\ stage \in {"passwordCmd", "otpCmd", "username", "password"}
        /\ stage' = Following(stage)
        /\ UNCHANGED <<commandLine, profile, username>>
    BY <1>3 DEF Skip, Commands, Prompts
  <2>2. HasCookieAuth' <=> HasCookieAuth
    BY <2>1 DEF HasCookieAuth, CookieName, Coalesce
  <2>3. stage = "username" => username # "" \/ HasCookieAuth
    BY <1>3 DEF Skip, Needed
  <2> QED BY <2>1, <2>2, <2>3, FollowingFacts
<1>4. CASE CommandStarts(ctxDone)
  BY <1>4 DEF CommandStarts, Commands
<1>5. CASE CommandReturns
  BY <1>5, FollowingFacts DEF CommandReturns, Commands
<1>6. CASE UsernamePrompt
  BY <1>6 DEF UsernamePrompt
<1>7. CASE PasswordPrompt
  <2>1. UNCHANGED <<commandLine, profile, username>> /\ stage = "password"
    BY <1>7 DEF PasswordPrompt
  <2>2. HasCookieAuth' <=> HasCookieAuth
    BY <2>1 DEF HasCookieAuth, CookieName, Coalesce
  <2> QED BY <2>1, <2>2
<1>8. CASE Shell
  <2>1. UNCHANGED <<stage, commandLine, profile, username>>
    BY <1>8 DEF Shell, Forks, ShellEnds, ShellKilled, ChildEnds
  <2> QED BY <2>1 DEF HasCookieAuth, CookieName, Coalesce
<1>9. CASE EnterRun BY <1>9 DEF EnterRun, CallRun
<1>10. CASE UNCHANGED startVars
  <2>1. UNCHANGED <<stage, commandLine, profile, username>> BY <1>10 DEF startVars
  <2> QED BY <2>1 DEF HasCookieAuth, CookieName, Coalesce
<1>11. CASE Prepare
  BY <1>1, <1>2, <1>3, <1>4, <1>5, <1>6, <1>7, <1>8, <1>11 DEF Prepare, Preparing
<1>12. ~Prepare /\ ~EnterRun => UNCHANGED startVars
  BY DEF CommandNext, ReturnEarly, Step, EndSession, Decide, Interrupt, CommandStopped, commandVars
<1> QED BY <1>9, <1>10, <1>11, <1>12

\* The profile LoadConfigFile returns is one of the file, and its only one or the
\* one of the name.
LEMMA LoadedProfile ==
  ASSUME StartTypeOK, NEW p \in LoadConfigFile
  PROVE  /\ p \in UNION {{f.profiles[i] : i \in DOMAIN f.profiles} : f \in Files}
         /\ Len(file.profiles) = 1 \/ p.name = ProfileName
<1> DEFINE profiles == file.profiles
<1>1. file.readable
  BY DEF LoadConfigFile
<1>2. file \in Files
  BY <1>1 DEF StartTypeOK, NoFile
<1>3. profiles \in Seq(Profile)
  BY <1>2, StartAssumption
<1>4. DOMAIN profiles = 1 .. Len(profiles) /\ Len(profiles) \in Nat
  BY <1>3, LenProperties
<1>5. \/ Len(profiles) = 1 /\ p = profiles[1]
      \/ \E i \in DOMAIN profiles : p = profiles[i] /\ profiles[i].name = ProfileName
  BY <1>1 DEF LoadConfigFile
<1> HIDE DEF profiles
<1>6. \E i \in DOMAIN profiles : p = profiles[i]
  BY <1>4, <1>5
<1> QED BY <1>2, <1>5, <1>6 DEF profiles

\* The steps on the way to run keep the settings' types and the profile's name.
LEMMA PrepareStep ==
  ASSUME StartInv, Prepare
  PROVE  StartInv'
<1> USE DEF StartInv, Commands, Prompts
<1>1. CASE LoadConfig
  <2>1. /\ stage = "config" /\ stage' = "passwordCmd"
        /\ UNCHANGED <<commandLine, file, shell, child>>
    BY <1>1, FollowingFacts DEF LoadConfig
  <2>2. shell' = "none" /\ ~child'
    BY <2>1 DEF StartTypeOK
  <2>3. CASE ~commandLine.config
    <3>1. profile' = NoProfile
      BY <1>1, <2>3 DEF LoadConfig
    <3> QED BY <2>1, <2>2, <2>3, <3>1 DEF StartTypeOK, ProfileAsNamed
  <2>4. CASE commandLine.config
    <3>1. profile' \in LoadConfigFile
      BY <1>1, <2>4 DEF LoadConfig
    <3>2. /\ profile' \in UNION {{f.profiles[i] : i \in DOMAIN f.profiles} : f \in Files}
          /\ Len(file.profiles) = 1 \/ profile'.name = ProfileName
      BY <3>1, LoadedProfile
    <3>3. StartTypeOK'
      BY <2>1, <2>2, <3>2 DEF StartTypeOK
    <3>4. ProfileAsNamed'
      BY <2>1, <3>2 DEF ProfileAsNamed, ProfileName, Coalesce
    <3> QED BY <2>2, <3>3, <3>4
  <2> QED BY <2>3, <2>4
<1>2. CASE LoadConfigFails
  BY <1>2 DEF LoadConfigFails, StartTypeOK, ProfileAsNamed
<1>3. CASE Skip
  <2>1. /\ stage' \in {"otpCmd", "username", "password", "ready"}
        /\ stage \notin {"config", "failed", "run"} /\ shell = "none"
        /\ UNCHANGED <<commandLine, file, profile, shell, child>>
    BY <1>3, FollowingFacts DEF Skip
  <2> QED BY <2>1 DEF StartTypeOK, ProfileAsNamed
<1>4. CASE CommandStarts(ctxDone)
  <2>1. /\ stage \in Commands /\ Needed(stage) /\ shell' \in {"failed", "runs"}
        /\ UNCHANGED <<stage, commandLine, file, profile, password, otp, username, child>>
    BY <1>4 DEF CommandStarts
  <2>2. Needed(stage)'
    BY <2>1 DEF Needed, PasswordCmd, OtpCmd, Coalesce
  <2> QED BY <2>1, <2>2 DEF StartTypeOK, ProfileAsNamed
<1>5. CASE CommandReturns
  <2>1. /\ stage' \in {"failed", "otpCmd", "username"} /\ shell' = "none"
        /\ stage \notin {"config", "failed", "run"} /\ ~child
        /\ UNCHANGED <<commandLine, file, profile, child>>
    BY <1>5, FollowingFacts DEF CommandReturns
  <2> QED BY <2>1 DEF StartTypeOK, ProfileAsNamed
<1>6. CASE UsernamePrompt \/ PasswordPrompt
  <2>1. /\ stage' \in {"failed", "password", "ready"}
        /\ stage \in {"username", "password"}
        /\ UNCHANGED <<commandLine, file, profile, shell, child>>
    BY <1>6, FollowingFacts DEF UsernamePrompt, PasswordPrompt
  <2>2. shell' = "none"
    BY <2>1 DEF StartTypeOK
  <2> QED BY <2>1, <2>2 DEF StartTypeOK, ProfileAsNamed
<1>7. CASE Shell
  <2>1. UNCHANGED <<stage, commandLine, file, profile, username, password, otp>>
    BY <1>7 DEF Shell, Forks, ShellEnds, ShellKilled, ChildEnds
  <2>2. /\ shell' \in {"none", "runs", "ok", "failed"} /\ child' \in BOOLEAN
        /\ shell' # "none" => shell # "none"
        /\ child' => shell' # "none"
    BY <1>7 DEF Shell, Forks, ShellEnds, ShellKilled, ChildEnds, StartTypeOK
  <2>3. Needed(stage)' <=> Needed(stage)
    BY <2>1 DEF Needed, PasswordCmd, OtpCmd, HasCookieAuth, CookieName, Coalesce
  <2> QED BY <2>1, <2>2, <2>3 DEF StartTypeOK, ProfileAsNamed
<1> QED BY <1>1, <1>2, <1>3, <1>4, <1>5, <1>6, <1>7 DEF Prepare, Preparing

\* So do the steps after it.
LEMMA StartStep ==
  ASSUME StartInv, [CommandNext]_commandVars
  PROVE  StartInv'
<1>1. CASE EnterRun
  <2>1. /\ stage = "ready" /\ stage' = "run" /\ UNCHANGED <<shell, child>>
        /\ commandLine' = NoCommandLine /\ file' = NoFile /\ profile' = NoProfile
    BY <1>1 DEF EnterRun, CallRun
  <2> QED BY <2>1 DEF StartInv, StartTypeOK, ProfileAsNamed, Commands, Prompts
<1>2. CASE UNCHANGED startVars
  <2>1. UNCHANGED <<stage, commandLine, file, profile, username, password, otp, shell, child>>
    BY <1>2 DEF startVars
  <2>2. Needed(stage)' <=> Needed(stage)
    BY <2>1 DEF Needed, PasswordCmd, OtpCmd, HasCookieAuth, CookieName, Coalesce
  <2> QED BY <2>1, <2>2 DEF StartInv, StartTypeOK, ProfileAsNamed
<1>3. ~Prepare /\ ~EnterRun => UNCHANGED startVars
  BY DEF CommandNext, ReturnEarly, Step, EndSession, Decide, Interrupt, CommandStopped, commandVars
<1> QED BY <1>1, <1>2, <1>3, PrepareStep

-----------------------------------------------------------------------------
(* Theorems.                                                               *)

\* Before the first step.
LEMMA CommandInitFacts ==
  ASSUME CommandInit
  PROVE  Init /\ ClientInv /\ SessionsNeedTotp /\ OtpSpent /\ NameBeforePassword
<1> USE DEF CommandInit
<1>1. Init OBVIOUS
<1>2. ClientInv
  BY DEF ClientInit, ClientInv, GatewayAgrees, LoggedInCalls, CredentialsByCall,
         CredentialsInOrder, ChallengeInHand
<1>3. SessionsNeedTotp /\ OtpSpent BY DEF Init, ClientInit, SessionsNeedTotp, OtpSpent
<1>4. NameBeforePassword BY DEF StartInit, NameBeforePassword
<1> QED BY <1>1, <1>2, <1>3, <1>4

\* The command implements the loop of run: sessions that log in, are challenged
\* and fail in every way the client and the gateway can, after whatever start,
\* make it do nothing that RunLoop does not.
THEOREM ImplementsRunLoop == CommandSpec => Spec
<1>1. CommandInit => Init BY CommandInitFacts
<1>2. [CommandNext]_commandVars => [Next]_vars BY CommandStep
<1> QED BY <1>1, <1>2, PTL DEF CommandSpec, Spec

\* What is proved of the loop holds of the command (run, connect.go:409-473).
THEOREM LoopInCommand ==
  CommandSpec => [](TypeOK /\ BackoffSchedule /\ NeverGivesUpLater)
  BY ImplementsRunLoop, TypeCorrect, WaitsOnSchedule, KeepsReconnecting, PTL

\* Only generated codes answer the challenges of a reconnect (connect.go:424).
THEOREM ReconnectsAlone == CommandSpec => []ReconnectNeedsNoUser
<1>1. CommandSpec => []TypeOK BY ImplementsRunLoop, TypeCorrect, PTL
<1>2. CommandInit => SessionsNeedTotp BY CommandInitFacts
<1>3. TypeOK /\ SessionsNeedTotp /\ [CommandNext]_commandVars => SessionsNeedTotp'
  BY TotpStep
<1>4. SessionsNeedTotp => ReconnectNeedsNoUser
  BY DEF SessionsNeedTotp, ReconnectNeedsNoUser
<1> QED BY <1>1, <1>2, <1>3, <1>4, PTL DEF CommandSpec

\* What is good for one login is used for one: the one-time password of the command
\* line meets one challenge at most, however often the gateway asks, so that its
\* callback never refuses (connect.go:589); the cookie goes to the first session
\* (connect.go:432).
THEOREM SingleUse == CommandSpec => []SingleUseOnce
<1>1. CommandSpec => []TypeOK BY ImplementsRunLoop, TypeCorrect, PTL
<1>2. CommandInit => SessionsNeedTotp /\ OtpSpent BY CommandInitFacts
<1>3. TypeOK /\ SessionsNeedTotp /\ [CommandNext]_commandVars => SessionsNeedTotp'
  BY TotpStep
<1>4. TypeOK /\ SessionsNeedTotp /\ OtpSpent /\ [CommandNext]_commandVars => OtpSpent'
  BY OtpStep
<1>5. OtpSpent => OtpAskedOnce BY DEF OtpSpent, OtpAskedOnce
<1>6. CommandSpec => []OtpAskedOnce
  BY <1>1, <1>2, <1>3, <1>4, <1>5, PTL DEF CommandSpec
<1>7. CommandSpec => []CookieUsedOnce BY ImplementsRunLoop, CookieOnlyOnce, PTL
<1>8. OtpAskedOnce /\ CookieUsedOnce => SingleUseOnce BY DEF SingleUseOnce
<1> QED BY <1>6, <1>7, <1>8, PTL

\* The three invariants of the client hold over all sessions.
LEMMA ClientCorrect == CommandSpec => []ClientInv
<1>1. CommandInit => ClientInv BY CommandInitFacts
<1>2. ClientInv /\ [CommandNext]_commandVars => ClientInv' BY ClientInvStep
<1> QED BY <1>1, <1>2, PTL DEF CommandSpec

\* A token in the client's hands stands for a session at the gateway (Login,
\* parseLoginOrChallenge), and runSession leaves none behind, on no path, but for
\* one whose login's reply or whose logout got lost (connect.go:496).
THEOREM GatewayMatches == CommandSpec => []SessionsMatch
<1>1. ClientInv => SessionsMatch
  BY DEF ClientInv, GatewayAgrees, LoggedInCalls, LoggedInWhenGranted,
         NothingLeftAtGateway, SessionsMatch
<1> QED BY ClientCorrect, <1>1, PTL

\* No login submits a second code, or a password nobody asked for (auth.go:141-274),
\* and its code answers the challenge that was posed last (auth.go:237).
THEOREM LoginsInOrder == CommandSpec => []LoginInOrder
<1>1. ClientInv => LoginInOrder
  BY DEF ClientInv, CredentialsByCall, ChallengeInHand, AnswersPosedChallenge,
         LoginInOrder
<1> QED BY ClientCorrect, <1>1, PTL

\* Whatever was given, typed or printed by commands, run is called with a user
\* name, if not with a password, or with a cookie (connect.go:227-257).
THEOREM CredentialsComplete == CommandSpec => []ReadyHasCredentials
<1>1. CommandInit => NameBeforePassword BY CommandInitFacts
<1>2. NameBeforePassword /\ [CommandNext]_commandVars => NameBeforePassword' BY NameStep
<1>3. NameBeforePassword => ReadyHasCredentials
  BY DEF NameBeforePassword, ReadyHasCredentials
<1> QED BY <1>1, <1>2, <1>3, PTL DEF CommandSpec

\* The start of the program keeps its invariant.
LEMMA StartCorrect == CommandSpec => []StartInv
<1>1. CommandInit => StartInv
  BY DEF CommandInit, StartInit, StartInv, StartTypeOK, ProfileAsNamed
<1>2. StartInv /\ [CommandNext]_commandVars => StartInv' BY StartStep
<1> QED BY <1>1, <1>2, PTL DEF CommandSpec

\* Every variable of the command keeps its type; a shell runs only for a command of
\* the start, and nobody is left to write to the output of a command that is over
\* (runShellCmd).
THEOREM CommandTypeCorrect == CommandSpec => []CommandTypeOK
<1>1. CommandSpec => []TypeOK BY ImplementsRunLoop, TypeCorrect, PTL
<1>2. StartInv => StartTypeOK BY DEF StartInv
<1>3. CommandInit => ClientTypeOK
  <2> SUFFICES ASSUME ClientInit PROVE ClientTypeOK BY DEF CommandInit
  <2>1. /\ call = "idle" /\ callback = "none" /\ otpUsed = FALSE /\ otpAsked = 0
        /\ token = "" /\ prelogin = "none" /\ live = "no"
        /\ inputStr \in InputStrs /\ posed \in InputStrs
        /\ sent = <<>>
    BY DEF ClientInit, InputStrs
  <2> QED BY <2>1, FirstCredential DEF ClientTypeOK
<1>4. ClientTypeOK /\ [CommandNext]_commandVars => ClientTypeOK' BY ClientTypeStep
<1>5. TypeOK /\ StartTypeOK /\ ClientTypeOK => CommandTypeOK BY DEF CommandTypeOK
<1> QED BY StartCorrect, <1>1, <1>2, <1>3, <1>4, <1>5, PTL DEF CommandSpec

\* Which settings win: of several profiles the one that the flag or the file names
\* (loadConfigFile, connect.go:326), and over the number in it the flag's default
\* (connect.go:275).
THEOREM SettingsWin == CommandSpec => []SettingsInUse
<1>1. StartInv => SettingsInUse
  BY DEF StartInv, SettingsInUse, FileNumberNeedsZeroFlag, CacheSize, CoalesceInt,
         DefaultCacheSize
<1> QED BY StartCorrect, <1>1, PTL

\* The DNS servers of both families are used, in the order the gateway names them
\* and each of them once (parseConfigResponse, config.go:161).
THEOREM DnsServersMerged == CommandSpec => []DnsServersOnce
<1>1. CommandInit => DnsServersOnce
  BY DEF CommandInit, ClientInit, DnsServersOnce
<1>2. DnsServersOnce /\ [CommandNext]_commandVars => DnsServersOnce'
  <2> SUFFICES ASSUME DnsServersOnce, [CommandNext]_commandVars PROVE DnsServersOnce'
    OBVIOUS
  <2>1. ASSUME NEW body \in ConfigBodies, GetConfig(body) PROVE DnsServersOnce'
    BY <2>1, ParsedOnce DEF GetConfig
  <2>2. CASE config' = NoConfig BY <2>2 DEF DnsServersOnce
  <2>3. CASE UNCHANGED config BY <2>3 DEF DnsServersOnce
  <2>4. CASE Step
    <3>1. CASE Configure BY <2>1, <2>3, <3>1 DEF Configure, GetConfigFails
    <3>2. CASE ~Configure
      <4>1. CASE Begin \/ Prelogin
        BY <2>3, <4>1 DEF Begin, LoginWithCookie, Login, Prelogin, PreloginFails,
                          PreloginSaml, SubmitPassword, LoginReturnsError
      <4>2. CASE LoginReply
        BY <2>3, <4>2 DEF LoginReply, LoginFails, LoginError, LoggedIn, Challenged,
                          SecondChallenge
      <4>3. CASE Input \/ InputCanceled(ctxDone)
        BY <2>3, <4>3 DEF Input, TotpInput, OtpInput, UserInput, InputFails,
                          InputCanceled, SubmitCode, LoginReturnsError
      <4>4. CASE SessionEnds \/ Logout BY <2>3, <4>4 DEF SessionEnds, Logout
      <4> QED BY <2>4, <3>2, <4>1, <4>2, <4>3, <4>4 DEF Step, ClientStep
    <3> QED BY <3>1, <3>2
  <2>5. CASE EndSession BY <2>2, <2>5 DEF EndSession, Return
  <2>6. CASE EnterRun BY <2>3, <2>6 DEF EnterRun
  <2> QED BY <2>3, <2>4, <2>5, <2>6, OutsideSession DEF clientVars
<1> QED BY <1>1, <1>2, PTL DEF CommandSpec

\* The sessions, one after the other, are to the gateway what SessionLife says:
\* none begins before the last one was logged out or refused.
THEOREM SessionsImplementLife == CommandSpec => SessionLifeSpec
<1>1. CommandInit => Abstract!Init
  BY DEF CommandInit, ClientInit, Abstract!Init, Life
<1>2. [CommandNext]_commandVars => [Abstract!Next]_Life
  <2> SUFFICES ASSUME [CommandNext]_commandVars PROVE Life' = Life \/ Abstract!Next
    OBVIOUS
  <2>1. CASE ClientStep
    <3>1. \/ call = "idle" /\ call' \in {"prelogin", "login"}
          \/ call = "prelogin" /\ call' \in {"login", "done"}
          \/ call \in {"login", "challenge"} /\ call' \in {"input", "config", "done"}
          \/ call = "input" /\ call' \in {"challenge", "done"}
          \/ call = "config" /\ call' \in {"active", "logout"}
          \/ call = "active" /\ call' = "logout"
          \/ call = "logout" /\ call' = "done"
      <4>1. CASE Begin \/ Prelogin
        BY <4>1 DEF Begin, LoginWithCookie, Login, Prelogin, PreloginFails, PreloginSaml,
                    SubmitPassword, LoginReturnsError
      <4>2. CASE LoginReply
        BY <4>2 DEF LoginReply, LoginFails, LoginError, LoggedIn, Challenged,
                    SecondChallenge
      <4>3. CASE Input \/ InputCanceled(ctxDone)
        BY <4>3 DEF Input, TotpInput, OtpInput, UserInput, InputFails, InputCanceled,
                    SubmitCode, LoginReturnsError
      <4>4. CASE Configure \/ SessionEnds \/ Logout
        BY <4>4 DEF Configure, GetConfigFails, GetConfig, SessionEnds, Logout
      <4> QED BY <2>1, <4>1, <4>2, <4>3, <4>4 DEF ClientStep
    <3>2. \/ Life' = Life
          \/ Life = "over" /\ Life' = "login"
          \/ Life = "login" /\ Life' \in {"held", "over"}
          \/ Life = "held" /\ Life' \in {"configured", "closing"}
          \/ Life = "configured" /\ Life' = "closing"
          \/ Life = "closing" /\ Life' = "over"
      BY <3>1 DEF Life
    <3> QED BY <3>2 DEF Abstract!Next, Abstract!Steps
  <2>2. CASE Return
    <3>1. Life' = Life BY <2>2 DEF Return, Life
    <3> QED BY <3>1
  <2>3. CASE call' = call
    <3>1. Life' = Life BY <2>3 DEF Life
    <3> QED BY <3>1
  <2> QED BY <2>1, <2>2, <2>3
          DEF CommandNext, Prepare, EnterRun, ReturnEarly, Step, EndSession, Decide,
              Interrupt, CommandStopped, clientVars, commandVars
<1> QED BY <1>1, <1>2, PTL DEF CommandSpec, SessionLifeSpec, Abstract!Spec
=============================================================================
