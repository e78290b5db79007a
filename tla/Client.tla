------------------------------- MODULE Client -------------------------------
(***************************************************************************)
(* The client of the gateway's HTTP protocol (pkg/gpst: auth.go, config.go) *)
(* as one session uses it: a login with the cookie or with the password, at *)
(* most one challenge on the way, the configuration, and the logout.        *)
(*                                                                         *)
(* A request that fails (transport, reading the body, a status other than   *)
(* 200, a reply that does not parse) is one step, whichever of these it is:  *)
(* the code returns an error in each case.  The gateway is not in src/; what *)
(* it may answer is a member of the sets of replies below.  Requests know    *)
(* neither timeout nor context.                                            *)
(*                                                                         *)
(* The module has no next-state relation of its own: Command composes the   *)
(* operations with the outer loop and with the start of the command.        *)
(***************************************************************************)
EXTENDS Naturals, Sequences, SequencesExt

CONSTANTS
  Cookies,     \* what the gateway issues as authcookie
  ArgLists,    \* argument lists of its login replies, as sequences
  DnsLists     \* lists of DNS servers in its configurations, as sequences

Placeholders == {"", "(null)", "-1"}   \* arguments that stand for nothing

ASSUME ClientAssumption ==
  /\ Cookies \cap Placeholders = {}
  /\ ArgLists \subseteq Seq(Cookies \cup Placeholders)
  /\ DnsLists \subseteq Seq(STRING)

VARIABLES
  call,      \* "idle", the reply that is awaited, "input" or "active", "done"
  callback,  \* InputCallback: "none" before run sets it
  otpUsed,   \* the one-time password of the command line has been given away
  inputStr,  \* of the challenge in hand
  token,     \* authcookie of the login; "" without one
  config,    \* VPNConfig; NoConfig without one
  prelogin,  \* history: this login's prelogin was answered with "form" or "saml"
  sent,      \* history: credentials this login has submitted, in order
  posed,     \* history: inputStr of the gateway's last challenge
  otpAsked,  \* history: challenges put to the command line's password
  live       \* gateway: it holds a session of ours: "no", "yes", or "left"
             \* (until the next login) when a logout or the reply to a login got lost

clientVars == <<call, callback, otpUsed, inputStr, token, config, prelogin,
                sent, posed, otpAsked, live>>

Callbacks == {"totp", "otp", "interactive"}
InputStrs == {"", "c1"}   \* "": the script leaves thisForm alone

NoConfig == [none |-> TRUE]

ClientInit ==
  /\ call = "idle" /\ callback = "none" /\ otpUsed = FALSE
  /\ inputStr = "" /\ token = "" /\ config = NoConfig
  /\ prelogin = "none" /\ sent = <<>> /\ posed = "" /\ otpAsked = 0
  /\ live = "no"

-----------------------------------------------------------------------------
(* What the gateway answers, and what the code makes of it.                *)

\* A login reply: a script that runs into respStatus (unset, "Challenge" or
\* anything else), that fails or runs for more than 10 s, or no script at all;
\* and, for the XML parser, a JNLP document or another one.
LoginBodies ==
  [script : {"none", "fails", "unset", "Challenge", "Error"},
   inputStr : InputStrs, jnlp : BOOLEAN, args : ArgLists]

\* The gateway logs in whom it sends a JNLP document with a cookie.
Grants(body) ==
  /\ body.script \notin {"Challenge", "Error"}
  /\ body.jnlp
  /\ Len(body.args) > 1 /\ body.args[2] \in Cookies

\* Mutant of Argument: placeholders are taken for values.
ArgumentVerbatim(args, i) == IF i < Len(args) THEN args[i + 1] ELSE ""

\* The i-th positional argument, counted from 0; "" for a placeholder.
Argument(args, i) ==
  IF i < Len(args) /\ args[i + 1] \notin Placeholders THEN args[i + 1] ELSE ""

IsChallenge(body) == body.script \notin {"none", "fails", "unset"}

\* "challenge", "cookie" or "error".
ParseLoginOrChallenge(body) ==
  IF IsChallenge(body)
    THEN IF body.script = "Challenge" THEN "challenge" ELSE "error"
    ELSE IF body.jnlp /\ Argument(body.args, 1) # "" THEN "cookie" ELSE "error"

\* A configuration reply, and whether it is one at all and has an address.
\* The defaults for what it leaves out (MTU, netmask, URL) are left out.
ConfigBodies ==
  [xml : BOOLEAN, status : {"success", "error"}, ip : BOOLEAN,
   dns : DnsLists, dnsv6 : DnsLists]

\* Mutant of MergeDNS: only the lists themselves are looked through.
MergeDNSPlain(dns, dnsv6) == SelectSeq(dns \o dnsv6, LAMBDA d : d # "")

MergeDNS(dns, dnsv6) ==
  LET all == dns \o dnsv6
      seen[i \in 0 .. Len(all)] ==
        IF i = 0 THEN <<>>
        ELSE IF all[i] = "" \/ Contains(seen[i - 1], all[i]) THEN seen[i - 1]
        ELSE Append(seen[i - 1], all[i])
  IN  seen[Len(all)]

ConfigRefused(body) == ~body.xml \/ body.status = "error" \/ ~body.ip

ParseConfigResponse(body) ==
  [dns |-> MergeDNS(body.dns, body.dnsv6), offered |-> body.dns \o body.dnsv6]

-----------------------------------------------------------------------------
(* Login.                                                                  *)

\* The login is over, with an error.
LoginReturnsError ==
  /\ call' = "done"
  /\ UNCHANGED <<callback, token, config, prelogin, posed, live>>

\* Login begins with the prelogin request; LoginWithCookie does without.
Login ==
  /\ call = "idle"
  /\ call' = "prelogin"
  /\ UNCHANGED <<callback, otpUsed, inputStr, token, config, prelogin, sent,
                 posed, otpAsked, live>>

LoginWithCookie ==
  /\ call = "idle"
  /\ call' = "login"
  /\ sent' = <<"cookie">>
  /\ UNCHANGED <<callback, otpUsed, inputStr, token, config, prelogin, posed,
                 otpAsked, live>>

PreloginFails ==
  /\ call = "prelogin"
  /\ LoginReturnsError
  /\ UNCHANGED <<otpUsed, inputStr, sent, otpAsked>>

\* The gateway wants SAML.
PreloginSaml ==
  /\ call = "prelogin"
  /\ prelogin' = "saml"
  /\ call' = "done"
  /\ UNCHANGED <<callback, otpUsed, inputStr, token, config, sent, posed,
                 otpAsked, live>>

\* The gateway wants a password; its status field is not looked at.
SubmitPassword ==
  /\ call = "prelogin"
  /\ prelogin' = "form"
  /\ call' = "login" /\ sent' = <<"password">>
  /\ UNCHANGED <<callback, otpUsed, inputStr, token, config, posed, otpAsked, live>>

\* The gateway may have logged us in before its reply got lost.
LoginFails ==
  /\ call \in {"login", "challenge"}
  /\ call' = "done"
  /\ live' \in {live, "left"}
  /\ UNCHANGED <<callback, otpUsed, inputStr, token, config, prelogin, sent,
                 posed, otpAsked>>

LoginError(body) ==
  /\ call \in {"login", "challenge"}
  /\ ParseLoginOrChallenge(body) = "error"
  /\ call' = "done"
  /\ live' = IF Grants(body) THEN "yes" ELSE live
  /\ UNCHANGED <<callback, otpUsed, inputStr, token, config, prelogin, sent,
                 posed, otpAsked>>

\* Logged in: GetConfig sends its request.
LoggedIn(body) ==
  /\ call \in {"login", "challenge"}
  /\ ParseLoginOrChallenge(body) = "cookie"
  /\ call' = "config"
  /\ token' = Argument(body.args, 1)
  /\ live' = IF Grants(body) THEN "yes" ELSE live
  /\ inputStr' = "" /\ posed' = ""
  /\ UNCHANGED <<callback, otpUsed, config, prelogin, sent, otpAsked>>

\* handleChallenge asks InputCallback.
Challenged(body) ==
  /\ call = "login"
  /\ ParseLoginOrChallenge(body) = "challenge"
  /\ call' = "input"
  /\ inputStr' = body.inputStr /\ posed' = body.inputStr
  /\ UNCHANGED <<callback, otpUsed, token, config, prelogin, sent, otpAsked, live>>

\* Mutant of SecondChallenge: it is handled like the first one.
SecondChallengeHandled(body) ==
  /\ call = "challenge"
  /\ ParseLoginOrChallenge(body) = "challenge"
  /\ call' = "input"
  /\ inputStr' = body.inputStr /\ posed' = body.inputStr
  /\ UNCHANGED <<callback, otpUsed, token, config, prelogin, sent, otpAsked, live>>

\* A challenge after a challenge ends the login.
SecondChallenge(body) ==
  /\ call = "challenge"
  /\ ParseLoginOrChallenge(body) = "challenge"
  /\ posed' = body.inputStr
  /\ call' = "done"
  /\ UNCHANGED <<callback, otpUsed, inputStr, token, config, prelogin, sent,
                 otpAsked, live>>

-----------------------------------------------------------------------------
(* InputCallback.                                                          *)

\* Mutant of SubmitCode: the inputStr of the challenge is not sent back.
SubmitCodeAlone ==
  /\ call = "input"
  /\ call' = "challenge"
  /\ sent' = Append(sent, "code")
  /\ inputStr' = ""
  /\ UNCHANGED <<callback, token, config, prelogin, posed, live>>

\* The login is submitted again, with the code and the challenge's inputStr.
SubmitCode ==
  /\ call = "input"
  /\ call' = "challenge"
  /\ sent' = Append(sent, "code")
  /\ UNCHANGED <<callback, inputStr, token, config, prelogin, posed, live>>

TotpInput ==
  /\ callback = "totp"
  /\ SubmitCode
  /\ UNCHANGED <<otpUsed, otpAsked>>

\* The one-time password of the command line answers once; asked again, the
\* callback returns an error.
OtpInput ==
  /\ call = "input" /\ callback = "otp"
  /\ otpUsed' = TRUE /\ otpAsked' = otpAsked + 1
  /\ IF otpUsed THEN LoginReturnsError /\ UNCHANGED <<inputStr, sent>>
                ELSE SubmitCode

UserInput ==
  /\ callback = "interactive"
  /\ SubmitCode
  /\ UNCHANGED <<otpUsed, otpAsked>>

\* The secret is not base32, or the user aborts the prompt.
InputFails ==
  /\ call = "input" /\ callback \in {"totp", "interactive"}
  /\ LoginReturnsError
  /\ UNCHANGED <<otpUsed, inputStr, sent, otpAsked>>

\* Mutant of InputCanceled: the prompt is made without a context.
InputNeverCanceled(done) == FALSE

\* The prompt ends with the context it was made with.
InputCanceled(done) ==
  /\ call = "input" /\ callback = "interactive"
  /\ done
  /\ LoginReturnsError
  /\ UNCHANGED <<otpUsed, inputStr, sent, otpAsked>>

-----------------------------------------------------------------------------
(* After the login.                                                        *)

\* Mutant of GetConfigFails: the logout is deferred too late.
GetConfigFailsHard ==
  /\ call = "config"
  /\ call' = "done"
  /\ token' = ""
  /\ UNCHANGED <<callback, otpUsed, inputStr, config, prelogin, sent, posed,
                 otpAsked, live>>

\* The request fails, or the reply is refused: the deferred Logout runs.
GetConfigFails ==
  /\ call = "config"
  /\ call' = "logout"
  /\ UNCHANGED <<callback, otpUsed, inputStr, token, config, prelogin, sent,
                 posed, otpAsked, live>>

GetConfig(body) ==
  /\ call = "config"
  /\ ~ConfigRefused(body)
  /\ call' = "active"
  /\ config' = ParseConfigResponse(body)
  /\ UNCHANGED <<callback, otpUsed, inputStr, token, prelogin, sent, posed,
                 otpAsked, live>>

\* The rest of runSession is over, however it ended.
SessionEnds ==
  /\ call = "active"
  /\ call' = "logout"
  /\ UNCHANGED <<callback, otpUsed, inputStr, token, config, prelogin, sent,
                 posed, otpAsked, live>>

\* The status of the reply is not looked at, an error is only logged.
Logout ==
  /\ call = "logout"
  /\ call' = "done"
  /\ token' = ""
  /\ live' \in {"no", "left"}
  /\ UNCHANGED <<callback, otpUsed, inputStr, config, prelogin, sent, posed, otpAsked>>

\* runSession has returned.
Return ==
  /\ call = "done"
  /\ call' = "idle"
  /\ inputStr' = "" /\ config' = NoConfig
  /\ prelogin' = "none" /\ sent' = <<>> /\ posed' = ""
  /\ UNCHANGED <<callback, otpUsed, token, otpAsked, live>>

Prelogin == PreloginFails \/ PreloginSaml \/ SubmitPassword

LoginReply ==
  \/ LoginFails
  \/ \E body \in LoginBodies :
       LoginError(body) \/ LoggedIn(body) \/ Challenged(body) \/ SecondChallenge(body)

Input == TotpInput \/ OtpInput \/ UserInput \/ InputFails

Configure == GetConfigFails \/ \E body \in ConfigBodies : GetConfig(body)

-----------------------------------------------------------------------------
(* Properties.                                                             *)

\* Every variable keeps its type.
ClientTypeOK ==
  /\ call \in {"idle", "prelogin", "login", "input", "challenge", "config",
               "active", "logout", "done"}
  /\ callback \in Callbacks \cup {"none"}
  /\ otpUsed \in BOOLEAN /\ otpAsked \in Nat
  /\ inputStr \in InputStrs /\ posed \in InputStrs
  /\ token \in Cookies \cup {""}
  /\ prelogin \in {"none", "form", "saml"}
  /\ sent \in Seq({"cookie", "password", "code"})
  /\ live \in {"no", "yes", "left"}

\* "Static --otp values are single-use" (README.md:278): over all logins of the
\* process, the one-time password of the command line meets one challenge at
\* most.  Its callback never has to refuse (connect.go:590).
OtpAskedOnce == otpAsked <= 1

\* A code goes out together with the inputStr of the challenge it answers, never
\* with that of an earlier login and never alone.
AnswersPosedChallenge == call = "challenge" => inputStr = posed

\* One login submits the password or the cookie, once, and after it at most one
\* code; a password leaves only after a prelogin of this login that asked for it.
CredentialsInOrder ==
  /\ sent \in {<<>>, <<"cookie">>, <<"password">>, <<"cookie", "code">>,
               <<"password", "code">>}
  /\ sent # <<>> /\ sent[1] = "password" => prelogin = "form"

\* The client takes itself for logged in only with a cookie that the gateway
\* issued, while the gateway holds the session.
LoggedInWhenGranted == token # "" => token \in Cookies /\ live = "yes"

\* Between sessions the gateway holds none of ours, unless a login's reply or
\* the logout got lost.
NothingLeftAtGateway == call \in {"idle", "done"} => live # "yes"

\* What a login submits is in order and belongs together.
LoginInOrder == CredentialsInOrder /\ AnswersPosedChallenge

\* Client and gateway agree on the sessions.
SessionsMatch == LoggedInWhenGranted /\ NothingLeftAtGateway

\* None is lost, and one server comes before another only if the gateway has named
\* it before it named the other at all: so that none is there twice.
InOrderOnce(dns, offered) ==
  /\ ToSet(dns) = ToSet(offered) \ {""}
  /\ \A j \in 1 .. Len(dns) : \A i \in 1 .. j - 1 :
       \E k \in 1 .. Len(offered) :
         /\ offered[k] = dns[i]
         /\ \A l \in 1 .. k : offered[l] # dns[j]

\* The DNS servers of both families are used once each, in the order they came
\* in, and none is lost.
DnsServersOnce == config # NoConfig => InOrderOnce(config.dns, config.offered)
=============================================================================
