------------------------------ MODULE Startup ------------------------------
(***************************************************************************)
(* The start of the connect command (connect.go:151-276): the profile of    *)
(* the configuration file, the commands that print the password and the     *)
(* one-time password, the prompts.  It ends with the settings that run is    *)
(* called with, or with an error.                                          *)
(*                                                                         *)
(* A string is where it comes from, or "" when it is empty.  The two numeric *)
(* settings (port and cache size) are resolved alike; cacheSize stands for   *)
(* both.  The switches (insecure, no-dns, ...) are ors without consequence   *)
(* here and are left out.                                                  *)
(*                                                                         *)
(* Like Client, the module has no next-state relation of its own: Command   *)
(* composes it with the loop.                                              *)
(***************************************************************************)
EXTENDS Integers, Sequences

CONSTANTS
  CommandLines,     \* what the user may give; a flag not given has its default
  Files             \* configuration files

\* Of a file: a field left out is "" or 0.
Profile == [name : STRING, username : STRING, passwordCmd : STRING, otpCmd : STRING,
            totpSecret : STRING, cookieName : STRING, cacheSize : Int]

ASSUME StartAssumption == \A f \in Files : f.profiles \in Seq(Profile)

DefaultCacheSize == 512   \* the flag's

VARIABLES
  stage,        \* "config", a command or a prompt, "ready", "failed", "run"
  commandLine, file,
  profile,      \* the profile in use; NoProfile without a file
  username, password, otp,
  shell,        \* of the command under way: "none", "runs", "ok", "failed"
  child         \* a descendant of the shell holds its standard output

startVars == <<stage, commandLine, file, profile, username, password, otp,
               shell, child>>

NoProfile == [name |-> "", username |-> "", passwordCmd |-> "", otpCmd |-> "",
              totpSecret |-> "", cookieName |-> "", cacheSize |-> 0]

NoCommandLine == [config |-> FALSE]
NoFile == [readable |-> FALSE]

Commands == {"passwordCmd", "otpCmd"}
Prompts == {"username", "password"}

StartInit ==
  /\ stage = "config"
  /\ commandLine \in CommandLines /\ file \in Files
  /\ profile = NoProfile
  /\ username = "" /\ password = "" /\ otp = ""
  /\ shell = "none" /\ child = FALSE

-----------------------------------------------------------------------------
(* What is in use.                                                         *)

Coalesce(flag, field) == IF flag # "" THEN flag ELSE field

CoalesceInt(flag, field) == IF flag # 0 THEN flag ELSE field

PasswordCmd == Coalesce(commandLine.passwordCmd, profile.passwordCmd)
OtpCmd      == Coalesce(commandLine.otpCmd, profile.otpCmd)
TotpSecret  == Coalesce(commandLine.totpSecret, profile.totpSecret)
CookieName  == Coalesce(commandLine.cookieName, profile.cookieName)
CacheSize   == CoalesceInt(commandLine.cacheSize, profile.cacheSize)

HasCookieAuth == CookieName # "" /\ commandLine.cookieValue # ""

\* Mutant of CanReconnect: a password is taken to be enough.
CanReconnectPassword == password # ""

CanReconnect == password # "" /\ TotpSecret # ""

Callback == IF TotpSecret # "" THEN "totp"
            ELSE IF otp # "" THEN "otp" ELSE "interactive"

\* Mutant of ProfileName: the file's default goes first.
ProfileNameDefault == Coalesce(file.defaultProfile, commandLine.profile)

ProfileName == Coalesce(commandLine.profile, file.defaultProfile)

\* The profile loadConfigFile returns, in a set: none if it fails.  Of several
\* it is the first of that name, a single one is taken whatever its name is.
LoadConfigFile ==
  LET profiles == file.profiles
      named == {i \in DOMAIN profiles : ProfileName # "" /\ profiles[i].name = ProfileName}
  IN  IF ~file.readable THEN {}
      ELSE IF Len(profiles) = 1 THEN {profiles[1]}
      ELSE {profiles[i] : i \in {j \in named : \A k \in named : j <= k}}

\* Whether the stage has to do anything.
Needed(s) ==
  \/ s = "passwordCmd" /\ password = "" /\ PasswordCmd # ""
  \/ s = "otpCmd" /\ otp = "" /\ OtpCmd # ""
  \/ s = "username" /\ ~HasCookieAuth /\ username = ""
  \/ s = "password" /\ ~HasCookieAuth /\ password = ""

Following(s) == CASE s = "config"      -> "passwordCmd"
                  [] s = "passwordCmd" -> "otpCmd"
                  [] s = "otpCmd"      -> "username"
                  [] s = "username"    -> "password"
                  [] s = "password"    -> "ready"

-----------------------------------------------------------------------------
(* Steps of the command.                                                   *)

LoadConfig ==
  /\ stage = "config"
  /\ profile' \in IF commandLine.config THEN LoadConfigFile ELSE {NoProfile}
  /\ username' = Coalesce(commandLine.username, profile'.username)
  /\ password' = commandLine.password
  /\ otp' = commandLine.otp
  /\ stage' = Following(stage)
  /\ UNCHANGED <<commandLine, file, shell, child>>

LoadConfigFails ==
  /\ stage = "config"
  /\ commandLine.config /\ LoadConfigFile = {}
  /\ stage' = "failed"
  /\ UNCHANGED <<commandLine, file, profile, username, password, otp, shell, child>>

Skip ==
  /\ stage \in Commands \cup Prompts
  /\ ~Needed(stage)
  /\ stage' = Following(stage)
  /\ UNCHANGED <<commandLine, file, profile, username, password, otp, shell, child>>

\* runShellCmd: os/exec does not start a command whose context is done.
CommandStarts(done) ==
  /\ stage \in Commands /\ Needed(stage) /\ shell = "none"
  /\ shell' = IF done THEN "failed" ELSE "runs"
  /\ UNCHANGED <<stage, commandLine, file, profile, username, password, otp, child>>

\* Mutant of CommandReturns: it does not wait for whoever holds the output.
CommandReturnsEarly ==
  /\ stage \in Commands /\ shell \in {"ok", "failed"}
  /\ shell' = "none"
  /\ stage' = IF shell = "ok" THEN Following(stage) ELSE "failed"
  /\ UNCHANGED <<commandLine, file, profile, username, password, otp, child>>

\* Output returns when the shell has ended and nobody holds its output.
CommandReturns ==
  /\ stage \in Commands /\ shell \in {"ok", "failed"} /\ ~child
  /\ shell' = "none"
  /\ \/ /\ shell = "failed"
        /\ stage' = "failed"
        /\ UNCHANGED <<password, otp>>
     \/ /\ shell = "ok"
        /\ stage' = Following(stage)
        /\ \E out \in {"", "out"} :
             IF stage = "passwordCmd" THEN password' = out /\ UNCHANGED otp
                                      ELSE otp' = out /\ UNCHANGED password
  /\ UNCHANGED <<commandLine, file, profile, username, child>>

\* A prompt does not know the context.
UsernamePrompt ==
  /\ stage = "username" /\ Needed(stage)
  /\ \/ username' = "typed" /\ stage' = Following(stage)
     \/ stage' = "failed" /\ UNCHANGED username
  /\ UNCHANGED <<commandLine, file, profile, password, otp, shell, child>>

PasswordPrompt ==
  /\ stage = "password" /\ Needed(stage)
  /\ \/ password' \in {"", "typed"} /\ stage' = Following(stage)
     \/ stage' = "failed" /\ UNCHANGED password
  /\ UNCHANGED <<commandLine, file, profile, username, otp, shell, child>>

\* run is called; from here on command line and file are not looked at.
CallRun ==
  /\ stage = "ready"
  /\ stage' = "run"
  /\ commandLine' = NoCommandLine /\ file' = NoFile /\ profile' = NoProfile
  /\ UNCHANGED <<username, password, otp, shell, child>>

-----------------------------------------------------------------------------
(* The shell.                                                              *)

\* The shell leaves a process of its command behind, or ends.
Forks ==
  /\ shell = "runs" /\ ~child
  /\ child' = TRUE
  /\ UNCHANGED <<stage, commandLine, file, profile, username, password, otp, shell>>

ShellEnds ==
  /\ shell = "runs"
  /\ shell' \in {"ok", "failed"}
  /\ UNCHANGED <<stage, commandLine, file, profile, username, password, otp, child>>

\* Mutant of ShellKilled: the context has no timeout.
ShellKilledOnCancel(done) ==
  /\ shell = "runs"
  /\ done
  /\ shell' = "failed"
  /\ UNCHANGED <<stage, commandLine, file, profile, username, password, otp, child>>

\* After 10 s, or with the context, the shell is killed: not its descendants.
ShellKilled(done) ==
  /\ shell = "runs"
  /\ \E late \in BOOLEAN : late \/ done
  /\ shell' = "failed"
  /\ UNCHANGED <<stage, commandLine, file, profile, username, password, otp, child>>

ChildEnds ==
  /\ child
  /\ child' = FALSE
  /\ UNCHANGED <<stage, commandLine, file, profile, username, password, otp, shell>>

-----------------------------------------------------------------------------
(* Properties.                                                             *)

\* Every variable keeps its type; a shell runs only for a command, and its output
\* is taken only when nobody can write to it any more.
StartTypeOK ==
  /\ stage \in {"config", "ready", "failed", "run"} \cup Commands \cup Prompts
  /\ commandLine \in CommandLines \cup {NoCommandLine}
  /\ file \in Files \cup {NoFile}
  /\ profile \in {NoProfile} \cup UNION {{f.profiles[i] : i \in DOMAIN f.profiles} : f \in Files}
  /\ shell \in {"none", "runs", "ok", "failed"} /\ child \in BOOLEAN
  /\ shell # "none" => stage \in Commands
  /\ child => shell # "none"

\* run is called with a user name or with a cookie that has a name and a value
\* (connect.go:240: "either --username/--password or --cookie-name/--cookie-value
\* is required"), wherever the parts come from.  The password may be empty: the
\* prompt for it takes an empty answer (connect.go:244-256).
ReadyHasCredentials == stage = "ready" => username # "" \/ HasCookieAuth

\* "Profile selection priority: --profile flag -> default_profile field"
\* (README.md:194), as far as the code goes along: of several profiles the one
\* in use has the name the flag gives, or the file's without it; a single
\* profile is in use whatever the flag says.
ProfileAsNamed ==
  commandLine.config /\ stage \notin {"config", "failed", "run"} =>
    \/ Len(file.profiles) = 1
    \/ profile.name = IF commandLine.profile # "" THEN commandLine.profile
                                                  ELSE file.defaultProfile

\* A number of the file is in use only if the flag is given, as 0: without the
\* flag its default wins, so that the file changes nothing and 0 in the file
\* disables nothing.
FileNumberNeedsZeroFlag ==
  stage = "ready" =>
    /\ commandLine.cacheSize = DefaultCacheSize => CacheSize = DefaultCacheSize
    /\ commandLine.cacheSize = 0 => CacheSize = profile.cacheSize

\* Which settings win: the profile by its name, the number by the flag.
SettingsInUse == ProfileAsNamed /\ FileNumberNeedsZeroFlag

\* "10s timeout" (README.md:133): a command ends, by itself or by the timeout,
\* unless a descendant of its shell keeps its output open.
CommandsEnd == stage \in Commands ~> stage \notin Commands \/ child
=============================================================================
