----------------------------- MODULE MCCommand -----------------------------
(* Model-checking instance of Command: what a user may give on the command  *)
(* line and keep in the file, and what the gateway may answer.              *)
EXTENDS Command

AnyError == {"nil", "error"}

NoFlags == [config |-> FALSE, profile |-> "", username |-> "", password |-> "",
            passwordCmd |-> "", otp |-> "", otpCmd |-> "", totpSecret |-> "",
            cookieName |-> "", cookieValue |-> "", cacheSize |-> DefaultCacheSize]

FromFile == [NoFlags EXCEPT !.config = TRUE]

MCCommandLines ==
  { NoFlags,
    [NoFlags EXCEPT !.username = "flag", !.passwordCmd = "flag", !.otp = "flag"],
    [NoFlags EXCEPT !.username = "flag", !.password = "flag", !.otpCmd = "flag"],
    [NoFlags EXCEPT !.cookieName = "flag", !.cookieValue = "flag", !.password = "flag",
                    !.totpSecret = "flag"],
    FromFile,
    [FromFile EXCEPT !.profile = "lab", !.cacheSize = 0],
    [FromFile EXCEPT !.profile = "none", !.otp = "flag", !.cookieValue = "flag"] }

Work == [name |-> "work", username |-> "file", passwordCmd |-> "file", otpCmd |-> "",
         totpSecret |-> "file", cookieName |-> "", cacheSize |-> 64]
Lab  == [NoProfile EXCEPT !.name = "lab", !.otpCmd = "file", !.cookieName = "file"]

MCFiles ==
  { [readable |-> FALSE, defaultProfile |-> "", profiles |-> <<>>],
    [readable |-> TRUE, defaultProfile |-> "", profiles |-> <<Lab>>],
    [readable |-> TRUE, defaultProfile |-> "", profiles |-> <<Work, Lab>>],
    [readable |-> TRUE, defaultProfile |-> "work", profiles |-> <<Lab, Work>>] }

MCArgLists == { <<"", "ck">>, <<"", "(null)">>, <<"">> }
MCDnsLists == { <<"", "d1">>, <<"d2", "d1">> }
=============================================================================
