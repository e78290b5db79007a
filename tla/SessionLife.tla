----------------------------- MODULE SessionLife -----------------------------
(***************************************************************************)
(* What a session of runSession is to the gateway: a login, its            *)
(* configuration, the time in which it may be used, and a logout, which     *)
(* every session that was logged in gets unless the process is killed.      *)
(* Session implements it with the resources a session holds, Command with   *)
(* the requests it consists of, one session after the other.               *)
(***************************************************************************)

VARIABLE life   \* "over" (also before the first), "login", "held" (logged in),
                \* "configured", "closing" (its logout is due), "cut"

Steps ==
  { <<"over", "login">>,
    <<"login", "held">>, <<"login", "over">>,
    <<"held", "configured">>, <<"held", "closing">>,
    <<"configured", "closing">>,
    <<"closing", "over">>,
    <<"held", "cut">>, <<"configured", "cut">>, <<"closing", "cut">> }

Init == life \in {"over", "login"}

Next == <<life, life'>> \in Steps

Spec == Init /\ [][Next]_life
=============================================================================
