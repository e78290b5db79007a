------------------------------ MODULE MCRunLoop ------------------------------
(* Model-checking instance of RunLoop as it is used by a runSession that     *)
(* always returns an error.                                                 *)
EXTENDS RunLoop

RealError == {"error"}
=============================================================================
