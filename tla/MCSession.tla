------------------------------ MODULE MCSession ------------------------------
(* Model-checking instance of Session; the bound is given by the cfgs.      *)
EXTENDS Session
=============================================================================
