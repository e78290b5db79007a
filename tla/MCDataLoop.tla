----------------------------- MODULE MCDataLoop -----------------------------
(* Model-checking instance of DataLoop; the bounds are given by the cfgs.   *)
EXTENDS DataLoop
=============================================================================
