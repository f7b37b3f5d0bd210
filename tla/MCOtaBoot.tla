----------------------------- MODULE MCOtaBoot -----------------------------
(* The two partitions and the blank word as model values.  The state space *)
(* is finite without any bound: power may be cut any number of times.      *)
EXTENDS OtaBoot
=============================================================================
