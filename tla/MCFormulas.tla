------------------------------ MODULE MCFormulas ------------------------------
(***************************************************************************)
(* An hour of four units, two attempts, two users, a day of two seconds.   *)
(* A withdrawal counts one unit longer, and the pass runs at 3.            *)
(***************************************************************************)
EXTENDS Formulas

MCUntil(t) == t + 1
==============================================================================
