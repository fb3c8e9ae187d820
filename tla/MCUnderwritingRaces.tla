-------------------------- MODULE MCUnderwritingRaces --------------------------
(***************************************************************************)
(* Instances of UnderwritingRaces for TLC: one application, two threads.   *)
(***************************************************************************)
EXTENDS UnderwritingRaces
===============================================================================
