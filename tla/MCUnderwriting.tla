---------------------------- MODULE MCUnderwriting ----------------------------
(***************************************************************************)
(* Instances of Underwriting for TLC.  Prices and caps are chosen so that  *)
(* a half falls on a ceiling (50.00 % of 9 is 4.5, kept to 4), a sum may   *)
(* meet the ceiling, pass it, or reach the price of the cheaper vehicle.   *)
(***************************************************************************)
EXTENDS Underwriting

CONSTANTS dear, cheap

MCVehicle == {dear, cheap}
MCPrice == [v \in Vehicle |-> IF v = dear THEN 9 ELSE 4]
MCAmount == {0, 4, 5}
MCLtv == {5000, 7500}
===============================================================================
