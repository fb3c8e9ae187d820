--------------------------- MODULE MCServicingRaces ---------------------------
(***************************************************************************)
(* An instance of ServicingRaces for TLC: one loan of two instalments, two *)
(* threads.                                                                *)
(***************************************************************************)
EXTENDS ServicingRaces

MCDueDate == <<10, 40>>

MCDue == [l \in Loan |-> <<0, 1, 1, 0, 1, 1>>]
===============================================================================
