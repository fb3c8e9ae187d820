------------------------------ MODULE MCServicing ------------------------------
(***************************************************************************)
(* An instance of Servicing for TLC: two loans of two instalments.         *)
(***************************************************************************)
EXTENDS Servicing

MCDueDate == <<10, 40>>

\* Interest 2 and principal 1, then interest 1 and principal 2; no penalty is ever charged.
MCDue == [l \in Loan |-> <<0, 2, 1, 0, 1, 2>>]

===============================================================================
