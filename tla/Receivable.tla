------------------------------ MODULE Receivable ------------------------------
(***************************************************************************)
(* What servicing promises about money, without schedules or dates: a loan *)
(* is a sum to be received.  A payment reduces it by exactly its amount,   *)
(* down to nothing; what exceeds it is held to the borrower's credit; the  *)
(* loan ends when nothing is left, and takes no payment after that.  A     *)
(* payment that carries a key is taken once.                               *)
(***************************************************************************)
EXTENDS Integers

CONSTANTS
    Loan,
    Owing,    \* Owing[l]: principal and interest together, when the loan is booked
    Amount,   \* amounts a borrower can pay
    Key, NoKey

VARIABLES
    balance,   \* balance[l]: still to be received
    credit,    \* credit[l]: received beyond what was owed
    open,      \* loans still running
    honoured   \* honoured[k]: payments taken under key k

vars == <<balance, credit, open, honoured>>

Init ==
    /\ balance = Owing
    /\ credit = [l \in Loan |-> 0]
    /\ open = Loan
    /\ honoured = [k \in Key |-> 0]

Pay(l, amount, key) ==
    /\ l \in open
    /\ key # NoKey => honoured[key] = 0
    /\ balance' = [balance EXCEPT ![l] = IF amount <= @ THEN @ - amount ELSE 0]
    /\ credit' = [credit EXCEPT ![l] = IF amount <= balance[l] THEN @ ELSE @ + amount - balance[l]]
    /\ open' = IF amount < balance[l] THEN open ELSE open \ {l}
    /\ honoured' = [k \in Key |-> IF k = key THEN honoured[k] + 1 ELSE honoured[k]]

Next == \E l \in Loan, amount \in Amount, key \in Key \cup {NoKey} : Pay(l, amount, key)

Spec == Init /\ [][Next]_vars
===============================================================================
