------------------------------- MODULE Servicing -------------------------------
(***************************************************************************)
(* Repayments and the nightly pass over booked loans: record_repayment and *)
(* refresh_position of LoanService (app/services/loan.py), run_dpd_update  *)
(* and run_classification_update of ServicingJobService                    *)
(* (app/services/servicing_jobs.py), over the tables they write.           *)
(*                                                                         *)
(* Requests run one at a time here, each a single step; ServicingRaces     *)
(* lets them overlap.  A request that is refused, or that replays an       *)
(* earlier receipt, changes nothing and is no step.                        *)
(***************************************************************************)
EXTENDS LoanPosition

CONSTANT MaxReceipts   \* bound: repayments recorded

VARIABLES
    paid,      \* paid[l]: repayment_schedules' penalty_paid, interest_paid and principal_paid
    rows,      \* rows[l][i]: days_past_due and status of each schedule row
    loan,      \* loan[l]: the loans row, its servicing columns
    receipts   \* the repayments table, in the order of its receipt numbers

vars == <<paid, rows, loan, receipts>>

TypeOK ==
    /\ paid \in [Loan -> Money]
    /\ rows \in [Loan -> [Installment -> ScheduleRow]]
    /\ loan \in [Loan -> LoanRow]
    /\ receipts \in Seq(Repayment)

\* Every loan as book_loan leaves it.
Init ==
    /\ paid = [l \in Loan |-> NothingPaid]
    /\ rows = [l \in Loan |-> BookedRows]
    /\ loan = [l \in Loan |-> BookedLoan(l)]
    /\ receipts = << >>

-------------------------------------------------------------------------------
(* Repayments.                                                             *)

ReceiptFor(l, key) ==
    {n \in DOMAIN receipts : receipts[n].loan = l /\ receipts[n].idempotency_key = key}

\* Faulty variant: the key is never looked up.
AnswerAnew(l, key) == IF loan[l].status \in CLOSED_STATUSES THEN "conflict" ELSE "post"

\* How a request with this key is answered.  The key is looked up on the loan it is sent for;
\* uq_repay_idem refuses it (500, rolled back) when another loan has used it.
Answer(l, key) ==
    IF loan[l].status \in CLOSED_STATUSES THEN "conflict"
    ELSE IF key # NoKey /\ ReceiptFor(l, key) # {} THEN "replay"
    ELSE IF key # NoKey /\ \E m \in Loan : ReceiptFor(m, key) # {} THEN "refused"
    ELSE "post"

\* Faulty variant: the columns are set to this payment's share instead of raised by it.
RecordRepaymentAfresh(l, amount, date, key) ==
    LET allocation == AllocatePayment(amount, Owed(Due[l], paid[l]))
        now == [k \in Slot |-> IF allocation.taken[k] > 0 THEN allocation.taken[k]
                               ELSE paid[l][k]]
    IN  /\ Answer(l, key) = "post"
        /\ Len(receipts) < MaxReceipts
        /\ paid' = [paid EXCEPT ![l] = now]
        /\ rows' = [rows EXCEPT ![l] = RefreshedRows(l, now, date)]
        /\ loan' = [loan EXCEPT ![l] = RefreshedLoan(l, @, now, date)]
        /\ receipts' = Append(receipts, Receipt(l, amount, allocation, key))

\* The payment date is the caller's; the position is taken as of that date.
RecordRepayment(l, amount, date, key) ==
    LET allocation == AllocatePayment(amount, Owed(Due[l], paid[l]))
        now == [k \in Slot |-> paid[l][k] + allocation.taken[k]]
    IN  /\ Answer(l, key) = "post"
        /\ Len(receipts) < MaxReceipts
        /\ paid' = [paid EXCEPT ![l] = now]
        /\ rows' = [rows EXCEPT ![l] = RefreshedRows(l, now, date)]
        /\ loan' = [loan EXCEPT ![l] = RefreshedLoan(l, @, now, date)]
        /\ receipts' = Append(receipts, Receipt(l, amount, allocation, key))

-------------------------------------------------------------------------------
(* The nightly pass.                                                       *)

ActiveLoans == {l \in Loan : loan[l].status = "ACTIVE"}

\* Arrears, then classification from the arrears just stored, for any business date an operator
\* may ask for.  A job that fails takes the whole pass back with it.
RunNightly(asOf) ==
    /\ rows' = [l \in Loan |->
          IF l \in ActiveLoans THEN RefreshedRows(l, paid[l], asOf) ELSE rows[l]]
    /\ loan' = [l \in Loan |->
          IF l \in ActiveLoans THEN Reclassified(RefreshedLoan(l, loan[l], paid[l], asOf))
          ELSE loan[l]]
    /\ UNCHANGED <<paid, receipts>>

Next ==
    \/ \E l \in Loan, amount \in Amount, date \in Date, key \in Key \cup {NoKey} :
          RecordRepayment(l, amount, date, key)
    \/ \E asOf \in Date : RunNightly(asOf)

Spec == Init /\ [][Next]_vars
-------------------------------------------------------------------------------
(* Safety.                                                                 *)

\* record_repayment: what the receipts say was applied to penalty, interest and principal is
\* what the schedule shows as paid; nothing is applied twice or lost.
PaymentsAccounted ==
    \A l \in Loan : \A b \in Components : Received(receipts, l, b) = Component(paid[l], b)

\* allocate_payment: money is left over only when every instalment is settled.  So an advance
\* is the payment that closes its loan, and no receipt follows it.
ExcessOnlyAtTheEnd ==
    \A n \in DOMAIN receipts :
        /\ Excess(receipts[n]) >= 0
        /\ receipts[n].is_advance <=> Excess(receipts[n]) > 0
        /\ receipts[n].is_advance =>
             /\ loan[receipts[n].loan].status = "CLOSED"
             /\ \A m \in DOMAIN receipts : receipts[m].loan = receipts[n].loan => m <= n

\* allocate_payment: "paying a newer instalment before an older one would understate arrears",
\* and principal before interest would reduce the interest owed.  Over any number of payments,
\* a slot has received money only if every slot before it is full.
OldestFirst ==
    \A l \in Loan : \A j, k \in Slot :
        j < k /\ paid[l][k] > 0 => paid[l][j] = Due[l][j]

\* allocate_payment: no slot receives more than it owes.
NeverOverpaid == \A l \in Loan : \A k \in Slot : paid[l][k] <= Due[l][k]

\* refresh_position: a loan is CLOSED exactly when everything on its schedule has been paid.
ClosedExactlyWhenSettled ==
    \A l \in Loan :
        loan[l].status = "CLOSED" <=> \A k \in Slot : paid[l][k] = Due[l][k]

\* loan_position: "one function so the nightly job cannot compute DPD from one reading of the
\* schedule and classification from another".  Whatever dates the last payment and the last
\* pass were made for, the stored columns tell one story, with each other and with the rows.
PositionCoherent ==
    \A l \in Loan :
        LET s == loan[l]
        IN  /\ s.outstanding_principal + Received(receipts, l, "principal") = Component(Due[l], "principal")
            /\ s.total_paid = Component(paid[l], "interest") + Component(paid[l], "principal")
                                + Component(paid[l], "penalty")
            /\ s.installments_paid = Cardinality({i \in Installment : rows[l][i].status = "PAID"})
            /\ s.days_past_due = Max({rows[l][i].days_past_due : i \in Installment})
            /\ s.installments_overdue =
                 Cardinality({i \in Installment : rows[l][i].days_past_due > 0})
            /\ s.overdue_amount > 0 <=> s.days_past_due > 0
            /\ s.classification = "PERFORMING" <=> s.days_past_due = 0
            /\ s.classification = "LOSS" <=> s.days_past_due > 180

\* "No payment can be posted to a CLOSED loan", and the nightly pass leaves it alone.
ClosedIsFinal ==
    [][\A l \in Loan : loan[l].status = "CLOSED" =>
          /\ paid'[l] = paid[l] /\ rows'[l] = rows[l] /\ loan'[l] = loan[l]
          /\ \A n \in DOMAIN receipts' \ DOMAIN receipts : receipts'[n].loan # l]_vars

\* The receivable as the tables show it.
balance == [l \in Loan |-> Total(Owed(Due[l], paid[l]), Slots)]

credit == [l \in Loan |->
    Total([n \in DOMAIN receipts |-> IF receipts[n].loan = l THEN Excess(receipts[n]) ELSE 0],
          Len(receipts))]

honoured == [k \in Key |->
    Total([n \in DOMAIN receipts |-> IF receipts[n].idempotency_key = k THEN 1 ELSE 0],
          Len(receipts))]

Contract == INSTANCE Receivable WITH
    Owing <- [l \in Loan |-> Total(Due[l], Slots)], open <- ActiveLoans

\* The schedule, its rows, dates and receipts implement a sum to be received.
ImplementsReceivable == Contract!Spec

-------------------------------------------------------------------------------
(* What the documents say and the code does not do.                        *)

\* The endpoint: "a repeated key returns the original receipt without posting again".
RetryIsAnswered ==
    \A n \in DOMAIN receipts :
        receipts[n].idempotency_key # NoKey =>
          Answer(receipts[n].loan, receipts[n].idempotency_key) = "replay"
===============================================================================
