----------------------------- MODULE LoanPosition -----------------------------
(***************************************************************************)
(* The rows servicing keeps for a loan, as they are booked and as          *)
(* refresh_position and record_repayment (app/services/loan.py) compute    *)
(* them.                                                                   *)
(*                                                                         *)
(* loans.risk_status, which the alert rules overwrite, is left out, and so *)
(* are paid_date, days_late and a row's total_paid, which no handler reads.*)
(***************************************************************************)
EXTENDS RepaymentSchedule

CONSTANTS
    Loan,         \* the loans booked
    Due,          \* Due[l]: what each slot of the loan's schedule owes
    Amount,       \* amounts that can be paid
    Date,         \* payment dates and business dates
    Key,          \* idempotency keys
    NoKey         \* a payment sent without one

\* Every instalment owes something (ck_sched_amounts); record_repayment refuses an amount <= 0.
ASSUME DueAssumption ==
    /\ Due \in [Loan -> Money]
    /\ \A l \in Loan : \A i \in Installment : RowSum(Due[l], i) > 0
ASSUME AmountAssumption == Amount \subseteq Nat \ {0}
ASSUME DateAssumption == Date \subseteq Nat
ASSUME KeyAssumption == NoKey \notin Key

ScheduleRow == [days_past_due : Nat, status : {"PENDING", "PARTIAL", "OVERDUE", "PAID"}]

\* FORECLOSED and WRITTEN_OFF exist in the schema; nothing in the code writes them.
LoanRow == [status : {"ACTIVE", "CLOSED"}, days_past_due : Nat, overdue_amount : Nat,
            outstanding_principal : Nat, total_paid : Nat, installments_paid : Nat,
            installments_overdue : Nat, classification : Classification]

Repayment == [loan : Loan, amount_paid : Amount, penalty : Nat, interest : Nat,
              principal : Nat, is_advance : BOOLEAN, idempotency_key : Key \cup {NoKey}]

NothingPaid == [k \in Slot |-> 0]

BookedRows == [i \in Installment |-> [days_past_due |-> 0, status |-> "PENDING"]]

BookedLoan(l) ==
    [status |-> "ACTIVE", days_past_due |-> 0, overdue_amount |-> 0,
     outstanding_principal |-> Component(Due[l], "principal"), total_paid |-> 0,
     installments_paid |-> 0, installments_overdue |-> 0, classification |-> "PERFORMING"]

-------------------------------------------------------------------------------
(* The position, written back.                                             *)

\* Faulty variant: an instalment not yet due counts backwards.
RefreshedRowsUnclamped(l, now, asOf) ==
    LET owed == Owed(Due[l], now)
    IN  [i \in Installment |->
          [days_past_due |-> IF IsSettled(owed, i) THEN 0 ELSE asOf - DueDate[i],
           status |-> InstallmentStatus(owed, now, i, asOf)]]

RefreshedRows(l, now, asOf) ==
    LET owed == Owed(Due[l], now)
    IN  [i \in Installment |->
          [days_past_due |-> IF IsSettled(owed, i) THEN 0 ELSE Max({asOf - DueDate[i], 0}),
           status |-> InstallmentStatus(owed, now, i, asOf)]]

\* The loan's row after refresh_position, when its schedule stands at now.
RefreshedLoan(l, row, now, asOf) ==
    LET owed == Owed(Due[l], now)
        dpd == DaysPastDue(owed, asOf)
    IN  [status |-> IF IsFullyRepaid(owed) /\ row.status = "ACTIVE" THEN "CLOSED"
                    ELSE row.status,
         days_past_due |-> dpd,
         overdue_amount |-> OverdueAmount(owed, asOf),
         outstanding_principal |-> Component(owed, "principal"),
         total_paid |-> Total(now, Slots),
         installments_paid |-> InstallmentsPaid(owed),
         installments_overdue |-> Cardinality(Overdue(owed, asOf)),
         classification |-> Classify(dpd)]

Reclassified(row) == [row EXCEPT !.classification = Classify(row.days_past_due)]

-------------------------------------------------------------------------------
(* Receipts.                                                               *)

CLOSED_STATUSES == {"CLOSED", "WRITTEN_OFF", "FORECLOSED"}

Components == {"penalty", "interest", "principal"}

Receipt(l, amount, allocation, key) ==
    [loan |-> l, amount_paid |-> amount,
     penalty |-> Component(allocation.taken, "penalty"),
     interest |-> Component(allocation.taken, "interest"),
     principal |-> Component(allocation.taken, "principal"),
     is_advance |-> allocation.unallocated > 0,
     idempotency_key |-> key]

\* The sum of a column over the receipts of a loan.
Received(book, l, column) ==
    Total([n \in DOMAIN book |-> IF book[n].loan = l THEN book[n][column] ELSE 0],
          Len(book))

Excess(r) == r.amount_paid - r.penalty - r.interest - r.principal
===============================================================================
