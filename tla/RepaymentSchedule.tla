--------------------------- MODULE RepaymentSchedule ---------------------------
(***************************************************************************)
(* The servicing arithmetic of app/engines/servicing.py.                   *)
(*                                                                         *)
(* An instalment owes a penalty, interest and principal.  A schedule is    *)
(* laid out here as one line of slots, three to an instalment, in the      *)
(* order payments are applied: instalments by due date, which is the order *)
(* of their numbers, and in each one ALLOCATION_ORDER.  Money is counted   *)
(* in the smallest unit of NUMERIC(12,2), dates in days.                   *)
(***************************************************************************)
EXTENDS Integers, Sequences, FiniteSets, FiniteSetsExt

CONSTANTS
    Installments,  \* number of instalments of a loan
    DueDate        \* DueDate[i]: the due date of instalment i

\* build_schedule makes 6 to 120 rows, a month apart.
ASSUME InstallmentsAssumption == Installments \in Nat \ {0}
ASSUME DueDateAssumption ==
    /\ DueDate \in [1..Installments -> Nat]
    /\ \A i, j \in 1..Installments : i < j => DueDate[i] < DueDate[j]

ALLOCATION_ORDER == <<"penalty", "interest", "principal">>

Installment == 1..Installments
Slots == 3 * Installments
Slot == 1..Slots

RowOf(k) == (k + 2) \div 3
Bucket(k) == ALLOCATION_ORDER[((k - 1) % 3) + 1]

Money == [Slot -> Nat]

\* Sums are recursive functions over 0..n, not folds over sets, so that proofs can unfold them.
Upto(f, n) ==
    LET upto[k \in 0..n] == IF k = 0 THEN 0 ELSE upto[k - 1] + f[k]
    IN  upto

Total(f, n) == Upto(f, n)[n]

-------------------------------------------------------------------------------
(* Allocation.                                                             *)

\* A slot takes what it owes, or all that is left.
LeftAfter(left, owing) == IF owing <= left THEN left - owing ELSE 0

\* What is left of the payment after each slot, walking from the oldest.
Remaining(amount, owed) ==
    LET left[k \in 0..Slots] == IF k = 0 THEN amount ELSE LeftAfter(left[k - 1], owed[k])
    IN  left

\* Faulty variant: principal before interest.
AllocatePrincipalFirst(amount, owed) ==
    LET swap(k) == IF Bucket(k) = "interest" THEN k + 1
                   ELSE IF Bucket(k) = "principal" THEN k - 1 ELSE k
        left == Remaining(amount, [k \in Slot |-> owed[swap(k)]])
    IN  [taken |-> [k \in Slot |-> left[swap(k) - 1] - left[swap(k)]], unallocated |-> left[Slots]]

\* Faulty variant: an excess is dropped.
AllocateWithoutExcess(amount, owed) ==
    LET left == Remaining(amount, owed)
    IN  [taken |-> [k \in Slot |-> left[k - 1] - left[k]], unallocated |-> 0]

AllocatePayment(amount, owed) ==
    LET left == Remaining(amount, owed)
    IN  [taken |-> [k \in Slot |-> left[k - 1] - left[k]], unallocated |-> left[Slots]]

\* The part of a sum over the schedule that falls into bucket b.
Component(money, b) == Total([k \in Slot |-> IF Bucket(k) = b THEN money[k] ELSE 0], Slots)

-------------------------------------------------------------------------------
(* The position on a business date.                                        *)

\* Faulty variant: earlier payments are forgotten.
OwedAtFirst(due, paid) == due

Owed(due, paid) == [k \in Slot |-> due[k] - paid[k]]

RowSum(money, i) == money[3 * i - 2] + money[3 * i - 1] + money[3 * i]

IsSettled(owed, i) == RowSum(owed, i) <= 0

FallenDue(asOf) == {i \in Installment : DueDate[i] < asOf}

Overdue(owed, asOf) == {i \in FallenDue(asOf) : ~IsSettled(owed, i)}

\* Faulty variant: the age of the latest unpaid instalment.
DaysSinceLatest(owed, asOf) ==
    IF Overdue(owed, asOf) = {} THEN 0 ELSE Min({asOf - DueDate[i] : i \in Overdue(owed, asOf)})

DaysPastDue(owed, asOf) == Max({0} \cup {asOf - DueDate[i] : i \in Overdue(owed, asOf)})

OverdueAmount(owed, asOf) ==
    Total([k \in Slot |-> IF RowOf(k) \in FallenDue(asOf) THEN owed[k] ELSE 0], Slots)

InstallmentsPaid(owed) == Cardinality({i \in Installment : IsSettled(owed, i)})

\* Faulty variant: any settled instalment will do.
IsAnywhereRepaid(owed) == \E i \in Installment : IsSettled(owed, i)

IsFullyRepaid(owed) == \A i \in Installment : IsSettled(owed, i)

Classification == {"PERFORMING", "WATCHLIST", "SUBSTANDARD", "DOUBTFUL", "LOSS"}

Classify(dpd) ==
    CASE dpd <= 0 -> "PERFORMING"
      [] 0 < dpd /\ dpd <= 30 -> "WATCHLIST"
      [] 30 < dpd /\ dpd <= 90 -> "SUBSTANDARD"
      [] 90 < dpd /\ dpd <= 180 -> "DOUBTFUL"
      [] 180 < dpd -> "LOSS"

InstallmentStatus(owed, paid, i, asOf) ==
    CASE IsSettled(owed, i) -> "PAID"
      [] ~IsSettled(owed, i) /\ RowSum(paid, i) > 0 -> "PARTIAL"
      [] ~IsSettled(owed, i) /\ RowSum(paid, i) <= 0 ->
           IF i \in FallenDue(asOf) THEN "OVERDUE" ELSE "PENDING"
===============================================================================
