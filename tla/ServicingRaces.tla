---------------------------- MODULE ServicingRaces ----------------------------
(***************************************************************************)
(* Repayments and the nightly pass when they overlap.  Each is one         *)
(* transaction at READ COMMITTED: it copies the loan's row, later the      *)
(* schedule's rows, computes on the copies, and at its end writes the      *)
(* columns that differ from them.  Neither takes a lock before it has      *)
(* read, so locks only order the commits and are left out.                 *)
(*                                                                         *)
(* The nightly pass appears as the part of it that concerns one loan.  It  *)
(* covers the loans one after the other, and loans share no row.           *)
(***************************************************************************)
EXTENDS Servicing, UnitOfWork

CONSTANT Worker   \* threads serving requests; MaxReceipts counts repayments under way too

VARIABLE req      \* req[w]: the request worker w is serving, over the tables of Servicing

races_vars == <<paid, rows, loan, receipts, req>>

Idle == [op |-> "idle"]

\* row, paid, rows: the copies; the last two are taken at stage "read".
Request ==
    [op : {"pay", "nightly"}, stage : {"listed", "begun", "read"}, loan : Loan, date : Date,
     amount : Amount \cup {0}, key : Key \cup {NoKey}, row : LoanRow, paid : Money,
     rows : [Installment -> ScheduleRow]]

RacesTypeOK ==
    /\ TypeOK
    /\ req \in [Worker -> Request \cup {Idle}]

RacesInit ==
    /\ Init
    /\ req = [w \in Worker |-> Idle]

Used(key) == key # NoKey /\ \E n \in DOMAIN receipts : receipts[n].idempotency_key = key

UsedOn(l, key) ==
    key # NoKey /\ \E n \in DOMAIN receipts :
                      receipts[n].loan = l /\ receipts[n].idempotency_key = key

PaymentsUnderWay == {w \in Worker : req[w].op = "pay"}

Advance(w, request) ==
    /\ req' = [req EXCEPT ![w] = request]
    /\ UNCHANGED <<paid, rows, loan, receipts>>

Accept(w, op, stage, l, amount, date, key) ==
    /\ req[w] = Idle
    /\ Advance(w, [op |-> op, stage |-> stage, loan |-> l, amount |-> amount, date |-> date,
                   key |-> key, row |-> loan[l], paid |-> NothingPaid, rows |-> BookedRows])

\* The loan's row is copied and its status trusted from here on; then the key is looked up.
BeginPayment(w, l, amount, date, key) ==
    /\ loan[l].status \notin CLOSED_STATUSES
    /\ ~UsedOn(l, key)
    /\ Len(receipts) + Cardinality(PaymentsUnderWay) < MaxReceipts
    /\ Accept(w, "pay", "begun", l, amount, date, key)

\* active_loan_ids lists the loans first; each row is read when its turn comes.
BeginNightly(w, l, asOf) ==
    /\ loan[l].status = "ACTIVE"
    /\ Accept(w, "nightly", "listed", l, 0, asOf, NoKey)

ReadLoan(w) ==
    /\ req[w] # Idle /\ req[w].stage = "listed"
    /\ Advance(w, [req[w] EXCEPT !.stage = "begun", !.row = loan[req[w].loan]])

ReadSchedule(w) ==
    /\ req[w] # Idle /\ req[w].stage = "begun"
    /\ Advance(w, [req[w] EXCEPT !.stage = "read", !.paid = paid[req[w].loan],
                                 !.rows = rows[req[w].loan]])

\* The three tables' columns that refresh_position and the allocation changed on the copies.
Flush(r, now, row) ==
    LET new == RefreshedRows(r.loan, now, r.date)
    IN  /\ paid' = [paid EXCEPT ![r.loan] = Write(@, r.paid, now)]
        /\ rows' = [rows EXCEPT ![r.loan] =
              [i \in Installment |-> Write(@[i], r.rows[i], new[i])]]
        /\ loan' = [loan EXCEPT ![r.loan] = Write(@, r.row, row)]

Release(w) == req' = [req EXCEPT ![w] = Idle]

\* Faulty variant: no unique index on the key.
CommitPaymentUnguarded(w) ==
    LET r == req[w]
        allocation == AllocatePayment(r.amount, Owed(Due[r.loan], r.paid))
        now == [k \in Slot |-> r.paid[k] + allocation.taken[k]]
    IN  /\ r.op = "pay" /\ r.stage = "read"
        /\ Flush(r, now, RefreshedLoan(r.loan, r.row, now, r.date))
        /\ receipts' = Append(receipts, Receipt(r.loan, r.amount, allocation, r.key))
        /\ Release(w)

\* uq_repay_idem lets the receipt in if no other carries its key.
CommitPayment(w) ==
    LET r == req[w]
        allocation == AllocatePayment(r.amount, Owed(Due[r.loan], r.paid))
        now == [k \in Slot |-> r.paid[k] + allocation.taken[k]]
    IN  /\ r.op = "pay" /\ r.stage = "read"
        /\ ~Used(r.key)
        /\ Flush(r, now, RefreshedLoan(r.loan, r.row, now, r.date))
        /\ receipts' = Append(receipts, Receipt(r.loan, r.amount, allocation, r.key))
        /\ Release(w)

CommitNightly(w) ==
    LET r == req[w]
    IN  /\ r.op = "nightly" /\ r.stage = "read"
        /\ Flush(r, r.paid, Reclassified(RefreshedLoan(r.loan, r.row, r.paid, r.date)))
        /\ Release(w)
        /\ UNCHANGED receipts

\* Faulty variant: what a failing request had flushed stays.
AbortKeepingRows(w) ==
    /\ req[w] # Idle /\ req[w].stage = "read"
    /\ LET r == req[w]
           allocation == AllocatePayment(r.amount, Owed(Due[r.loan], r.paid))
           now == [k \in Slot |-> r.paid[k] + allocation.taken[k]]
       IN  Flush(r, now, RefreshedLoan(r.loan, r.row, now, r.date))
    /\ Release(w)
    /\ UNCHANGED receipts

\* A request may fail before its commit: refused by an index, chosen to break a deadlock of the
\* two flushes, or lost with its connection.  It is rolled back.
Abort(w) == req[w] # Idle /\ Advance(w, Idle)

RacesNext ==
    \E w \in Worker :
        \/ \E l \in Loan, amount \in Amount, date \in Date, key \in Key \cup {NoKey} :
              BeginPayment(w, l, amount, date, key)
        \/ \E l \in Loan, asOf \in Date : BeginNightly(w, l, asOf)
        \/ ReadLoan(w)
        \/ ReadSchedule(w)
        \/ CommitPayment(w)
        \/ CommitNightly(w)
        \/ Abort(w)

RacesSpec == RacesInit /\ [][RacesNext]_races_vars

-------------------------------------------------------------------------------
(* What overlapping requests cannot break.                                 *)

\* uq_repay_idem: two requests that both found the key unused leave one receipt.
OneReceiptPerKey ==
    \A m, n \in DOMAIN receipts :
        m # n /\ receipts[m].idempotency_key # NoKey =>
          receipts[m].idempotency_key # receipts[n].idempotency_key

\* record_repayment: a payment can be lost from the schedule when another overwrites it, but
\* the schedule never shows more than the receipts do: the borrower is not credited with money
\* nobody received.
ScheduleBackedByReceipts ==
    \A l \in Loan : \A b \in Components : Component(paid[l], b) <= Received(receipts, l, b)

\* "No payment can be posted to a CLOSED loan": a request that read the loan before it closed
\* can still post, but none opens it again.
ClosedStaysClosed ==
    [][\A l \in Loan : loan[l].status = "CLOSED" => loan'[l].status = "CLOSED"]_races_vars
===============================================================================
