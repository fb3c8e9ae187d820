-------------------------- MODULE UnderwritingRaces --------------------------
(***************************************************************************)
(* The handlers of Underwriting when requests overlap.  Each request is a  *)
(* transaction of its own at READ COMMITTED (app/core/database.py): it     *)
(* reads the application's row first, keeps that copy for its whole life   *)
(* (the session's identity map; expire_on_commit is off), may read other   *)
(* tables later, and at its end writes the columns whose value differs     *)
(* from the copy.  The version column is neither read nor compared.        *)
(*                                                                         *)
(* What PostgreSQL adds: a writer waits for another transaction that has   *)
(* updated the row; the unique indexes allow one loan per application and  *)
(* one latest score.  Money and overrides are left out: they play no part  *)
(* in the races.  The vehicle is, with the route, part of the terms.       *)
(***************************************************************************)
EXTENDS ApplicationStatus, UnitOfWork, Sequences, FiniteSets, FiniteSetsExt

CONSTANTS
    Worker,          \* threads serving requests, each with its own session
    MaxAssessments,  \* bound: assessments of one application
    MaxMoment        \* bound: no decision begins once a decided_at has reached it

ASSUME WorkerAssumption == IsFiniteSet(Worker)

VARIABLES
    app,          \* app[a]: the committed loan_applications row
    submitters,   \* submitters[a]: users named by its APPLICATION_SUBMITTED audit rows
    assessments,  \* assessments[a]: committed loan_assessments, in the order of their ids
    decisions,    \* decisions[a]: committed underwriting_decisions, in the order of their ids
    loans,        \* loans[a]: committed loans of the application
    req           \* req[w]: the request worker w is serving

vars == <<app, submitters, assessments, decisions, loans, req>>

Row == [status : Status \ {"UNDER_ASSESSMENT"}, created_by : User,
        updated_by : User \cup {NoUser}, submitted : BOOLEAN, terms : Terms]

Assessment == [terms : Terms, latest : BOOLEAN]

\* moment: decided_at.  assessment: position in assessments[a].
UnderwritingDecision == [final : Decision, by : User, assessment : Nat, moment : Nat]

\* decision: position in decisions[a] of the approval the loan was booked against.
Loan == [decision : Nat]

Idle == [op |-> "idle"]

\* row: the copy read first.  new: the copy as the handler leaves it.  read: position of the
\* assessment or decision consulted, 0 for none.  final and moment: of a decision.
Request ==
    [op : {"update", "submit", "withdraw", "assess", "decide", "book"},
     stage : {"begun", "claimed", "ready"}, app : App, by : User, row : Row, new : Row,
     read : Nat, final : Decision, moment : Nat]

TypeOK ==
    /\ app \in [App -> Row]
    /\ submitters \in [App -> SUBSET User]
    /\ assessments \in [App -> Seq(Assessment)]
    /\ decisions \in [App -> Seq(UnderwritingDecision)]
    /\ loans \in [App -> Seq(Loan)]
    /\ req \in [Worker -> Request \cup {Idle}]

InFlight(a, op) == {w \in Worker : req[w] # Idle /\ req[w].op = op /\ req[w].app = a}

\* The moves start from a draft somebody has raised.
Init ==
    /\ app \in [App -> {[status |-> "DRAFT", created_by |-> u, updated_by |-> NoUser,
                         submitted |-> FALSE, terms |-> t] : u \in User, t \in Terms}]
    /\ submitters = [a \in App |-> {}]
    /\ assessments = [a \in App |-> << >>]
    /\ decisions = [a \in App |-> << >>]
    /\ loans = [a \in App |-> << >>]
    /\ req = [w \in Worker |-> Idle]

\* The decided_at of the decisions on file and of those under way.
Moments(a) ==
    {decisions[a][i].moment : i \in 1..Len(decisions[a])}
      \cup {req[w].moment : w \in InFlight(a, "decide")}

-------------------------------------------------------------------------------
(* The read of the row, and the checks made on that copy alone.            *)

Accept(w, op, stage, a, u, new, final) ==
    /\ req[w] = Idle
    /\ req' = [req EXCEPT ![w] =
          [op |-> op, stage |-> stage, app |-> a, by |-> u, row |-> app[a], new |-> new,
           read |-> 0, final |-> final, moment |-> 0]]
    /\ UNCHANGED <<app, submitters, assessments, decisions, loans>>

BeginUpdate(w, a, u, t) ==
    /\ app[a].status = "DRAFT"
    /\ Accept(w, "update", "ready", a, u,
              [app[a] EXCEPT !.terms = t, !.updated_by = u], "REJECT")

BeginSubmit(w, a, u) ==
    /\ CanTransition(app[a].status, "SUBMITTED")
    /\ Accept(w, "submit", "ready", a, u,
              [app[a] EXCEPT !.status = "SUBMITTED", !.submitted = TRUE, !.updated_by = u],
              "REJECT")

BeginWithdraw(w, a, u) ==
    /\ CanTransition(app[a].status, "WITHDRAWN")
    /\ Accept(w, "withdraw", "ready", a, u,
              [app[a] EXCEPT !.status = "WITHDRAWN", !.updated_by = u], "REJECT")

\* From SUBMITTED the handler flushes UNDER_ASSESSMENT at once, which takes the row's lock.
BeginAssess(w, a, u) ==
    /\ app[a].status \in Assessable
    /\ Len(assessments[a]) + Cardinality(InFlight(a, "assess")) < MaxAssessments
    /\ Accept(w, "assess", IF app[a].status = "SUBMITTED" THEN "begun" ELSE "claimed", a, u,
              [app[a] EXCEPT !.status = StatusAfterAssessment(@)], "REJECT")

BeginDecide(w, a, u, final) ==
    /\ app[a].status = "PENDING_DECISION"
    /\ u \notin Makers(app[a])
    /\ \A m \in Moments(a) : m < MaxMoment
    /\ Accept(w, "decide", "begun", a, u,
              [app[a] EXCEPT !.status = StatusAfterDecision(final)], final)

BeginBook(w, a, u) ==
    /\ app[a].status = "APPROVED"
    /\ Accept(w, "book", "begun", a, u, [app[a] EXCEPT !.status = "DISBURSED"], "REJECT")

-------------------------------------------------------------------------------
(* What a request reads or locks before it writes.                         *)

\* Faulty variant: a request also waits for a lock of its own.
LockedByAny(w) ==
    \E x \in Worker :
        /\ req[x].op = "assess" /\ req[x].app = req[w].app
        /\ req[x].row.status = "SUBMITTED" /\ req[x].stage # "begun"

\* Another transaction has updated the row and not yet ended.
Locked(w) ==
    \E x \in Worker \ {w} :
        /\ req[x].op = "assess" /\ req[x].app = req[w].app
        /\ req[x].row.status = "SUBMITTED" /\ req[x].stage # "begun"

Advance(w, changes) ==
    /\ req' = [req EXCEPT ![w] = changes]
    /\ UNCHANGED <<app, submitters, assessments, decisions, loans>>

Claim(w) ==
    /\ req[w].op = "assess" /\ req[w].stage = "begun"
    /\ ~Locked(w)
    /\ Advance(w, [req[w] EXCEPT !.stage = "claimed"])

LatestAssessment(a) ==
    LET flagged == {i \in 1..Len(assessments[a]) : assessments[a][i].latest}
    IN  IF flagged = {} THEN 0 ELSE CHOOSE i \in flagged : TRUE

\* Faulty variant: neither unique index, so two requests may score one application at a time.
ScoreUnguarded(w) ==
    /\ req[w].op = "assess" /\ req[w].stage = "claimed"
    /\ Advance(w, [req[w] EXCEPT !.stage = "ready", !.read = LatestAssessment(req[w].app)])

\* The credit score written on the way holds uq_cs_latest for this application: a second
\* request that scores it waits until the first ends, and fails if it has waited with a score
\* of its own in hand (an Abort).  The assessment to supersede is read after that;
\* uq_la_latest stands behind it.
Score(w) ==
    /\ req[w].op = "assess" /\ req[w].stage = "claimed"
    /\ \A x \in InFlight(req[w].app, "assess") : req[x].stage # "ready"
    /\ Advance(w, [req[w] EXCEPT !.stage = "ready", !.read = LatestAssessment(req[w].app)])

\* decided_at is taken from the clock now, not when the decision commits.
Consult(w) ==
    /\ req[w].op = "decide" /\ req[w].stage = "begun"
    /\ LET a == req[w].app
       IN  /\ LatestAssessment(a) # 0
           /\ Advance(w, [req[w] EXCEPT !.stage = "ready", !.read = LatestAssessment(a),
                                        !.moment = 1 + Max({0} \cup Moments(a))])

LatestDecision(a) ==
    LET ids == 1..Len(decisions[a])
    IN  IF ids = {} THEN 0
        ELSE CHOOSE i \in ids : \A k \in ids : decisions[a][k].moment <= decisions[a][i].moment

Release(w) == Advance(w, Idle)

\* book_loan looks for a loan, then for the decision; the status it trusts is its copy's.
CheckBooking(w) ==
    /\ req[w].op = "book" /\ req[w].stage = "begun"
    /\ LET a == req[w].app
           d == LatestDecision(a)
       IN  IF loans[a] = << >> /\ d # 0 /\ decisions[a][d].final = "APPROVE"
                 /\ LatestAssessment(a) # 0
           THEN Advance(w, [req[w] EXCEPT !.stage = "ready", !.read = d])
           ELSE Release(w)

-------------------------------------------------------------------------------
(* The last flush and the commit.                                          *)

\* The end of a request that changes the row, with the lock free.
Commit(w) ==
    LET r == req[w]
    IN  /\ r.stage = "ready"
        /\ ~Locked(w)
        /\ app' = [app EXCEPT ![r.app] = Write(@, r.row, r.new)]
        /\ req' = [req EXCEPT ![w] = Idle]

CommitRow(w) ==
    /\ req[w].op \in {"update", "submit", "withdraw"}
    /\ Commit(w)
    /\ submitters' = IF req[w].op = "submit"
                     THEN [submitters EXCEPT ![req[w].app] = @ \cup {req[w].by}]
                     ELSE submitters
    /\ UNCHANGED <<assessments, decisions, loans>>

CommitAssessment(w) ==
    LET r == req[w]
    IN  /\ r.op = "assess"
        /\ IF r.row.status = "SUBMITTED" THEN Commit(w)
           ELSE r.stage = "ready" /\ req' = [req EXCEPT ![w] = Idle] /\ UNCHANGED app
        /\ assessments' = [assessments EXCEPT ![r.app] =
              Append([i \in 1..Len(@) |-> IF i = r.read THEN [@[i] EXCEPT !.latest = FALSE]
                                          ELSE @[i]],
                     [terms |-> r.row.terms, latest |-> TRUE])]
        /\ UNCHANGED <<submitters, decisions, loans>>

CommitDecision(w) ==
    LET r == req[w]
    IN  /\ r.op = "decide"
        /\ Commit(w)
        /\ decisions' = [decisions EXCEPT ![r.app] =
              Append(@, [final |-> r.final, by |-> r.by, assessment |-> r.read,
                         moment |-> r.moment])]
        /\ UNCHANGED <<submitters, assessments, loans>>

\* Faulty variant: nothing but the earlier look for a loan prevents a second one.
CommitBookingUnguarded(w) ==
    /\ req[w].op = "book"
    /\ Commit(w)
    /\ loans' = [loans EXCEPT ![req[w].app] = Append(@, [decision |-> req[w].read])]
    /\ UNCHANGED <<submitters, assessments, decisions>>

CommitBooking(w) ==
    /\ req[w].op = "book"
    /\ loans[req[w].app] = << >>
    /\ Commit(w)
    /\ loans' = [loans EXCEPT ![req[w].app] = Append(@, [decision |-> req[w].read])]
    /\ UNCHANGED <<submitters, assessments, decisions>>

\* uq_loan_application refuses the insert, and the whole request with it.
RefuseBooking(w) ==
    /\ req[w].op = "book" /\ req[w].stage = "ready"
    /\ loans[req[w].app] # << >>
    /\ Release(w)

\* Faulty variant: what a failing request had flushed stays.
AbortKeepingRow(w) ==
    /\ req[w] # Idle
    /\ app' = [app EXCEPT ![req[w].app] = Write(@, req[w].row, req[w].new)]
    /\ req' = [req EXCEPT ![w] = Idle]
    /\ UNCHANGED <<submitters, assessments, decisions, loans>>

\* A request may fail anywhere before its commit; it is rolled back.
Abort(w) == req[w] # Idle /\ Release(w)

Begin(w, a, u) ==
    \/ \E t \in Terms : BeginUpdate(w, a, u, t)
    \/ BeginSubmit(w, a, u)
    \/ BeginWithdraw(w, a, u)
    \/ BeginAssess(w, a, u)
    \/ \E final \in Decision : BeginDecide(w, a, u, final)
    \/ BeginBook(w, a, u)

Proceed(w) ==
    \/ Claim(w)
    \/ Score(w)
    \/ Consult(w)
    \/ CheckBooking(w)
    \/ CommitRow(w)
    \/ CommitAssessment(w)
    \/ CommitDecision(w)
    \/ CommitBooking(w)
    \/ RefuseBooking(w)

Next ==
    \E w \in Worker :
        \/ \E a \in App, u \in User : Begin(w, a, u)
        \/ Proceed(w)
        \/ Abort(w)

\* A thread serving a request keeps being scheduled, and PostgreSQL grants a lock to its waiters
\* in turn, so that nobody waits behind others for ever: strong fairness.
Spec == Init /\ [][Next]_vars /\ \A w \in Worker : SF_vars(Proceed(w))

-------------------------------------------------------------------------------
(* What overlapping requests cannot break.                                 *)

\* However bookings, decisions and edits overlap, a loan rests on an approval by somebody who
\* did not raise the file, given on an assessment of it (book_loan, _enforce_maker_checker).
LoanBackedByApproval ==
    \A a \in App : \A i \in 1..Len(loans[a]) :
        /\ loans[a][i].decision \in 1..Len(decisions[a])
        /\ LET d == decisions[a][loans[a][i].decision]
           IN  d.final = "APPROVE" /\ d.by # app[a].created_by
                 /\ d.assessment \in 1..Len(assessments[a])

\* Overlapping assessments leave one latest assessment, the one committed last: the chain of
\* is_latest flags neither forks nor breaks (_persist).
OneLatestAssessment ==
    \A a \in App : \A i \in 1..Len(assessments[a]) :
        assessments[a][i].latest <=> i = Len(assessments[a])

\* Two bookings that both found no loan leave one, and "loan, schedule, vehicle status and
\* application status commit together or not at all" (book_loan): no file says DISBURSED
\* without its loan.
DisbursedWithOneLoan ==
    \A a \in App : Len(loans[a]) <= 1 /\ (app[a].status = "DISBURSED" => loans[a] # << >>)

\* An edit still in flight when the file is submitted does not take it back to a draft: the
\* UPDATE leaves the columns the edit did not change (SQLAlchemy's unit of work).
SubmissionNotUndone ==
    [][\A a \in App : app[a].submitted => app'[a].submitted /\ app'[a].status # "DRAFT"]_vars

\* Requests wait for rows and index entries in an order that cannot close a circle: each ends.
EveryRequestEnds == \A w \in Worker : req[w] # Idle ~> req[w] = Idle

-------------------------------------------------------------------------------
(* What they can break.                                                    *)

\* _enforce_maker_checker: "the person who put the file forward cannot be the one who
\* approves it ... so it holds however the API is called".
FourEyes ==
    \A a \in App : \A i \in 1..Len(decisions[a]) :
        decisions[a][i].by \notin {app[a].created_by} \cup submitters[a]
===============================================================================
