----------------------------- MODULE Underwriting -----------------------------
(***************************************************************************)
(* An application from draft to disbursement: ApplicationService           *)
(* (app/services/application.py) and the booking half of LoanService       *)
(* (app/services/loan.py), over the tables they write.                     *)
(*                                                                         *)
(* Here requests run one at a time, each a single step: a handler reads,   *)
(* checks, writes and commits before the next begins.  UnderwritingRaces   *)
(* takes the same handlers apart and lets them overlap.  A request that a  *)
(* check refuses is rolled back and changes nothing, so it is no step; so  *)
(* are the 404 answers for rows that do not exist.                         *)
(***************************************************************************)
EXTENDS ApplicationRules, Sequences

CONSTANT MaxAssessments  \* bound: assessments run on one application

VARIABLES
    app,            \* app[a]: the loan_applications row
    submitters,     \* submitters[a]: users named by its APPLICATION_SUBMITTED audit rows
    assessments,    \* assessments[a]: its loan_assessments, oldest first; the last is latest
    decisions,      \* decisions[a]: its underwriting_decisions, oldest first
    loans,          \* the loans table
    vehicleStatus   \* vehicleStatus[v]: vehicles.status

vars == <<app, submitters, assessments, decisions, loans, vehicleStatus>>

NoRow == [status |-> "NONE"]

Row == [status : Status, created_by : User, updated_by : User \cup {NoUser},
        submitted : BOOLEAN, terms : Terms, vehicle : Vehicle, price : Nat]

\* terms: what is asked for and the route it is for.  price: what the vehicle costs, as the file
\* was raised.
Figures == [terms : Terms, vehicle : Vehicle, price : Nat]

\* saw: the figures on file when the engines ran.  They recommend a sum under an LTV cap.
Assessment == [saw : Figures, recommendation : Decision, amount : Amount, ltv : Ltv]

\* assessment: position in assessments[a].  amount 0 stands for NULL.
UnderwritingDecision ==
    [assessment : Nat, recommendation : Decision, final : Decision, amount : Nat,
     by : User, justified : BOOLEAN]

Loan == [application : App, vehicle : Vehicle, principal : Nat]

TypeOK ==
    /\ app \in [App -> Row \cup {NoRow}]
    /\ submitters \in [App -> SUBSET User]
    /\ assessments \in [App -> Seq(Assessment)]
    /\ decisions \in [App -> Seq(UnderwritingDecision)]
    /\ loans \subseteq Loan
    /\ vehicleStatus \in [Vehicle -> {"PROPOSED", "FINANCED"}]

FiguresOnFile(a) ==
    [terms |-> app[a].terms, vehicle |-> app[a].vehicle, price |-> app[a].price]

LatestAssessment(a) == assessments[a][Len(assessments[a])]
LatestDecision(a) == decisions[a][Len(decisions[a])]
LoansFor(a) == {l \in loans : l.application = a}

Init ==
    /\ app = [a \in App |-> NoRow]
    /\ submitters = [a \in App |-> {}]
    /\ assessments = [a \in App |-> << >>]
    /\ decisions = [a \in App |-> << >>]
    /\ loans = {}
    /\ vehicleStatus = [v \in Vehicle |-> "PROPOSED"]

-------------------------------------------------------------------------------
(* The draft.                                                              *)

\* The vehicle's purchase price is copied onto the row and never refreshed.
CreateApplication(a, u, v, t) ==
    /\ app[a] = NoRow
    /\ app' = [app EXCEPT ![a] =
                 [status |-> "DRAFT", created_by |-> u, updated_by |-> NoUser,
                  submitted |-> FALSE, terms |-> t, vehicle |-> v, price |-> Price[v]]]
    /\ UNCHANGED <<submitters, assessments, decisions, loans, vehicleStatus>>

\* The request is a plain mapping, and what may be set includes the vehicle and the route.  The
\* price is not refreshed: it stays that of the vehicle the file was raised for.
EditRow(row, u, t, v) == [row EXCEPT !.terms = t, !.vehicle = v, !.updated_by = u]

\* Faulty variant: an application can be edited until it is decided.
UpdateUndecided(a, u, t, v) ==
    /\ app[a].status \in {"DRAFT", "SUBMITTED", "PENDING_DECISION"}
    /\ app' = [app EXCEPT ![a] = EditRow(@, u, t, v)]
    /\ UNCHANGED <<submitters, assessments, decisions, loans, vehicleStatus>>

UpdateApplication(a, u, t, v) ==
    /\ app[a].status = "DRAFT"
    /\ app' = [app EXCEPT ![a] = EditRow(@, u, t, v)]
    /\ UNCHANGED <<submitters, assessments, decisions, loans, vehicleStatus>>

SubmitApplication(a, u) ==
    /\ CanTransition(app[a].status, "SUBMITTED")
    /\ app' = [app EXCEPT ![a].status = "SUBMITTED", ![a].submitted = TRUE,
                          ![a].updated_by = u]
    /\ submitters' = [submitters EXCEPT ![a] = @ \cup {u}]
    /\ UNCHANGED <<assessments, decisions, loans, vehicleStatus>>

\* Faulty variant: anything not yet disbursed can be withdrawn.
WithdrawUndisbursed(a, u) ==
    /\ app[a].status \notin {"NONE", "DISBURSED", "WITHDRAWN"}
    /\ app' = [app EXCEPT ![a].status = "WITHDRAWN", ![a].updated_by = u]
    /\ UNCHANGED <<submitters, assessments, decisions, loans, vehicleStatus>>

WithdrawApplication(a, u) ==
    /\ CanTransition(app[a].status, "WITHDRAWN")
    /\ app' = [app EXCEPT ![a].status = "WITHDRAWN", ![a].updated_by = u]
    /\ UNCHANGED <<submitters, assessments, decisions, loans, vehicleStatus>>

-------------------------------------------------------------------------------
(* Assessment and decision.                                                *)

\* The engines' answer is any recommendation, with a sum that structuring has kept under the
\* LTV cap.  A file already decided (APPROVED) can be assessed again.
AssessApplication(a, recommendation, amount, ltv) ==
    /\ app[a].status \in Assessable
    /\ amount <= Ceiling(ltv, app[a].price)
    /\ Len(assessments[a]) < MaxAssessments
    /\ assessments' = [assessments EXCEPT ![a] =
          Append(@, [saw |-> FiguresOnFile(a), recommendation |-> recommendation,
                     amount |-> amount, ltv |-> ltv])]
    /\ app' = [app EXCEPT ![a].status = StatusAfterAssessment(@)]
    /\ UNCHANGED <<submitters, decisions, loans, vehicleStatus>>

\* What make_decision checks, in its order, and the sum the decision will carry.
MayDecide(a, u, final, entered, justified) ==
    LET s == LatestAssessment(a)
    IN  /\ app[a].status = "PENDING_DECISION"
        /\ assessments[a] # << >>
        /\ u \notin Makers(app[a])
        /\ IsOverride(final, s.recommendation) => OverrideAllowed(u, justified)
        /\ final = "APPROVE" =>
             Approvable(ApprovedAmount(entered, s.amount), s.ltv, app[a].price)

DecisionAmount(a, final, entered) ==
    IF final = "APPROVE" THEN ApprovedAmount(entered, LatestAssessment(a).amount) ELSE entered

MakeDecision(a, u, final, entered, justified) ==
    /\ MayDecide(a, u, final, entered, justified)
    /\ decisions' = [decisions EXCEPT ![a] =
          Append(@, [assessment |-> Len(assessments[a]),
                     recommendation |-> LatestAssessment(a).recommendation,
                     final |-> final, amount |-> DecisionAmount(a, final, entered),
                     by |-> u, justified |-> justified])]
    /\ app' = [app EXCEPT ![a].status = StatusAfterDecision(final)]
    /\ UNCHANGED <<submitters, assessments, loans, vehicleStatus>>

-------------------------------------------------------------------------------
(* Booking.                                                                *)

MayBook(a) ==
    /\ LoansFor(a) = {}
    /\ app[a].status = "APPROVED"
    /\ decisions[a] # << >> /\ LatestDecision(a).final = "APPROVE"
    /\ assessments[a] # << >>
    /\ Bookable(LatestDecision(a).amount, app[a].price)

Book(a, principal) ==
    /\ loans' = loans \cup
          {[application |-> a, vehicle |-> app[a].vehicle, principal |-> principal]}
    /\ vehicleStatus' = [vehicleStatus EXCEPT ![app[a].vehicle] = "FINANCED"]
    /\ app' = [app EXCEPT ![a].status = "DISBURSED"]
    /\ UNCHANGED <<submitters, assessments, decisions>>

\* Faulty variant: the loan is booked for what the latest assessment recommends.
BookRecommended(a) == MayBook(a) /\ Book(a, LatestAssessment(a).amount)

\* The status is assigned, not moved through the table; the vehicle's own status is not
\* consulted, so the unit may be PROPOSED or FINANCED already.
BookLoan(a) == MayBook(a) /\ Book(a, LatestDecision(a).amount)

Next ==
    \E a \in App :
        \/ \E u \in User, v \in Vehicle, t \in Terms :
              CreateApplication(a, u, v, t) \/ UpdateApplication(a, u, t, v)
        \/ \E u \in User : SubmitApplication(a, u) \/ WithdrawApplication(a, u)
        \/ \E d \in Decision, m \in Amount, ltv \in Ltv : AssessApplication(a, d, m, ltv)
        \/ \E u \in User, d \in Decision, m \in Amount, j \in BOOLEAN :
              MakeDecision(a, u, d, m, j)
        \/ BookLoan(a)

Spec == Init /\ [][Next]_vars

-------------------------------------------------------------------------------
(* What must hold.                                                         *)

\* Nobody rules on a file they raised or put forward.  The code keeps the submitter in
\* updated_by, a column that edits and withdrawals also write; the audit trail is the
\* reference here, so nothing between submission and decision may overwrite that column.
FourEyes ==
    \A a \in App : \A i \in 1..Len(decisions[a]) :
        decisions[a][i].by \notin {app[a].created_by} \cup submitters[a]

\* Every assessment, and so the one a decision cites, was run on the terms, the vehicle and the
\* price the file carries now, and a loan finances the vehicle that was assessed: the figures
\* cannot change underneath a submitted application (update_application, book_loan).
AssessedOnCarriedTerms ==
    \A a \in App :
        /\ \A i \in 1..Len(assessments[a]) : assessments[a][i].saw = FiguresOnFile(a)
        /\ \A i \in 1..Len(decisions[a]) : decisions[a][i].assessment \in 1..Len(assessments[a])
        /\ \A l \in LoansFor(a) : l.vehicle = app[a].vehicle

\* An approval stays under the ceiling of the assessment it cites, even when the file is
\* assessed again afterwards; it departs from that assessment only by an accountable
\* override; and the loan is for the sum approved (make_decision, _validated_amount,
\* book_loan).
DecisionSound(a, d) ==
    LET s == assessments[a][d.assessment]
    IN  /\ d.recommendation = s.recommendation
        /\ IsOverride(d.final, s.recommendation) => OverrideAllowed(d.by, d.justified)
        /\ d.final = "APPROVE" => d.amount > 0 /\ d.amount <= Ceiling(s.ltv, app[a].price)

SanctionWithinPolicy ==
    /\ \A a \in App : \A i \in 1..Len(decisions[a]) : DecisionSound(a, decisions[a][i])
    /\ \A l \in loans : \E i \in 1..Len(decisions[l.application]) :
          LET d == decisions[l.application][i]
          IN  d.final = "APPROVE" /\ d.amount = l.principal

\* The status agrees with the records behind it: one loan exactly when DISBURSED, an approval
\* on file exactly when APPROVED or DISBURSED, no ruling on an open file, and an assessment
\* behind everything past SUBMITTED.  No request leaves a file UNDER_ASSESSMENT.
Approved(a) == \E i \in 1..Len(decisions[a]) : decisions[a][i].final = "APPROVE"

StatusBackedFor(a) ==
    LET s == app[a].status
    IN  /\ s # "UNDER_ASSESSMENT"
        /\ s = "DISBURSED" <=> LoansFor(a) # {}
        /\ \A l, k \in LoansFor(a) : l = k
        /\ s \in {"APPROVED", "DISBURSED"} <=> Approved(a)
        /\ s \notin {"APPROVED", "DISBURSED", "REJECTED"} => decisions[a] = << >>
        /\ s \in {"PENDING_DECISION", "APPROVED", "DISBURSED", "REJECTED"} =>
              assessments[a] # << >>

StatusBacked == \A a \in App : StatusBackedFor(a)

\* A vehicle is FINANCED exactly when some loan names it, as booked (book_loan).
VehicleFinanced ==
    \A v \in Vehicle : vehicleStatus[v] = "FINANCED" <=> \E l \in loans : l.vehicle = v

\* Statuses move only along ALLOWED_TRANSITIONS, by one request as by two in a row: the table
\* is the authority even for booking, which assigns the status without consulting it.
MovesFollowTable ==
    [][\A a \in App :
          LET s == app[a].status
              t == app'[a].status
          IN  \/ s = t
              \/ s = "NONE" /\ t = "DRAFT"
              \/ CanTransition(s, t)
              \/ \E m \in Status : CanTransition(s, m) /\ CanTransition(m, t)]_vars

-------------------------------------------------------------------------------
(* The inductive invariant.                                                *)

\* What the audit trail and the row say of the submission agree, and nothing is on file
\* before it: this is what lets updated_by stand for the submitter.
SubmissionOnFile(a) ==
    LET s == app[a].status
    IN  /\ s \in {"NONE", "DRAFT"} => submitters[a] = {} /\ assessments[a] = << >>
        /\ s = "DRAFT" => ~app[a].submitted
        /\ s \in Assessable \cup {"REJECTED", "DISBURSED"} =>
              app[a].submitted /\ submitters[a] = {app[a].updated_by}

IInv ==
    /\ TypeOK
    /\ \A a \in App : SubmissionOnFile(a)
    /\ FourEyes
    /\ AssessedOnCarriedTerms
    /\ SanctionWithinPolicy
    /\ StatusBacked
    /\ VehicleFinanced

-------------------------------------------------------------------------------
(* The contract this implements.                                           *)

phase == [a \in App |->
    CASE app[a].status = "NONE" -> "none"
      [] app[a].status = "APPROVED" -> "sanctioned"
      [] app[a].status = "REJECTED" -> "refused"
      [] app[a].status = "WITHDRAWN" -> "withdrawn"
      [] app[a].status = "DISBURSED" -> "financed"
      [] OTHER -> "open"]

makers == [a \in App |->
    IF app[a] = NoRow THEN {} ELSE {app[a].created_by} \cup submitters[a]]

signed == [a \in App |-> {decisions[a][i].by : i \in 1..Len(decisions[a])}]

sanction == [a \in App |->
    IF app[a].status \in {"APPROVED", "DISBURSED"} THEN LatestDecision(a).amount ELSE 0]

advanced == [a \in App |->
    IF LoansFor(a) = {} THEN 0 ELSE (CHOOSE l \in LoansFor(a) : TRUE).principal]

Contract == INSTANCE OriginationContract

\* The workflow implements OriginationContract: nobody signs for their own file, and a file
\* is financed once at most, for exactly the sum sanctioned.
ImplementsContract == Contract!Spec
===============================================================================
