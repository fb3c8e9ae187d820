-------------------------- MODULE UnderwritingProofs --------------------------
(***************************************************************************)
(* Proofs about Underwriting, for every set of applications, officers,     *)
(* vehicles and sums.                                                      *)
(***************************************************************************)
EXTENDS Underwriting, TLAPS

\* A row that is not absent is a full row: any status but NONE shows it.
LEMMA RowPresent ==
    ASSUME TypeOK, NEW a \in App, app[a].status # "NONE"
    PROVE  app[a] \in Row
  BY DEF TypeOK, NoRow

\* The latest of a non-empty list is a member of it.
LEMMA LatestTyped ==
    ASSUME TypeOK, NEW a \in App
    PROVE  /\ assessments[a] # << >> =>
                /\ LatestAssessment(a) \in Assessment
                /\ Len(assessments[a]) \in 1..Len(assessments[a])
           /\ decisions[a] # << >> =>
                /\ LatestDecision(a) \in UnderwritingDecision
                /\ Len(decisions[a]) \in 1..Len(decisions[a])
  <1>1. assessments[a] \in Seq(Assessment) /\ decisions[a] \in Seq(UnderwritingDecision)
    BY DEF TypeOK
  <1> QED
    BY <1>1 DEF LatestAssessment, LatestDecision

\* What a status may become stays in the enumeration.
LEMMA StatusTyped ==
    /\ \A s \in Status : StatusAfterAssessment(s) \in Status
    /\ \A d \in Decision : StatusAfterDecision(d) \in {"APPROVED", "REJECTED"}
  BY DEF Status, StatusAfterAssessment, StatusAfterDecision

\* Every column, list and table keeps its type.
LEMMA TypeStep ==
    ASSUME TypeOK, [Next]_vars
    PROVE  TypeOK'
  <1> USE RulesAssumption, UserAssumption
  <1>1. ASSUME NEW a \in App, NEW u \in User, NEW v \in Vehicle, NEW t \in Terms,
               CreateApplication(a, u, v, t)
        PROVE  TypeOK'
    BY <1>1 DEF CreateApplication, TypeOK, Row, Status
  <1>2. ASSUME NEW a \in App, NEW u \in User, NEW t \in Terms, NEW v \in Vehicle,
               UpdateApplication(a, u, t, v)
        PROVE  TypeOK'
    <2>1. app[a] \in Row
      BY <1>2, RowPresent DEF UpdateApplication
    <2> QED
      BY <1>2, <2>1 DEF UpdateApplication, EditRow, TypeOK, Row, Status
  <1>3. ASSUME NEW a \in App, NEW u \in User, SubmitApplication(a, u)
        PROVE  TypeOK'
    <2>1. app[a] \in Row
      BY <1>3, RowPresent DEF SubmitApplication, CanTransition, AllowedTransitions
    <2> QED
      BY <1>3, <2>1 DEF SubmitApplication, TypeOK, Row, Status
  <1>4. ASSUME NEW a \in App, NEW u \in User, WithdrawApplication(a, u)
        PROVE  TypeOK'
    <2>1. app[a] \in Row
      BY <1>4, RowPresent DEF WithdrawApplication, CanTransition, AllowedTransitions
    <2> QED
      BY <1>4, <2>1 DEF WithdrawApplication, TypeOK, Row, Status
  <1>5. ASSUME NEW a \in App, NEW d \in Decision, NEW m \in Amount, NEW ltv \in Ltv,
               AssessApplication(a, d, m, ltv)
        PROVE  TypeOK'
    <2>1. app[a] \in Row
      BY <1>5, RowPresent DEF AssessApplication, Assessable
    <2>2. app' \in [App -> Row \cup {NoRow}]
      BY <1>5, <2>1, StatusTyped DEF AssessApplication, TypeOK, Row
    <2>3. [saw |-> FiguresOnFile(a), recommendation |-> d, amount |-> m, ltv |-> ltv]
            \in Assessment
      BY <2>1 DEF Assessment, Figures, FiguresOnFile, Row
    <2>4. assessments' \in [App -> Seq(Assessment)]
      BY <1>5, <2>3 DEF AssessApplication, TypeOK
    <2> QED
      BY <1>5, <2>2, <2>4 DEF AssessApplication, TypeOK
  <1>6. ASSUME NEW a \in App, NEW u \in User, NEW d \in Decision, NEW m \in Amount,
               NEW j \in BOOLEAN, MakeDecision(a, u, d, m, j)
        PROVE  TypeOK'
    <2>1. app[a] \in Row
      BY <1>6, RowPresent DEF MakeDecision, MayDecide
    <2>2. app' \in [App -> Row \cup {NoRow}]
      BY <1>6, <2>1, StatusTyped DEF MakeDecision, TypeOK, Row, Status
    <2>3. LatestAssessment(a) \in Assessment
      BY <1>6, LatestTyped DEF MakeDecision, MayDecide
    <2>4. DecisionAmount(a, d, m) \in Nat
      BY <2>3 DEF DecisionAmount, ApprovedAmount, Assessment
    <2>5. decisions' \in [App -> Seq(UnderwritingDecision)]
      <3>1. [assessment |-> Len(assessments[a]),
             recommendation |-> LatestAssessment(a).recommendation, final |-> d,
             amount |-> DecisionAmount(a, d, m), by |-> u, justified |-> j]
               \in UnderwritingDecision
        BY <2>3, <2>4 DEF UnderwritingDecision, Assessment, TypeOK
      <3> QED
        BY <1>6, <3>1 DEF MakeDecision, TypeOK
    <2> QED
      BY <1>6, <2>2, <2>5 DEF MakeDecision, TypeOK
  <1>7. ASSUME NEW a \in App, BookLoan(a)
        PROVE  TypeOK'
    <2>1. app[a] \in Row
      BY <1>7, RowPresent DEF BookLoan, MayBook
    <2>2. LatestDecision(a).amount \in Nat
      BY <1>7, LatestTyped DEF BookLoan, MayBook, UnderwritingDecision
    <2>3. app' \in [App -> Row \cup {NoRow}]
      BY <1>7, <2>1 DEF BookLoan, Book, TypeOK, Row, Status
    <2>4. loans' \subseteq Loan
      BY <1>7, <2>1, <2>2 DEF BookLoan, Book, TypeOK, Loan, Row
    <2>5. vehicleStatus' \in [Vehicle -> {"PROPOSED", "FINANCED"}]
      BY <1>7, <2>1 DEF BookLoan, Book, TypeOK, Row
    <2> QED
      BY <1>7, <2>3, <2>4, <2>5 DEF BookLoan, Book, TypeOK
  <1>8. CASE UNCHANGED vars
    BY <1>8 DEF vars, TypeOK
  <1> QED
    BY <1>1, <1>2, <1>3, <1>4, <1>5, <1>6, <1>7, <1>8 DEF Next

\* Every column, list and table of the workflow has its type in every reachable state.
THEOREM TypeCorrect == Spec => []TypeOK
  <1>1. Init => TypeOK
    BY DEF Init, TypeOK, NoRow
  <1> QED
    BY <1>1, TypeStep, PTL DEF Spec

-------------------------------------------------------------------------------
(* The inductive invariant, action by action.                              *)

Submissions == \A a \in App : SubmissionOnFile(a)

\* Nothing is on file for an application that has no row, or that is still a draft.
LEMMA NothingOnFile ==
    ASSUME IInv, NEW a \in App, app[a].status \in {"NONE", "DRAFT"}
    PROVE  /\ submitters[a] = {} /\ assessments[a] = << >> /\ decisions[a] = << >>
           /\ LoansFor(a) = {} /\ ~Approved(a)
  BY DEF IInv, SubmissionOnFile, StatusBacked, StatusBackedFor

\* What StatusBackedFor says depends on one row and the lists beside it.
LEMMA StatusBackedElsewhere ==
    ASSUME NEW a \in App, StatusBackedFor(a), app'[a] = app[a], decisions'[a] = decisions[a],
           (assessments[a] # << >> => assessments'[a] # << >>), LoansFor(a)' = LoansFor(a)
    PROVE  StatusBackedFor(a)'
  BY DEF StatusBackedFor, Approved

\* A new draft starts with nothing on file (create_application).
LEMMA CreateKeeps ==
    ASSUME IInv, TypeOK', NEW a \in App, NEW u \in User, NEW v \in Vehicle, NEW t \in Terms,
           CreateApplication(a, u, v, t)
    PROVE  IInv'
  <1>1. /\ \A b \in App \ {a} : app'[b] = app[b]
        /\ app'[a].status = "DRAFT" /\ ~app'[a].submitted
        /\ UNCHANGED <<submitters, assessments, decisions, loans, vehicleStatus>>
    BY DEF CreateApplication, IInv, TypeOK
  <1>2. /\ submitters[a] = {} /\ assessments[a] = << >> /\ decisions[a] = << >>
        /\ LoansFor(a) = {} /\ ~Approved(a)
    BY NothingOnFile DEF CreateApplication, NoRow
  <1>3. Submissions'
    BY <1>1, <1>2 DEF IInv, Submissions, SubmissionOnFile, Assessable
  <1>4. FourEyes'
    BY <1>1, <1>2 DEF IInv, FourEyes
  <1>5. AssessedOnCarriedTerms'
    BY <1>1, <1>2 DEF IInv, AssessedOnCarriedTerms, FiguresOnFile, LoansFor
  <1>6. SanctionWithinPolicy'
    BY <1>1, <1>2 DEF IInv, SanctionWithinPolicy, DecisionSound
  <1>7. StatusBacked'
    <2>1. StatusBackedFor(a)'
      BY <1>1, <1>2 DEF StatusBackedFor, Approved, LoansFor
    <2> QED
      BY <1>1, <2>1, StatusBackedElsewhere DEF IInv, StatusBacked, LoansFor
  <1>8. VehicleFinanced'
    BY <1>1 DEF IInv, VehicleFinanced
  <1> QED
    BY <1>3, <1>4, <1>5, <1>6, <1>7, <1>8 DEF IInv, Submissions

\* An edit reaches a draft only, when no assessment or decision can disagree with it
\* (update_application).
LEMMA UpdateKeeps ==
    ASSUME IInv, TypeOK', NEW a \in App, NEW u \in User, NEW t \in Terms, NEW v \in Vehicle,
           UpdateApplication(a, u, t, v)
    PROVE  IInv'
  <1>1. /\ \A b \in App \ {a} : app'[b] = app[b]
        /\ app'[a].status = "DRAFT" /\ app'[a].submitted = app[a].submitted
        /\ UNCHANGED <<submitters, assessments, decisions, loans, vehicleStatus>>
    <2>1. app[a] \in Row
      BY RowPresent DEF UpdateApplication, IInv
    <2> QED
      BY <2>1 DEF UpdateApplication, EditRow, IInv, TypeOK, Row
  <1>2. /\ submitters[a] = {} /\ assessments[a] = << >> /\ decisions[a] = << >>
        /\ LoansFor(a) = {} /\ ~Approved(a)
    BY NothingOnFile DEF UpdateApplication
  <1>3. Submissions'
    <2>1. ~app[a].submitted
      BY DEF UpdateApplication, IInv, SubmissionOnFile
    <2> QED
      BY <1>1, <1>2, <2>1 DEF IInv, Submissions, SubmissionOnFile, Assessable
  <1>4. FourEyes'
    BY <1>1, <1>2 DEF IInv, FourEyes
  <1>5. AssessedOnCarriedTerms'
    BY <1>1, <1>2 DEF IInv, AssessedOnCarriedTerms, FiguresOnFile, LoansFor
  <1>6. SanctionWithinPolicy'
    BY <1>1, <1>2 DEF IInv, SanctionWithinPolicy, DecisionSound
  <1>7. StatusBacked'
    <2>1. StatusBackedFor(a)'
      BY <1>1, <1>2 DEF StatusBackedFor, Approved, LoansFor
    <2> QED
      BY <1>1, <2>1, StatusBackedElsewhere DEF IInv, StatusBacked, LoansFor
  <1>8. VehicleFinanced'
    BY <1>1 DEF IInv, VehicleFinanced
  <1> QED
    BY <1>3, <1>4, <1>5, <1>6, <1>7, <1>8 DEF IInv, Submissions

\* A submission writes the audit row and updated_by together: the two agree from here on
\* (submit).
LEMMA SubmitKeeps ==
    ASSUME IInv, TypeOK', NEW a \in App, NEW u \in User, SubmitApplication(a, u)
    PROVE  IInv'
  <1>0. app[a].status = "DRAFT"
    BY DEF SubmitApplication, CanTransition, AllowedTransitions
  <1>1. /\ \A b \in App \ {a} : app'[b] = app[b] /\ submitters'[b] = submitters[b]
        /\ app'[a].status = "SUBMITTED" /\ app'[a].submitted /\ app'[a].updated_by = u
        /\ submitters'[a] = submitters[a] \cup {u}
        /\ UNCHANGED <<assessments, decisions, loans, vehicleStatus>>
    <2>1. app[a] \in Row
      BY <1>0, RowPresent DEF IInv
    <2> QED
      BY <2>1 DEF SubmitApplication, IInv, TypeOK, Row
  <1>2. /\ submitters[a] = {} /\ assessments[a] = << >> /\ decisions[a] = << >>
        /\ LoansFor(a) = {} /\ ~Approved(a)
    BY <1>0, NothingOnFile
  <1>3. Submissions'
    BY <1>1, <1>2 DEF IInv, Submissions, SubmissionOnFile, Assessable
  <1>4. FourEyes'
    BY <1>1, <1>2 DEF IInv, FourEyes
  <1>5. AssessedOnCarriedTerms'
    BY <1>1, <1>2 DEF IInv, AssessedOnCarriedTerms, FiguresOnFile, LoansFor
  <1>6. SanctionWithinPolicy'
    BY <1>1, <1>2 DEF IInv, SanctionWithinPolicy, DecisionSound
  <1>7. StatusBacked'
    <2>1. StatusBackedFor(a)'
      BY <1>1, <1>2 DEF StatusBackedFor, Approved, LoansFor
    <2> QED
      BY <1>1, <2>1, StatusBackedElsewhere DEF IInv, StatusBacked, LoansFor
  <1>8. VehicleFinanced'
    BY <1>1 DEF IInv, VehicleFinanced
  <1> QED
    BY <1>3, <1>4, <1>5, <1>6, <1>7, <1>8 DEF IInv, Submissions

\* A withdrawal closes a file on which nobody has ruled (withdraw).
LEMMA WithdrawKeeps ==
    ASSUME IInv, TypeOK', NEW a \in App, NEW u \in User, WithdrawApplication(a, u)
    PROVE  IInv'
  <1>0. app[a].status \in {"DRAFT", "SUBMITTED", "UNDER_ASSESSMENT", "PENDING_DECISION"}
    BY DEF WithdrawApplication, CanTransition, AllowedTransitions
  <1>1. /\ \A b \in App \ {a} : app'[b] = app[b]
        /\ app'[a].status = "WITHDRAWN" /\ app'[a].terms = app[a].terms
        /\ app'[a].vehicle = app[a].vehicle /\ app'[a].price = app[a].price
        /\ app'[a].created_by = app[a].created_by
        /\ UNCHANGED <<submitters, assessments, decisions, loans, vehicleStatus>>
    <2>1. app[a] \in Row
      BY <1>0, RowPresent DEF IInv
    <2> QED
      BY <2>1 DEF WithdrawApplication, IInv, TypeOK, Row
  <1>2. decisions[a] = << >> /\ LoansFor(a) = {} /\ ~Approved(a)
    BY <1>0 DEF IInv, StatusBacked, StatusBackedFor
  <1>3. Submissions'
    BY <1>1 DEF IInv, Submissions, SubmissionOnFile, Assessable
  <1>4. FourEyes'
    BY <1>1, <1>2 DEF IInv, FourEyes
  <1>5. AssessedOnCarriedTerms'
    BY <1>1, <1>2 DEF IInv, AssessedOnCarriedTerms, FiguresOnFile, LoansFor
  <1>6. SanctionWithinPolicy'
    BY <1>1, <1>2 DEF IInv, SanctionWithinPolicy, DecisionSound
  <1>7. StatusBacked'
    <2>1. StatusBackedFor(a)'
      BY <1>1, <1>2 DEF StatusBackedFor, Approved, LoansFor
    <2> QED
      BY <1>1, <2>1, StatusBackedElsewhere DEF IInv, StatusBacked, LoansFor
  <1>8. VehicleFinanced'
    BY <1>1 DEF IInv, VehicleFinanced
  <1> QED
    BY <1>3, <1>4, <1>5, <1>6, <1>7, <1>8 DEF IInv, Submissions

\* An assessment is added behind the ones on file and leaves what decisions cite in place
\* (assess_application).
LEMMA AssessKeeps ==
    ASSUME IInv, TypeOK', NEW a \in App, NEW d \in Decision, NEW m \in Amount, NEW ltv \in Ltv,
           AssessApplication(a, d, m, ltv)
    PROVE  IInv'
  <1> DEFINE s == [saw |-> FiguresOnFile(a), recommendation |-> d, amount |-> m, ltv |-> ltv]
  <1>0. app[a].status \in Assessable \ {"UNDER_ASSESSMENT"} /\ app[a] \in Row
    BY RowPresent DEF AssessApplication, Assessable, IInv, StatusBacked, StatusBackedFor
  <1>1. /\ \A b \in App \ {a} : app'[b] = app[b] /\ assessments'[b] = assessments[b]
        /\ UNCHANGED <<submitters, decisions, loans, vehicleStatus>>
    BY DEF AssessApplication, IInv, TypeOK
  <1>2. /\ app'[a].terms = app[a].terms /\ app'[a].created_by = app[a].created_by
        /\ app'[a].vehicle = app[a].vehicle
        /\ app'[a].updated_by = app[a].updated_by /\ app'[a].submitted = app[a].submitted
        /\ app'[a].price = app[a].price
        /\ app'[a].status = StatusAfterAssessment(app[a].status)
    BY <1>0 DEF AssessApplication, IInv, TypeOK, Row
  <1>3. /\ Len(assessments'[a]) = Len(assessments[a]) + 1
        /\ \A i \in 1..Len(assessments[a]) : assessments'[a][i] = assessments[a][i]
        /\ assessments'[a][Len(assessments[a]) + 1].saw = FiguresOnFile(a)
        /\ Len(assessments[a]) \in Nat
    <2>1. assessments[a] \in Seq(Assessment) /\ assessments'[a] = Append(assessments[a], s)
      BY DEF AssessApplication, IInv, TypeOK
    <2>2. s.saw = FiguresOnFile(a)
      OBVIOUS
    <2> HIDE DEF s
    <2> QED
      BY <2>1, <2>2
  <1>4. Submissions'
    <2>1. SubmissionOnFile(a)'
      BY <1>0, <1>1, <1>2
        DEF IInv, SubmissionOnFile, Assessable, StatusAfterAssessment
    <2> QED
      BY <1>1, <2>1 DEF IInv, Submissions, SubmissionOnFile
  <1>5. FourEyes'
    BY <1>1, <1>2 DEF IInv, FourEyes
  <1>6. AssessedOnCarriedTerms'
    <2> SUFFICES ASSUME NEW b \in App
                 PROVE  /\ \A i \in 1..Len(assessments'[b]) :
                              assessments'[b][i].saw = FiguresOnFile(b)'
                        /\ \A i \in 1..Len(decisions'[b]) :
                              decisions'[b][i].assessment \in 1..Len(assessments'[b])
                        /\ \A l \in LoansFor(b)' : l.vehicle = app'[b].vehicle
      BY DEF AssessedOnCarriedTerms
    <2>0. /\ \A i \in 1..Len(assessments[b]) : assessments[b][i].saw = FiguresOnFile(b)
          /\ \A i \in 1..Len(decisions[b]) :
                decisions[b][i].assessment \in 1..Len(assessments[b])
          /\ decisions'[b] = decisions[b]
          /\ \A l \in LoansFor(b)' : l.vehicle = app'[b].vehicle
          /\ FiguresOnFile(b)' = FiguresOnFile(b)
      BY <1>1, <1>2 DEF IInv, AssessedOnCarriedTerms, FiguresOnFile, LoansFor
    <2>1. CASE b = a
      <3>1. \A i \in 1..Len(assessments'[a]) :
               i \in 1..Len(assessments[a]) \/ i = Len(assessments[a]) + 1
        BY <1>3
      <3>2. 1..Len(assessments[a]) \subseteq 1..Len(assessments'[a])
        BY <1>3
      <3> QED
        BY <1>2, <1>3, <2>0, <2>1, <3>1, <3>2
    <2>2. CASE b # a
      BY <1>1, <2>0, <2>2
    <2> QED
      BY <2>1, <2>2
  <1>7. SanctionWithinPolicy'
    <2>1. ASSUME NEW b \in App, NEW i \in 1..Len(decisions[b])
          PROVE  DecisionSound(b, decisions[b][i])'
      <3>1. /\ DecisionSound(b, decisions[b][i])
            /\ decisions[b][i].assessment \in 1..Len(assessments[b])
            /\ decisions'[b][i] = decisions[b][i]
        BY <1>1, <2>1 DEF IInv, SanctionWithinPolicy, AssessedOnCarriedTerms
      <3>2. /\ assessments'[b][decisions[b][i].assessment]
                 = assessments[b][decisions[b][i].assessment]
            /\ app'[b].price = app[b].price
        BY <1>1, <1>2, <1>3, <3>1
      <3> QED
        BY <1>1, <3>1, <3>2 DEF DecisionSound
    <2> QED
      BY <1>1, <2>1 DEF IInv, SanctionWithinPolicy
  <1>8. StatusBacked'
    <2>1. StatusBackedFor(a) /\ assessments'[a] # << >>
      BY <1>3 DEF IInv, StatusBacked
    <2>2. StatusBackedFor(a)'
      BY <1>0, <1>1, <1>2, <2>1
        DEF StatusBackedFor, Approved, LoansFor, Assessable, StatusAfterAssessment
    <2> QED
      BY <1>1, <2>2, StatusBackedElsewhere DEF IInv, StatusBacked, LoansFor
  <1>9. VehicleFinanced'
    BY <1>1 DEF IInv, VehicleFinanced
  <1> QED
    BY <1>4, <1>5, <1>6, <1>7, <1>8, <1>9 DEF IInv, Submissions

\* The row names every officer the audit trail does, so a checker is neither.
LEMMA DecideKeeps ==
    ASSUME IInv, TypeOK', NEW a \in App, NEW u \in User, NEW d \in Decision, NEW m \in Amount,
           NEW j \in BOOLEAN, MakeDecision(a, u, d, m, j)
    PROVE  IInv'
  <1> DEFINE s == LatestAssessment(a)
             n == Len(assessments[a])
             e == [assessment |-> n, recommendation |-> s.recommendation, final |-> d,
                   amount |-> DecisionAmount(a, d, m), by |-> u, justified |-> j]
  <1> USE UserAssumption
  <1>0. /\ app[a].status = "PENDING_DECISION" /\ app[a] \in Row
        /\ assessments[a] # << >> /\ n \in 1..n /\ s \in Assessment
    BY RowPresent, LatestTyped DEF MakeDecision, MayDecide, IInv
  <1>1. /\ \A b \in App \ {a} : app'[b] = app[b] /\ decisions'[b] = decisions[b]
        /\ UNCHANGED <<submitters, assessments, loans, vehicleStatus>>
    BY DEF MakeDecision, IInv, TypeOK
  <1>2. /\ app'[a].terms = app[a].terms /\ app'[a].created_by = app[a].created_by
        /\ app'[a].vehicle = app[a].vehicle
        /\ app'[a].updated_by = app[a].updated_by /\ app'[a].submitted = app[a].submitted
        /\ app'[a].price = app[a].price /\ app'[a].status = StatusAfterDecision(d)
    BY <1>0 DEF MakeDecision, IInv, TypeOK, Row
  <1>3. decisions[a] = << >> /\ LoansFor(a) = {} /\ ~Approved(a)
    BY <1>0 DEF IInv, StatusBacked, StatusBackedFor
  <1>4. decisions'[a] = <<e>>
    BY <1>3 DEF MakeDecision, IInv, TypeOK
  <1>5. Len(decisions'[a]) = 1 /\ decisions'[a][1] = e /\ decisions'[a] # << >>
    <2> HIDE DEF e
    <2> QED
      BY <1>4
  <1>6. Submissions'
    <2>1. SubmissionOnFile(a)'
      BY <1>0, <1>1, <1>2
        DEF IInv, SubmissionOnFile, Assessable, StatusAfterDecision
    <2> QED
      BY <1>1, <2>1 DEF IInv, Submissions, SubmissionOnFile
  <1>7. FourEyes'
    <2>1. u \notin {app[a].created_by} \cup submitters[a]
      <3>1. app[a].submitted /\ submitters[a] = {app[a].updated_by}
        BY <1>0 DEF IInv, SubmissionOnFile, Assessable
      <3>2. u \notin Makers(app[a])
        BY DEF MakeDecision, MayDecide
      <3> QED
        BY <3>1, <3>2 DEF Makers
    <2>2. \A i \in 1..Len(decisions'[a]) : decisions'[a][i].by = u
      BY <1>5
    <2> QED
      BY <1>1, <1>2, <2>1, <2>2 DEF IInv, FourEyes
  <1>8. AssessedOnCarriedTerms'
    <2>1. \A i \in 1..Len(decisions'[a]) : decisions'[a][i].assessment \in 1..n
      BY <1>0, <1>5
    <2> QED
      BY <1>1, <1>2, <2>1 DEF IInv, AssessedOnCarriedTerms, FiguresOnFile, LoansFor
  <1>9. SanctionWithinPolicy'
    <2>1. DecisionSound(a, e)'
      <3>1. /\ IsOverride(d, s.recommendation) => OverrideAllowed(u, j)
            /\ d = "APPROVE" => Approvable(DecisionAmount(a, d, m), s.ltv, app[a].price)
        BY DEF MakeDecision, MayDecide, DecisionAmount
      <3>2. /\ e.recommendation = s.recommendation /\ e.final = d /\ e.by = u
            /\ e.justified = j /\ e.amount = DecisionAmount(a, d, m) /\ e.assessment = n
        OBVIOUS
      <3>3. assessments'[a][n] = s
        BY <1>1 DEF LatestAssessment
      <3>4. e' = e
        BY <1>1, <1>2 DEF DecisionAmount, LatestAssessment
      <3> HIDE DEF e, s, n
      <3> QED
        BY <1>2, <3>1, <3>2, <3>3, <3>4 DEF DecisionSound, Approvable
    <2>2. \A b \in App : \A i \in 1..Len(decisions'[b]) : DecisionSound(b, decisions[b][i])'
      <3> SUFFICES ASSUME NEW b \in App, NEW i \in 1..Len(decisions'[b])
                   PROVE  DecisionSound(b, decisions[b][i])'
        OBVIOUS
      <3>1. CASE b = a
        <4>1. decisions'[b][i] = e
          BY <1>5, <3>1
        <4>2. e' = e
          BY <1>1, <1>2 DEF DecisionAmount, LatestAssessment
        <4> HIDE DEF e
        <4> QED
          BY <2>1, <3>1, <4>1, <4>2
      <3>2. CASE b # a
        BY <1>1, <3>2 DEF IInv, SanctionWithinPolicy, DecisionSound
      <3> QED
        BY <3>1, <3>2
    <2>3. \A l \in loans : l.application # a
      BY <1>3 DEF LoansFor
    <2>4. \A l \in loans : l.application \in App
      BY DEF IInv, TypeOK, Loan
    <2> QED
      BY <1>1, <2>2, <2>3, <2>4 DEF IInv, SanctionWithinPolicy
  <1>10. StatusBacked'
    <2>1. Approved(a)' <=> d = "APPROVE"
      BY <1>5 DEF Approved
    <2>2. StatusBackedFor(a)'
      BY <1>0, <1>1, <1>2, <1>3, <1>5, <2>1
        DEF StatusBackedFor, LoansFor, StatusAfterDecision
    <2> QED
      BY <1>1, <2>2, StatusBackedElsewhere DEF IInv, StatusBacked, LoansFor
  <1>11. VehicleFinanced'
    BY <1>1 DEF IInv, VehicleFinanced
  <1> QED
    BY <1>6, <1>7, <1>8, <1>9, <1>10, <1>11 DEF IInv, Submissions

\* Booking adds the loan, its vehicle and the status in one step, for the sum of the decision
\* (book_loan).
LEMMA BookKeeps ==
    ASSUME IInv, TypeOK', NEW a \in App, BookLoan(a)
    PROVE  IInv'
  <1> DEFINE l0 == [application |-> a, vehicle |-> app[a].vehicle,
                    principal |-> LatestDecision(a).amount]
  <1>0. /\ app[a].status = "APPROVED" /\ app[a] \in Row
        /\ decisions[a] # << >> /\ LatestDecision(a).final = "APPROVE"
        /\ Len(decisions[a]) \in 1..Len(decisions[a])
        /\ LoansFor(a) = {}
    BY RowPresent, LatestTyped DEF BookLoan, MayBook, IInv
  <1>1. /\ \A b \in App \ {a} : app'[b] = app[b]
        /\ UNCHANGED <<submitters, assessments, decisions>>
        /\ loans' = loans \cup {l0}
    BY DEF BookLoan, Book, IInv, TypeOK
  <1>2. /\ app'[a].terms = app[a].terms /\ app'[a].created_by = app[a].created_by
        /\ app'[a].vehicle = app[a].vehicle
        /\ app'[a].updated_by = app[a].updated_by /\ app'[a].submitted = app[a].submitted
        /\ app'[a].price = app[a].price /\ app'[a].status = "DISBURSED"
    BY <1>0 DEF BookLoan, Book, IInv, TypeOK, Row
  <1>3. l0.application = a /\ l0.vehicle = app[a].vehicle
        /\ l0.principal = LatestDecision(a).amount
    OBVIOUS
  <1>4. Submissions'
    <2>1. SubmissionOnFile(a)'
      BY <1>0, <1>1, <1>2 DEF IInv, SubmissionOnFile, Assessable
    <2> QED
      BY <1>1, <2>1 DEF IInv, Submissions, SubmissionOnFile
  <1>5. FourEyes'
    BY <1>1, <1>2 DEF IInv, FourEyes
  <1>6. AssessedOnCarriedTerms'
    <2>1. \A b \in App : \A l \in LoansFor(b)' : l.vehicle = app'[b].vehicle
      <3> HIDE DEF l0
      <3> QED
        BY <1>1, <1>2, <1>3 DEF IInv, AssessedOnCarriedTerms, LoansFor
    <2>2. \A b \in App : FiguresOnFile(b)' = FiguresOnFile(b)
      BY <1>1, <1>2 DEF FiguresOnFile
    <2> QED
      BY <1>1, <2>1, <2>2 DEF IInv, AssessedOnCarriedTerms
  <1>7. SanctionWithinPolicy'
    <2>1. \A b \in App : \A i \in 1..Len(decisions'[b]) : DecisionSound(b, decisions[b][i])'
      BY <1>1, <1>2 DEF IInv, SanctionWithinPolicy, DecisionSound
    <2>2. \E i \in 1..Len(decisions[a]) :
             decisions[a][i].final = "APPROVE" /\ decisions[a][i].amount = l0.principal
      BY <1>0, <1>3 DEF LatestDecision
    <2> HIDE DEF l0
    <2> QED
      BY <1>1, <1>3, <2>1, <2>2 DEF IInv, SanctionWithinPolicy
  <1>8. StatusBacked'
    <2>1. LoansFor(a)' = {l0} /\ \A b \in App \ {a} : LoansFor(b)' = LoansFor(b)
      <3> HIDE DEF l0
      <3> QED
        BY <1>0, <1>1, <1>3 DEF LoansFor
    <2>2. StatusBackedFor(a)'
      BY <1>0, <1>1, <1>2, <2>1
        DEF IInv, StatusBacked, StatusBackedFor, Approved
    <2> QED
      BY <1>1, <2>1, <2>2, StatusBackedElsewhere DEF IInv, StatusBacked
  <1>9. VehicleFinanced'
    <2>1. /\ vehicleStatus'[app[a].vehicle] = "FINANCED"
          /\ \A v \in Vehicle \ {app[a].vehicle} : vehicleStatus'[v] = vehicleStatus[v]
      BY <1>0 DEF BookLoan, Book, IInv, TypeOK, Row
    <2> HIDE DEF l0
    <2> QED
      BY <1>1, <1>3, <2>1 DEF IInv, VehicleFinanced
  <1> QED
    BY <1>4, <1>5, <1>6, <1>7, <1>8, <1>9 DEF IInv, Submissions

\* A step that changes nothing.
LEMMA StutterKeeps ==
    ASSUME IInv, UNCHANGED vars
    PROVE  IInv'
  BY DEF IInv, vars, TypeOK, SubmissionOnFile, FourEyes, AssessedOnCarriedTerms,
         FiguresOnFile, SanctionWithinPolicy, DecisionSound, StatusBacked, StatusBackedFor, Approved, LoansFor,
         VehicleFinanced

\* Every request keeps the invariant.
LEMMA InvariantStep ==
    ASSUME IInv, [Next]_vars
    PROVE  IInv'
  <1>1. TypeOK'
    BY TypeStep DEF IInv
  <1> QED
    BY <1>1, CreateKeeps, UpdateKeeps, SubmitKeeps, WithdrawKeeps, AssessKeeps, DecideKeeps,
       BookKeeps, StutterKeeps DEF Next

\* The empty database satisfies the invariant.
LEMMA InvariantInit ==
    ASSUME Init
    PROVE  IInv
  <1>1. TypeOK
    BY DEF Init, TypeOK, NoRow
  <1>2. /\ \A a \in App : app[a].status = "NONE" /\ submitters[a] = {}
                          /\ assessments[a] = << >> /\ decisions[a] = << >>
        /\ loans = {} /\ \A v \in Vehicle : vehicleStatus[v] = "PROPOSED"
    BY DEF Init, NoRow
  <1> QED
    BY <1>1, <1>2
      DEF IInv, SubmissionOnFile, Assessable, FourEyes, AssessedOnCarriedTerms,
          SanctionWithinPolicy, StatusBacked, StatusBackedFor, Approved, LoansFor,
          VehicleFinanced

-------------------------------------------------------------------------------
(* The theorems.                                                           *)

\* The strengthening holds in every reachable state: every officer the audit trail names as
\* submitter is the one the row's updated_by names, so long as the file is undecided.
THEOREM Invariant == Spec => []IInv
  BY InvariantInit, InvariantStep, PTL DEF Spec

\* Nobody rules on a file they raised or put forward (_enforce_maker_checker).
THEOREM FourEyesHolds == Spec => []FourEyes
  <1>1. IInv => FourEyes
    BY DEF IInv
  <1> QED
    BY <1>1, Invariant, PTL

\* Every assessment was run on the terms, the vehicle and the price the file carries, and a
\* loan finances the vehicle assessed (update_application, book_loan).
THEOREM TermsHold == Spec => []AssessedOnCarriedTerms
  <1>1. IInv => AssessedOnCarriedTerms
    BY DEF IInv
  <1> QED
    BY <1>1, Invariant, PTL

\* Approvals stay under the cited ceiling, overrides are accountable, and loans are for the
\* sum approved (make_decision, _validated_amount, book_loan).
THEOREM SanctionHolds == Spec => []SanctionWithinPolicy
  <1>1. IInv => SanctionWithinPolicy
    BY DEF IInv
  <1> QED
    BY <1>1, Invariant, PTL

\* The status agrees with the decisions, assessments and loans behind it.
THEOREM StatusHolds == Spec => []StatusBacked
  <1>1. IInv => StatusBacked
    BY DEF IInv
  <1> QED
    BY <1>1, Invariant, PTL

\* A vehicle is FINANCED exactly when a loan names it (book_loan).
THEOREM VehicleHolds == Spec => []VehicleFinanced
  <1>1. IInv => VehicleFinanced
    BY DEF IInv
  <1> QED
    BY <1>1, Invariant, PTL

-------------------------------------------------------------------------------
(* The contract.  Underwriting implements OriginationContract, and moves   *)
(* statuses only along the table.  The refinement needs the invariant:     *)
(* that the checker is no maker, that an open file has no decision, and    *)
(* that an approval is for a positive sum.                                 *)

\* One request moves a status along one entry of the table, or two in a row.
LEMMA MoveStep ==
    ASSUME IInv, [Next]_vars, NEW a \in App
    PROVE  LET s == app[a].status
               t == app'[a].status
           IN  \/ s = t
               \/ s = "NONE" /\ t = "DRAFT"
               \/ CanTransition(s, t)
               \/ \E m \in Status : CanTransition(s, m) /\ CanTransition(m, t)
  <1> DEFINE Moved(b) == \/ app'[b].status = app[b].status
                         \/ app[b].status = "NONE" /\ app'[b].status = "DRAFT"
                         \/ CanTransition(app[b].status, app'[b].status)
                         \/ \E m \in Status : /\ CanTransition(app[b].status, m)
                                              /\ CanTransition(m, app'[b].status)
  <1>1. ASSUME NEW b \in App, NEW u \in User, NEW v \in Vehicle, NEW t \in Terms,
               CreateApplication(b, u, v, t)
        PROVE  Moved(a)
    BY <1>1 DEF CreateApplication, NoRow, IInv, TypeOK
  <1>2. ASSUME NEW b \in App, NEW u \in User, NEW t \in Terms, NEW v \in Vehicle,
               UpdateApplication(b, u, t, v)
        PROVE  Moved(a)
    <2>1. app[b] \in Row
      BY <1>2, RowPresent DEF UpdateApplication, IInv
    <2> QED
      BY <1>2, <2>1 DEF UpdateApplication, EditRow, IInv, TypeOK, Row
  <1>3. ASSUME NEW b \in App, NEW u \in User, SubmitApplication(b, u)
        PROVE  Moved(a)
    <2>1. app[b] \in Row
      BY <1>3, RowPresent DEF SubmitApplication, CanTransition, AllowedTransitions, IInv
    <2>2. app'[b].status = "SUBMITTED" /\ (a # b => app'[a] = app[a])
      BY <1>3, <2>1 DEF SubmitApplication, IInv, TypeOK, Row
    <2> QED
      BY <1>3, <2>2 DEF SubmitApplication
  <1>4. ASSUME NEW b \in App, NEW u \in User, WithdrawApplication(b, u)
        PROVE  Moved(a)
    <2>1. app[b] \in Row
      BY <1>4, RowPresent DEF WithdrawApplication, CanTransition, AllowedTransitions, IInv
    <2>2. app'[b].status = "WITHDRAWN" /\ (a # b => app'[a] = app[a])
      BY <1>4, <2>1 DEF WithdrawApplication, IInv, TypeOK, Row
    <2> QED
      BY <1>4, <2>2 DEF WithdrawApplication
  <1>5. ASSUME NEW b \in App, NEW d \in Decision, NEW m \in Amount, NEW ltv \in Ltv,
               AssessApplication(b, d, m, ltv)
        PROVE  Moved(a)
    <2>1. app[b].status \in Assessable /\ app[b] \in Row
      BY <1>5, RowPresent DEF AssessApplication, Assessable, IInv
    <2>2. /\ app'[b].status = StatusAfterAssessment(app[b].status)
          /\ a # b => app'[a] = app[a]
      BY <1>5, <2>1 DEF AssessApplication, IInv, TypeOK, Row
    <2> QED
      BY <2>1, <2>2 DEF Assessable, StatusAfterAssessment, CanTransition, AllowedTransitions,
                        Status
  <1>6. ASSUME NEW b \in App, NEW u \in User, NEW d \in Decision, NEW m \in Amount,
               NEW j \in BOOLEAN, MakeDecision(b, u, d, m, j)
        PROVE  Moved(a)
    <2>1. app[b].status = "PENDING_DECISION" /\ app[b] \in Row
      BY <1>6, RowPresent DEF MakeDecision, MayDecide, IInv
    <2>2. app'[b].status \in {"APPROVED", "REJECTED"} /\ (a # b => app'[a] = app[a])
      BY <1>6, <2>1, StatusTyped DEF MakeDecision, IInv, TypeOK, Row
    <2> QED
      BY <2>1, <2>2 DEF CanTransition, AllowedTransitions
  <1>7. ASSUME NEW b \in App, BookLoan(b)
        PROVE  Moved(a)
    <2>1. app[b].status = "APPROVED" /\ app[b] \in Row
      BY <1>7, RowPresent DEF BookLoan, MayBook, IInv
    <2>2. app'[b].status = "DISBURSED" /\ (a # b => app'[a] = app[a])
      BY <1>7, <2>1 DEF BookLoan, Book, IInv, TypeOK, Row
    <2> QED
      BY <2>1, <2>2 DEF CanTransition, AllowedTransitions
  <1>8. ASSUME UNCHANGED vars
        PROVE  Moved(a)
    BY <1>8 DEF vars
  <1>9. Moved(a)
    <2> HIDE DEF Moved
    <2> QED
      BY <1>1, <1>2, <1>3, <1>4, <1>5, <1>6, <1>7, <1>8 DEF Next
  <1> QED
    BY <1>9

\* Statuses move only along ALLOWED_TRANSITIONS, booking's plain assignment included.
THEOREM MovesHold == Spec => MovesFollowTable
  <1>1. IInv /\ [Next]_vars =>
           [\A a \in App :
              LET s == app[a].status
                  t == app'[a].status
              IN  \/ s = t
                  \/ s = "NONE" /\ t = "DRAFT"
                  \/ CanTransition(s, t)
                  \/ \E m \in Status : CanTransition(s, m) /\ CanTransition(m, t)]_vars
    BY MoveStep
  <1> QED
    BY <1>1, Invariant, PTL DEF Spec, MovesFollowTable

-------------------------------------------------------------------------------
(* The refinement.                                                         *)

Mapped(a) == <<phase[a], makers[a], signed[a], sanction[a], advanced[a]>>

\* What the mapping says of a file depends on its row and the lists beside it.
LEMMA MappedElsewhere ==
    ASSUME NEW b \in App, app'[b] = app[b], submitters'[b] = submitters[b],
           decisions'[b] = decisions[b], LoansFor(b)' = LoansFor(b)
    PROVE  Mapped(b)' = Mapped(b)
  BY DEF Mapped, phase, makers, signed, sanction, advanced, LatestDecision

\* The mapping of every file at once.
LEMMA MappedFunctions ==
    /\ phase = [a \in App |-> phase[a]] /\ makers = [a \in App |-> makers[a]]
    /\ signed = [a \in App |-> signed[a]] /\ sanction = [a \in App |-> sanction[a]]
    /\ advanced = [a \in App |-> advanced[a]]
    /\ phase' = [a \in App |-> phase'[a]] /\ makers' = [a \in App |-> makers'[a]]
    /\ signed' = [a \in App |-> signed'[a]] /\ sanction' = [a \in App |-> sanction'[a]]
    /\ advanced' = [a \in App |-> advanced'[a]]
  <1>1. phase = [a \in App |-> phase[a]] /\ phase' = [a \in App |-> phase'[a]]
    BY DEF phase
  <1>2. makers = [a \in App |-> makers[a]] /\ makers' = [a \in App |-> makers'[a]]
    BY DEF makers
  <1>3. signed = [a \in App |-> signed[a]] /\ signed' = [a \in App |-> signed'[a]]
    BY DEF signed
  <1>4. sanction = [a \in App |-> sanction[a]] /\ sanction' = [a \in App |-> sanction'[a]]
    BY DEF sanction
  <1>5. advanced = [a \in App |-> advanced[a]] /\ advanced' = [a \in App |-> advanced'[a]]
    BY DEF advanced
  <1> QED
    BY <1>1, <1>2, <1>3, <1>4, <1>5

\* A function that changes at one place is an EXCEPT of the old one, or the old one.
LEMMA ChangedOnce ==
    ASSUME NEW S, NEW f, NEW g, f = [x \in S |-> f[x]], g = [x \in S |-> g[x]],
           NEW a \in S, \A b \in S \ {a} : g[b] = f[b]
    PROVE  /\ g = [f EXCEPT ![a] = g[a]]
           /\ g[a] = f[a] => g = f
  <1>1. \A b \in S : g[b] = [f EXCEPT ![a] = g[a]][b]
    OBVIOUS
  <1>2. g = [f EXCEPT ![a] = g[a]]
    BY <1>1
  <1> QED
    BY <1>2

\* One file's mapping changes at a time: the rest stands.
LEMMA MappedOne ==
    ASSUME NEW a \in App, \A b \in App \ {a} : Mapped(b)' = Mapped(b)
    PROVE  /\ phase' = [phase EXCEPT ![a] = phase'[a]]
           /\ makers' = [makers EXCEPT ![a] = makers'[a]]
           /\ signed' = [signed EXCEPT ![a] = signed'[a]]
           /\ sanction' = [sanction EXCEPT ![a] = sanction'[a]]
           /\ advanced' = [advanced EXCEPT ![a] = advanced'[a]]
           /\ phase'[a] = phase[a] => phase' = phase
           /\ makers'[a] = makers[a] => makers' = makers
           /\ signed'[a] = signed[a] => signed' = signed
           /\ sanction'[a] = sanction[a] => sanction' = sanction
           /\ advanced'[a] = advanced[a] => advanced' = advanced
  <1>1. \A b \in App \ {a} : /\ phase'[b] = phase[b] /\ makers'[b] = makers[b]
                             /\ signed'[b] = signed[b] /\ sanction'[b] = sanction[b]
                             /\ advanced'[b] = advanced[b]
    BY DEF Mapped
  <1>2. phase' = [phase EXCEPT ![a] = phase'[a]] /\ (phase'[a] = phase[a] => phase' = phase)
    BY <1>1, MappedFunctions, ChangedOnce
  <1>3. makers' = [makers EXCEPT ![a] = makers'[a]]
        /\ (makers'[a] = makers[a] => makers' = makers)
    BY <1>1, MappedFunctions, ChangedOnce
  <1>4. signed' = [signed EXCEPT ![a] = signed'[a]]
        /\ (signed'[a] = signed[a] => signed' = signed)
    BY <1>1, MappedFunctions, ChangedOnce
  <1>5. sanction' = [sanction EXCEPT ![a] = sanction'[a]]
        /\ (sanction'[a] = sanction[a] => sanction' = sanction)
    BY <1>1, MappedFunctions, ChangedOnce
  <1>6. advanced' = [advanced EXCEPT ![a] = advanced'[a]]
        /\ (advanced'[a] = advanced[a] => advanced' = advanced)
    BY <1>1, MappedFunctions, ChangedOnce
  <1> QED
    BY <1>2, <1>3, <1>4, <1>5, <1>6

\* A step that leaves the mapping of every file alone is a stutter of the contract.
LEMMA MappedStutter ==
    ASSUME NEW a \in App, \A b \in App : Mapped(b)' = Mapped(b)
    PROVE  UNCHANGED Contract!cvars
  <1>1. /\ phase'[a] = phase[a] /\ makers'[a] = makers[a] /\ signed'[a] = signed[a]
        /\ sanction'[a] = sanction[a] /\ advanced'[a] = advanced[a]
    BY DEF Mapped
  <1> QED
    BY <1>1, MappedOne DEF Contract!cvars

\* A new draft opens the file.
LEMMA CreateOpens ==
    ASSUME IInv, NEW a \in App, NEW u \in User, NEW v \in Vehicle, NEW t \in Terms,
           CreateApplication(a, u, v, t)
    PROVE  Contract!Open(a, u)
  <1>1. /\ \A b \in App \ {a} : app'[b] = app[b]
        /\ app[a] = NoRow /\ app'[a] \in Row
        /\ app'[a].status = "DRAFT" /\ app'[a].created_by = u
        /\ UNCHANGED <<submitters, assessments, decisions, loans, vehicleStatus>>
    BY RulesAssumption DEF CreateApplication, IInv, TypeOK, Row, Status
  <1>2. submitters[a] = {} /\ decisions[a] = << >> /\ LoansFor(a) = {}
    BY <1>1, NothingOnFile DEF NoRow
  <1>3. \A b \in App \ {a} : Mapped(b)' = Mapped(b)
    BY <1>1, MappedElsewhere DEF LoansFor
  <1>4. phase[a] = "none" /\ phase'[a] = "open"
    BY <1>1 DEF phase, NoRow
  <1>5. app'[a] # NoRow
    BY <1>1 DEF NoRow
  <1>6. makers'[a] = {u}
    BY <1>1, <1>2, <1>5 DEF makers
  <1>7. signed'[a] = signed[a] /\ sanction'[a] = sanction[a] /\ advanced'[a] = advanced[a]
    BY <1>1, <1>2 DEF signed, sanction, advanced, LoansFor, NoRow
  <1>8. /\ phase' = [phase EXCEPT ![a] = "open"]
        /\ makers' = [makers EXCEPT ![a] = {u}]
    BY <1>3, <1>4, <1>6, MappedOne
  <1>9. UNCHANGED <<signed, sanction, advanced>>
    BY <1>3, <1>7, MappedOne
  <1> QED
    BY <1>4, <1>8, <1>9 DEF Contract!Open

\* An edit or an assessment is no step of the contract.
LEMMA UpdateStutters ==
    ASSUME IInv, NEW a \in App, NEW u \in User, NEW t \in Terms, NEW v \in Vehicle,
               UpdateApplication(a, u, t, v)
    PROVE  UNCHANGED Contract!cvars
  <1>1. app[a] \in Row
    BY RowPresent DEF UpdateApplication, IInv
  <1>2. /\ \A b \in App \ {a} : app'[b] = app[b]
        /\ app[a] # NoRow /\ app'[a] # NoRow
        /\ app[a].status = "DRAFT" /\ app'[a].status = "DRAFT"
        /\ app'[a].created_by = app[a].created_by
        /\ UNCHANGED <<submitters, assessments, decisions, loans, vehicleStatus>>
    <2>1. app[a] # NoRow
      BY DEF UpdateApplication, NoRow
    <2>2. app'[a] = EditRow(app[a], u, t, v) /\ app'[a] \in Row
      BY <1>1 DEF UpdateApplication, EditRow, IInv, TypeOK, Row
    <2>3. app'[a] # NoRow
      BY <1>1, <2>2 DEF UpdateApplication, EditRow, NoRow, Row
    <2> QED
      BY <1>1, <2>1, <2>2, <2>3 DEF UpdateApplication, EditRow, IInv, TypeOK, Row
  <1>3. Mapped(a)' = Mapped(a)
    BY <1>2 DEF Mapped, phase, makers, signed, sanction, advanced, LoansFor
  <1>4. \A b \in App : Mapped(b)' = Mapped(b)
    BY <1>2, <1>3, MappedElsewhere DEF LoansFor
  <1> QED
    BY <1>4, MappedStutter

\* An assessment moves a file within "open", or leaves a sanction standing.
LEMMA AssessStutters ==
    ASSUME IInv, NEW a \in App, NEW d \in Decision, NEW m \in Amount, NEW ltv \in Ltv,
           AssessApplication(a, d, m, ltv)
    PROVE  UNCHANGED Contract!cvars
  <1>1. app[a].status \in Assessable /\ app[a] \in Row
    BY RowPresent DEF AssessApplication, Assessable, IInv
  <1>2. /\ \A b \in App \ {a} : app'[b] = app[b]
        /\ app'[a].status = StatusAfterAssessment(app[a].status)
        /\ app'[a].created_by = app[a].created_by
        /\ app[a] # NoRow /\ app'[a] # NoRow
        /\ UNCHANGED <<submitters, decisions, loans, vehicleStatus>>
    BY <1>1 DEF AssessApplication, StatusAfterAssessment, Assessable, IInv, TypeOK, Row, NoRow
  <1>3. phase'[a] = phase[a]
    BY <1>1, <1>2 DEF phase, StatusAfterAssessment, Assessable
  <1>4. sanction'[a] = sanction[a]
    BY <1>1, <1>2 DEF sanction, StatusAfterAssessment, Assessable, LatestDecision
  <1>5. Mapped(a)' = Mapped(a)
    BY <1>2, <1>3, <1>4 DEF Mapped, makers, signed, advanced, LoansFor
  <1>6. \A b \in App : Mapped(b)' = Mapped(b)
    BY <1>2, <1>5, MappedElsewhere DEF LoansFor
  <1> QED
    BY <1>6, MappedStutter

\* A submission puts the file forward.
LEMMA SubmitPutsForward ==
    ASSUME IInv, NEW a \in App, NEW u \in User, SubmitApplication(a, u)
    PROVE  Contract!PutForward(a, u)
  <1>1. app[a].status = "DRAFT"
    BY DEF SubmitApplication, CanTransition, AllowedTransitions
  <1>2. app[a] \in Row /\ app[a] # NoRow
    BY <1>1, RowPresent DEF IInv, NoRow
  <1>3. /\ \A b \in App \ {a} : app'[b] = app[b] /\ submitters'[b] = submitters[b]
        /\ app'[a].status = "SUBMITTED" /\ app'[a].created_by = app[a].created_by
        /\ submitters'[a] = submitters[a] \cup {u}
        /\ UNCHANGED <<assessments, decisions, loans, vehicleStatus>>
    BY <1>2 DEF SubmitApplication, IInv, TypeOK, Row
  <1>4. app'[a] # NoRow
    BY <1>3 DEF NoRow
  <1>5. \A b \in App \ {a} : Mapped(b)' = Mapped(b)
    BY <1>3, MappedElsewhere DEF LoansFor
  <1>6. phase[a] = "open" /\ phase'[a] = "open"
    BY <1>1, <1>3 DEF phase
  <1>7. makers'[a] = makers[a] \cup {u}
    BY <1>2, <1>3, <1>4 DEF makers
  <1>8. signed'[a] = signed[a] /\ sanction'[a] = sanction[a] /\ advanced'[a] = advanced[a]
    BY <1>1, <1>3 DEF signed, sanction, advanced, LoansFor
  <1> QED
    BY <1>5, <1>6, <1>7, <1>8, MappedOne DEF Contract!PutForward

\* A withdrawal ends an open file.
LEMMA WithdrawWithdraws ==
    ASSUME IInv, NEW a \in App, NEW u \in User, WithdrawApplication(a, u)
    PROVE  Contract!Withdraw(a)
  <1>1. app[a].status \in {"DRAFT", "SUBMITTED", "UNDER_ASSESSMENT", "PENDING_DECISION"}
    BY DEF WithdrawApplication, CanTransition, AllowedTransitions
  <1>2. app[a] \in Row /\ app[a] # NoRow
    BY <1>1, RowPresent DEF IInv, NoRow
  <1>3. /\ \A b \in App \ {a} : app'[b] = app[b]
        /\ app'[a].status = "WITHDRAWN" /\ app'[a].created_by = app[a].created_by
        /\ UNCHANGED <<submitters, assessments, decisions, loans, vehicleStatus>>
    BY <1>2 DEF WithdrawApplication, IInv, TypeOK, Row
  <1>4. app'[a] # NoRow
    BY <1>3 DEF NoRow
  <1>5. \A b \in App \ {a} : Mapped(b)' = Mapped(b)
    BY <1>3, MappedElsewhere DEF LoansFor
  <1>6. phase[a] = "open" /\ phase'[a] = "withdrawn"
    BY <1>1, <1>3 DEF phase
  <1>7. makers'[a] = makers[a]
    BY <1>2, <1>3, <1>4 DEF makers
  <1>8. signed'[a] = signed[a] /\ sanction'[a] = sanction[a] /\ advanced'[a] = advanced[a]
    BY <1>1, <1>3 DEF signed, sanction, advanced, LoansFor
  <1> QED
    BY <1>5, <1>6, <1>7, <1>8, MappedOne DEF Contract!Withdraw

\* A decision sanctions or refuses the file, and is signed by none of its makers: this is
\* where the invariant is needed, for updated_by to stand for the audit trail.
LEMMA DecideRules ==
    ASSUME IInv, NEW a \in App, NEW u \in User, NEW d \in Decision, NEW m \in Amount,
           NEW j \in BOOLEAN, MakeDecision(a, u, d, m, j)
    PROVE  Contract!Sanction(a, u) \/ Contract!Refuse(a, u)
  <1> DEFINE sum == DecisionAmount(a, d, m)
             e == [assessment |-> Len(assessments[a]),
                   recommendation |-> LatestAssessment(a).recommendation, final |-> d,
                   amount |-> sum, by |-> u, justified |-> j]
  <1>1. app[a].status = "PENDING_DECISION" /\ app[a] \in Row /\ app[a] # NoRow
    BY RowPresent DEF MakeDecision, MayDecide, IInv, NoRow
  <1>2. /\ \A b \in App \ {a} : app'[b] = app[b] /\ decisions'[b] = decisions[b]
        /\ app'[a].status = StatusAfterDecision(d) /\ app'[a].created_by = app[a].created_by
        /\ UNCHANGED <<submitters, assessments, loans, vehicleStatus>>
    BY <1>1 DEF MakeDecision, IInv, TypeOK, Row
  <1>3. decisions[a] = << >> /\ LoansFor(a) = {}
    BY <1>1 DEF IInv, StatusBacked, StatusBackedFor
  <1>4. Len(decisions'[a]) = 1 /\ decisions'[a][1].by = u /\ decisions'[a][1].amount = sum
    <2>1. decisions'[a] = <<e>>
      BY <1>3 DEF MakeDecision, IInv, TypeOK
    <2>2. e.by = u /\ e.amount = sum
      OBVIOUS
    <2> HIDE DEF e
    <2> QED
      BY <2>1, <2>2
  <1>5. app'[a] # NoRow
    BY <1>2 DEF NoRow, StatusAfterDecision
  <1>6. \A b \in App \ {a} : Mapped(b)' = Mapped(b)
    BY <1>2, MappedElsewhere DEF LoansFor
  <1>7. phase[a] = "open" /\ u \notin makers[a]
    <2>1. app[a].submitted /\ submitters[a] = {app[a].updated_by}
      BY <1>1 DEF IInv, SubmissionOnFile, Assessable
    <2>2. u \notin Makers(app[a]) /\ u # NoUser
      BY UserAssumption DEF MakeDecision, MayDecide
    <2>3. makers[a] = {app[a].created_by} \cup submitters[a]
      BY <1>1 DEF makers
    <2> QED
      BY <1>1, <2>1, <2>2, <2>3 DEF Makers, phase
  <1>8. signed'[a] = signed[a] \cup {u}
    <2>1. signed[a] = {}
      BY <1>3 DEF signed
    <2>2. signed'[a] = {u}
      BY <1>4 DEF signed
    <2> QED
      BY <2>1, <2>2
  <1>9. makers'[a] = makers[a] /\ advanced'[a] = advanced[a]
    BY <1>1, <1>2, <1>5 DEF makers, advanced, LoansFor
  <1>10. CASE d = "APPROVE"
    <2>1. phase'[a] = "sanctioned" /\ sanction'[a] = sum
      BY <1>2, <1>4, <1>10 DEF phase, sanction, StatusAfterDecision, LatestDecision
    <2>2. sum > 0
      BY <1>10 DEF MakeDecision, MayDecide, DecisionAmount, Approvable
    <2> HIDE DEF sum
    <2> QED
      BY <1>6, <1>7, <1>8, <1>9, <2>1, <2>2, MappedOne DEF Contract!Sanction
  <1>11. CASE d # "APPROVE"
    <2>1. phase'[a] = "refused" /\ sanction'[a] = sanction[a]
      BY <1>1, <1>2, <1>11 DEF phase, sanction, StatusAfterDecision
    <2> QED
      BY <1>6, <1>7, <1>8, <1>9, <2>1, MappedOne DEF Contract!Refuse
  <1> QED
    BY <1>10, <1>11

\* Booking finances the file for the sum sanctioned.
LEMMA BookFinances ==
    ASSUME IInv, NEW a \in App, BookLoan(a)
    PROVE  Contract!Finance(a)
  <1> DEFINE l0 == [application |-> a, vehicle |-> app[a].vehicle,
                    principal |-> LatestDecision(a).amount]
  <1>1. app[a].status = "APPROVED" /\ app[a] \in Row /\ app[a] # NoRow /\ LoansFor(a) = {}
    BY RowPresent DEF BookLoan, MayBook, IInv, NoRow
  <1>2. /\ \A b \in App \ {a} : app'[b] = app[b]
        /\ app'[a].status = "DISBURSED" /\ app'[a].created_by = app[a].created_by
        /\ loans' = loans \cup {l0}
        /\ UNCHANGED <<submitters, assessments, decisions>>
    BY <1>1 DEF BookLoan, Book, IInv, TypeOK, Row
  <1>3. app'[a] # NoRow
    BY <1>2 DEF NoRow
  <1>4. l0.application = a /\ l0.principal = LatestDecision(a).amount
    OBVIOUS
  <1>5. LoansFor(a)' = {l0} /\ \A b \in App \ {a} : LoansFor(b)' = LoansFor(b)
    <2> HIDE DEF l0
    <2> QED
      BY <1>1, <1>2, <1>4 DEF LoansFor
  <1>6. \A b \in App \ {a} : Mapped(b)' = Mapped(b)
    BY <1>2, <1>5, MappedElsewhere
  <1>7. /\ phase[a] = "sanctioned" /\ phase'[a] = "financed"
        /\ makers'[a] = makers[a] /\ signed'[a] = signed[a]
    BY <1>1, <1>2, <1>3 DEF phase, makers, signed
  <1>8. sanction[a] = LatestDecision(a).amount /\ sanction'[a] = sanction[a]
    BY <1>1, <1>2 DEF sanction, LatestDecision
  <1>9. advanced'[a] = sanction[a]
    <2> HIDE DEF l0
    <2>1. (CHOOSE l \in {l0} : TRUE) = l0
      OBVIOUS
    <2> QED
      BY <1>4, <1>5, <1>8, <2>1 DEF advanced
  <1> QED
    BY <1>6, <1>7, <1>8, <1>9, MappedOne DEF Contract!Finance

\* The empty database is the contract's initial state.
LEMMA ContractInit ==
    ASSUME Init
    PROVE  Contract!Init
  BY DEF Init, NoRow, LoansFor, Contract!Init, phase, makers, signed, sanction, advanced

\* Every request is a step of the contract, or a stutter.
LEMMA ContractStep ==
    ASSUME IInv, [Next]_vars
    PROVE  [Contract!Next]_(Contract!cvars)
  <1>1. ASSUME UNCHANGED vars
        PROVE  UNCHANGED Contract!cvars
    BY <1>1 DEF vars, Contract!cvars, phase, makers, signed, sanction, advanced, LoansFor,
                LatestDecision
  <1>2. ASSUME NEW a \in App, NEW u \in User, NEW v \in Vehicle, NEW t \in Terms,
               CreateApplication(a, u, v, t)
        PROVE  Contract!Next
    BY <1>2, CreateOpens DEF Contract!Next
  <1>3. ASSUME NEW a \in App, NEW u \in User, SubmitApplication(a, u) \/ WithdrawApplication(a, u)
        PROVE  Contract!Next
    BY <1>3, SubmitPutsForward, WithdrawWithdraws DEF Contract!Next
  <1>4. ASSUME NEW a \in App, NEW d \in Decision, NEW m \in Amount, NEW ltv \in Ltv,
               AssessApplication(a, d, m, ltv)
        PROVE  UNCHANGED Contract!cvars
    BY <1>4, AssessStutters
  <1>5. ASSUME NEW a \in App, NEW u \in User, NEW d \in Decision, NEW m \in Amount,
               NEW j \in BOOLEAN, MakeDecision(a, u, d, m, j)
        PROVE  Contract!Next
    BY <1>5, DecideRules DEF Contract!Next
  <1>6. ASSUME NEW a \in App, BookLoan(a)
        PROVE  Contract!Next
    BY <1>6, BookFinances DEF Contract!Next
  <1>7. ASSUME NEW a \in App, NEW u \in User, NEW t \in Terms, NEW v \in Vehicle,
               UpdateApplication(a, u, t, v)
        PROVE  UNCHANGED Contract!cvars
    BY <1>7, UpdateStutters
  <1> QED
    BY <1>1, <1>2, <1>3, <1>4, <1>5, <1>6, <1>7 DEF Next

\* The workflow implements the contract: a file is financed once at most, for exactly the sum
\* sanctioned by someone who neither raised it nor put it forward (application.py, loan.py).
THEOREM Refinement == Spec => ImplementsContract
  <1>1. IInv /\ [Next]_vars => [Contract!Next]_(Contract!cvars)
    BY ContractStep
  <1> QED
    BY <1>1, ContractInit, Invariant, PTL DEF Spec, ImplementsContract, Contract!Spec
===============================================================================
