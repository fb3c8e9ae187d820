----------------------- MODULE UnderwritingRacesProofs -----------------------
(***************************************************************************)
(* What overlapping requests cannot break in underwriting, for every       *)
(* number of threads, applications and officers.                           *)
(*                                                                         *)
(* A request acts on copies that may be stale.  The argument names what    *)
(* stays true of a copy whatever commits meanwhile: who raised the file    *)
(* never changes, decisions and assessments are only added, and at most    *)
(* one request at a time holds a score of an application.                  *)
(***************************************************************************)
EXTENDS UnderwritingRaces, WellFoundedInduction, FiniteSetTheorems, TLAPS

-------------------------------------------------------------------------------
(* The latest of finitely many moments.                                    *)

\* Some member of a finite set has the largest of its moments.
LEMMA Largest ==
    ASSUME NEW S, IsFiniteSet(S), S # {}, NEW f \in [S -> Nat]
    PROVE  \E i \in S : \A k \in S : f[k] <= f[i]
<1> DEFINE above == [i \in S |-> {k \in S : f[k] > f[i]}]
           T == {above[i] : i \in S}
<1>1. T \subseteq FiniteSubsetsOf(S) /\ T # {}
  <2>1. FiniteSubsetsOf(S) = SUBSET S
      BY FS_FiniteSubsetsOfFinite
  <2>2. \A i \in S : above[i] \in SUBSET S
      OBVIOUS
  <2> HIDE DEF above
  <2> QED BY <2>1, <2>2
<1>2. PICK U \in T : \A V \in T : ~ (<<V, U>> \in StrictSubsetOrdering(S))
  <2> HIDE DEF T
  <2> QED BY <1>1, FS_StrictSubsetOrderingWellFounded, WFMin
<1>3. PICK i \in S : U = above[i]
    BY <1>2
<1>4. ASSUME NEW k \in S, f[k] > f[i] PROVE FALSE
  <2>1. k \in above[i] /\ k \notin above[k]
      BY <1>4
  <2>2. above[k] \subseteq above[i]
      BY <1>4
  <2>3. <<above[k], U>> \in StrictSubsetOrdering(S)
      BY <1>3, <2>1, <2>2 DEF StrictSubsetOrdering
  <2> QED BY <1>2, <2>3
<1> QED BY <1>4

\* The next moment of a decision is a number: there are finitely many to be after.
LEMMA MomentTyped ==
    ASSUME TypeOK, NEW a \in App
    PROVE  1 + Max({0} \cup Moments(a)) \in Nat
<1> DEFINE ids == 1..Len(decisions[a])
           deciding == InFlight(a, "decide")
           filed == [i \in ids |-> decisions[a][i].moment]
           taken == [w \in deciding |-> req[w].moment]
           all == {0} \cup Moments(a)
<1>1. IsFiniteSet(ids) /\ IsFiniteSet(deciding)
  <2>1. Len(decisions[a]) \in Nat
      BY DEF TypeOK
  <2>2. IsFiniteSet(ids)
      BY <2>1, FS_Interval
  <2>3. deciding \subseteq Worker
      BY DEF InFlight
  <2> HIDE DEF deciding
  <2>4. IsFiniteSet(deciding)
      BY <2>3, WorkerAssumption, FS_Subset
  <2> QED BY <2>2, <2>4
<1>2. filed \in [ids -> Nat]
  <2>1. decisions[a] \in Seq(UnderwritingDecision)
      BY DEF TypeOK
  <2>2. \A i \in ids : decisions[a][i] \in UnderwritingDecision
      BY <2>1
  <2>3. \A i \in ids : decisions[a][i].moment \in Nat
      BY <2>2 DEF UnderwritingDecision
  <2> QED BY <2>3
<1>3. taken \in [deciding -> Nat]
    BY DEF TypeOK, InFlight, Request
<1>4. all = {0} \cup {filed[i] : i \in ids} \cup {taken[w] : w \in deciding}
    BY DEF Moments
<1> HIDE DEF all, filed, taken, ids, deciding
<1>5. \E m \in {0} \cup {filed[i] : i \in ids} : \A i \in ids : filed[i] <= m
  <2>1. CASE ids = {}
      BY <2>1
  <2>2. CASE ids # {}
      BY <1>1, <1>2, <2>2, Largest
  <2> QED BY <2>1, <2>2
<1>6. \E m \in {0} \cup {taken[w] : w \in deciding} : \A w \in deciding : taken[w] <= m
  <2>1. CASE deciding = {}
      BY <2>1
  <2>2. CASE deciding # {}
      BY <1>1, <1>3, <2>2, Largest
  <2> QED BY <2>1, <2>2
<1>7. \A m \in all : m \in Nat
    BY <1>2, <1>3, <1>4
<1>8. \E m \in all : \A n \in all : m >= n
  <2>1. PICK x \in {0} \cup {filed[i] : i \in ids} : \A i \in ids : filed[i] <= x
      BY <1>5
  <2>2. PICK y \in {0} \cup {taken[w] : w \in deciding} : \A w \in deciding : taken[w] <= y
      BY <1>6
  <2>3. x \in all /\ y \in all /\ x \in Nat /\ y \in Nat
      BY <1>4, <1>7
  <2>4. CASE x >= y
      BY <1>2, <1>3, <1>4, <2>1, <2>2, <2>3, <2>4
  <2>5. CASE y > x
      BY <1>2, <1>3, <1>4, <2>1, <2>2, <2>3, <2>5
  <2> QED BY <2>3, <2>4, <2>5
<1>9. Max(all) \in all
    BY <1>8 DEF Max
<1>10. 1 + Max(all) \in Nat
    BY <1>7, <1>9
<1> QED BY <1>10 DEF all

\* LatestDecision finds a decision if there is one.
LEMMA LatestDecisionFound ==
    ASSUME TypeOK, NEW a \in App, LatestDecision(a) # 0
    PROVE  LatestDecision(a) \in 1..Len(decisions[a])
<1> DEFINE ids == 1..Len(decisions[a])
           filed == [i \in ids |-> decisions[a][i].moment]
<1>1. Len(decisions[a]) \in Nat /\ filed \in [ids -> Nat]
  <2>1. decisions[a] \in Seq(UnderwritingDecision)
      BY DEF TypeOK
  <2>2. Len(decisions[a]) \in Nat /\ \A i \in ids : decisions[a][i] \in UnderwritingDecision
      BY <2>1
  <2>3. \A i \in ids : decisions[a][i].moment \in Nat
      BY <2>2 DEF UnderwritingDecision
  <2> QED BY <2>2, <2>3
<1>2. ids # {}
    BY DEF LatestDecision
<1>3. IsFiniteSet(ids)
  <2>1. 1 \in Int /\ Len(decisions[a]) \in Int
      BY <1>1
  <2> QED BY <2>1, FS_Interval
<1>4. \E i \in ids : \A k \in ids : filed[k] <= filed[i]
  <2> HIDE DEF filed, ids
  <2> QED BY <1>1, <1>2, <1>3, Largest
<1>5. \E i \in ids : \A k \in ids : decisions[a][k].moment <= decisions[a][i].moment
    BY <1>4
<1> QED BY <1>2, <1>5 DEF LatestDecision

\* get_latest_assessment finds the last assessment of a file that has one.
LEMMA LatestAssessmentFound ==
    ASSUME OneLatestAssessment, NEW a \in App, Len(assessments[a]) \in Nat
    PROVE  LatestAssessment(a) = Len(assessments[a])
<1>1. CASE Len(assessments[a]) = 0
    BY <1>1 DEF LatestAssessment
<1>2. CASE Len(assessments[a]) # 0
  <2>1. \A i \in 1..Len(assessments[a]) :
           assessments[a][i].latest <=> i = Len(assessments[a])
      BY DEF OneLatestAssessment
  <2>2. {i \in 1..Len(assessments[a]) : assessments[a][i].latest} = {Len(assessments[a])}
      BY <1>2, <2>1
  <2> QED BY <2>2 DEF LatestAssessment
<1> QED BY <1>1, <1>2

-------------------------------------------------------------------------------
(* The invariant.                                                          *)

\* Decision d of file a is one a loan may be booked against.
Approval(a, d) ==
    /\ d \in 1..Len(decisions[a])
    /\ decisions[a][d].final = "APPROVE"
    /\ decisions[a][d].by # app[a].created_by
    /\ decisions[a][d].assessment \in 1..Len(assessments[a])

\* What stays true of a request whatever commits while it is under way.
Trusted(r) ==
    /\ r.row.created_by = app[r.app].created_by
    /\ r.new.created_by = app[r.app].created_by
    /\ r.new.status = "DISBURSED" => r.op = "book"
    /\ r.new.status = "DRAFT" => r.row.status = "DRAFT"
    /\ r.new.submitted # r.row.submitted =>
         r.new.submitted /\ r.new.status = "SUBMITTED" /\ r.row.status = "DRAFT"
    /\ r.op = "decide" => r.by # app[r.app].created_by
    /\ r.op = "decide" /\ r.stage = "ready" => r.read \in 1..Len(assessments[r.app])
    /\ r.op = "book" /\ r.stage = "ready" => Approval(r.app, r.read)

AllTrusted == \A w \in Worker : req[w] # Idle => Trusted(req[w])

\* Worker w holds a score of file a.
Scoring(w, a) ==
    req[w] # Idle /\ req[w].op = "assess" /\ req[w].stage = "ready" /\ req[w].app = a

ScoringAlone ==
    \A a \in App, w \in Worker : Scoring(w, a) =>
        /\ req[w].read = Len(assessments[a])
        /\ \A v \in Worker : Scoring(v, a) => v = w

DecidedByOther ==
    \A a \in App : \A i \in 1..Len(decisions[a]) :
        /\ decisions[a][i].by # app[a].created_by
        /\ decisions[a][i].assessment \in 1..Len(assessments[a])

SubmittedIsNoDraft == \A a \in App : app[a].submitted => app[a].status # "DRAFT"

IInv ==
    /\ TypeOK /\ AllTrusted /\ ScoringAlone /\ OneLatestAssessment /\ DecidedByOther
    /\ LoanBackedByApproval /\ DisbursedWithOneLoan /\ SubmittedIsNoDraft

\* What every commit keeps: who raised a file, and the decisions and assessments on file.
Grown ==
    \A a \in App :
        /\ app'[a].created_by = app[a].created_by
        /\ Len(assessments[a]) <= Len(assessments'[a])
        /\ Len(decisions[a]) <= Len(decisions'[a])
        /\ \A i \in 1..Len(decisions[a]) : decisions'[a][i] = decisions[a][i]

\* The histories of a file have lengths.
LEMMA Lengths ==
    ASSUME TypeOK, NEW a \in App
    PROVE  /\ Len(assessments[a]) \in Nat /\ Len(decisions[a]) \in Nat /\ Len(loans[a]) \in Nat
           /\ \A i \in 1..Len(decisions[a]) : decisions[a][i] \in UnderwritingDecision
<1>1. /\ assessments[a] \in Seq(Assessment) /\ decisions[a] \in Seq(UnderwritingDecision)
      /\ loans[a] \in Seq(Loan)
    BY DEF TypeOK
<1> QED BY <1>1

\* An approval is one after any commit: decisions stay where they are.
LEMMA StillApproved ==
    ASSUME TypeOK, TypeOK', Grown, NEW a \in App, NEW d, Approval(a, d)
    PROVE  Approval(a, d)'
<1>1. /\ Len(assessments[a]) \in Nat /\ Len(assessments'[a]) \in Nat
      /\ Len(decisions[a]) \in Nat /\ Len(decisions'[a]) \in Nat
    BY Lengths
<1>2. /\ app'[a].created_by = app[a].created_by
      /\ Len(assessments[a]) <= Len(assessments'[a])
      /\ Len(decisions[a]) <= Len(decisions'[a])
      /\ decisions'[a][d] = decisions[a][d]
    BY DEF Grown, Approval
<1> QED BY <1>1, <1>2 DEF Approval

\* What is trusted of a copy survives a commit of somebody else.
LEMMA StillTrusted ==
    ASSUME TypeOK, TypeOK', Grown, NEW r \in Request, Trusted(r)
    PROVE  Trusted(r)'
<1>1. r.app \in App
    BY DEF Request
<1>2. /\ Len(assessments[r.app]) \in Nat /\ Len(assessments'[r.app]) \in Nat
      /\ Len(assessments[r.app]) <= Len(assessments'[r.app])
      /\ app'[r.app].created_by = app[r.app].created_by
    BY <1>1, Lengths DEF Grown
<1>3. r.op = "book" /\ r.stage = "ready" => Approval(r.app, r.read)'
    BY <1>1, StillApproved DEF Trusted
<1>4. r.op = "decide" /\ r.stage = "ready" => r.read \in 1..Len(assessments'[r.app])
    BY <1>2 DEF Trusted
<1> QED BY <1>2, <1>3, <1>4 DEF Trusted

\* Loans and decisions on file stay as sound as they were.
LEMMA StillBacked ==
    ASSUME IInv, TypeOK', Grown, NEW a \in App, NEW i \in 1..Len(loans[a]),
           NEW d, d = loans[a][i].decision
    PROVE  Approval(a, d)'
<1>1. TypeOK /\ Approval(a, d)
    BY DEF IInv, LoanBackedByApproval, Approval
<1> QED BY <1>1, StillApproved

\* A decision on file stays one taken by somebody who did not raise the file.
LEMMA StillDecided ==
    ASSUME IInv, TypeOK', Grown, NEW a \in App, NEW i \in 1..Len(decisions[a])
    PROVE  /\ decisions'[a][i].by # app'[a].created_by
           /\ decisions'[a][i].assessment \in 1..Len(assessments'[a])
<1>1. TypeOK /\ Len(assessments[a]) \in Nat /\ Len(assessments'[a]) \in Nat
    BY Lengths DEF IInv
<1>2. /\ app'[a].created_by = app[a].created_by
      /\ Len(assessments[a]) <= Len(assessments'[a]) /\ decisions'[a][i] = decisions[a][i]
    BY DEF Grown
<1>3. /\ decisions[a][i].by # app[a].created_by
      /\ decisions[a][i].assessment \in 1..Len(assessments[a])
    BY DEF IInv, DecidedByOther
<1> QED BY <1>1, <1>2, <1>3

-------------------------------------------------------------------------------
(* Steps that write no table.                                              *)

\* What worker w may turn to without a commit.
Admissible(w, r) ==
    \/ r = Idle
    \/ /\ r \in Request /\ Trusted(r)
       /\ r.op = "assess" /\ r.stage = "ready" =>
            /\ r.read = Len(assessments[r.app])
            /\ \A v \in Worker \ {w} : ~Scoring(v, r.app)

\* A request that moves on without writing a table.
LEMMA InvariantAdvance ==
    ASSUME IInv, NEW w \in Worker, NEW r, Admissible(w, r), Advance(w, r)
    PROVE  IInv'
<1>1. /\ app' = app /\ submitters' = submitters /\ assessments' = assessments
      /\ decisions' = decisions /\ loans' = loans /\ req' = [req EXCEPT ![w] = r]
      /\ req \in [Worker -> Request \cup {Idle}]
    BY DEF Advance, IInv, TypeOK
<1>2. \A v \in Worker : req'[v] = IF v = w THEN r ELSE req[v]
    BY <1>1
<1>3. TypeOK'
  <2>1. req' \in [Worker -> Request \cup {Idle}]
      BY <1>1 DEF Admissible
  <2> QED BY <1>1, <2>1 DEF IInv, TypeOK
<1>4. OneLatestAssessment' /\ DecidedByOther' /\ LoanBackedByApproval'
      /\ DisbursedWithOneLoan' /\ SubmittedIsNoDraft'
    BY <1>1 DEF IInv, OneLatestAssessment, DecidedByOther, LoanBackedByApproval,
                DisbursedWithOneLoan, SubmittedIsNoDraft
<1>5. AllTrusted'
  <2> SUFFICES ASSUME NEW v \in Worker, req'[v] # Idle PROVE Trusted(req[v])'
      BY DEF AllTrusted
  <2>1. Trusted(req'[v])
      BY <1>2 DEF IInv, AllTrusted, Admissible
  <2> QED BY <1>1, <2>1 DEF Trusted, Approval
<1>6. ScoringAlone'
  <2> SUFFICES ASSUME NEW a \in App, NEW v \in Worker, Scoring(v, a)'
               PROVE  /\ req'[v].read = Len(assessments'[a])
                      /\ \A x \in Worker : Scoring(x, a)' => x = v
      BY DEF ScoringAlone
  <2>1. CASE v = w
    <3>1. /\ r # Idle /\ r.op = "assess" /\ r.stage = "ready" /\ r.app = a
        BY <1>2, <2>1 DEF Scoring
    <3>2. r.read = Len(assessments[a]) /\ \A x \in Worker \ {w} : ~Scoring(x, a)
        BY <3>1 DEF Admissible
    <3>3. \A x \in Worker \ {w} : ~Scoring(x, a)'
        BY <1>2, <3>2 DEF Scoring
    <3> QED BY <1>1, <1>2, <2>1, <3>2, <3>3
  <2>2. CASE v # w
    <3>1. Scoring(v, a)
        BY <1>2, <2>2 DEF Scoring
    <3>2. req[v].read = Len(assessments[a]) /\ \A x \in Worker : Scoring(x, a) => x = v
        BY <3>1 DEF IInv, ScoringAlone
    <3>3. ~Scoring(w, a)'
      <4>1. SUFFICES ASSUME Scoring(w, a)' PROVE FALSE
          OBVIOUS
      <4>2. r # Idle /\ r.op = "assess" /\ r.stage = "ready" /\ r.app = a
          BY <1>2, <4>1 DEF Scoring
      <4>3. ~Scoring(v, a)
          BY <2>2, <4>2 DEF Admissible
      <4> QED BY <3>1, <4>3
    <3>4. \A x \in Worker : Scoring(x, a)' => x = v
      <4> SUFFICES ASSUME NEW x \in Worker, Scoring(x, a)', x # w PROVE x = v
          BY <3>3
      <4>1. Scoring(x, a)
          BY <1>2 DEF Scoring
      <4> QED BY <3>2, <4>1
    <3> QED BY <1>1, <1>2, <2>2, <3>2, <3>4
  <2> QED BY <2>1, <2>2
<1> QED BY <1>3, <1>4, <1>5, <1>6 DEF IInv

\* A request that has read its application and passed the checks on the copy.
LEMMA InvariantBegin ==
    ASSUME IInv, NEW w \in Worker, NEW a \in App, NEW u \in User, Begin(w, a, u)
    PROVE  IInv'
<1>1. /\ app[a] \in Row /\ app[a].created_by \in User /\ NoUser \notin User
    BY UserAssumption DEF IInv, TypeOK, Row
<1>2. ASSUME NEW op \in {"update", "submit", "withdraw", "assess", "decide", "book"},
             NEW stage \in {"begun", "claimed", "ready"}, NEW new \in Row,
             NEW final \in Decision, Accept(w, op, stage, a, u, new, final),
             new.created_by = app[a].created_by,
             new.status = "DISBURSED" => op = "book",
             new.status = "DRAFT" => app[a].status = "DRAFT",
             new.submitted # app[a].submitted =>
               new.submitted /\ new.status = "SUBMITTED" /\ app[a].status = "DRAFT",
             op = "decide" => u # app[a].created_by,
             op \in {"assess", "decide", "book"} => stage # "ready"
      PROVE  IInv'
  <2> DEFINE r == [op |-> op, stage |-> stage, app |-> a, by |-> u, row |-> app[a],
                   new |-> new, read |-> 0, final |-> final, moment |-> 0]
  <2>1. Advance(w, r)
      BY <1>2 DEF Accept, Advance
  <2>2. r \in Request
      BY <1>1 DEF Request
  <2>3. /\ r.op = op /\ r.stage = stage /\ r.app = a /\ r.by = u /\ r.row = app[a]
        /\ r.new = new
      OBVIOUS
  <2> HIDE DEF r
  <2>4. Trusted(r)
      BY <1>2, <2>3 DEF Trusted
  <2>5. Admissible(w, r)
      BY <1>2, <2>2, <2>3, <2>4 DEF Admissible
  <2> QED BY <2>1, <2>5, InvariantAdvance
<1>3. "REJECT" \in Decision
    BY DEF Decision
<1>4. ASSUME NEW t \in Terms, BeginUpdate(w, a, u, t) PROVE IInv'
  <2> DEFINE new == [app[a] EXCEPT !.terms = t, !.updated_by = u]
  <2>1. /\ new \in Row /\ new.created_by = app[a].created_by
        /\ new.status = "DRAFT" /\ app[a].status = "DRAFT"
        /\ new.submitted = app[a].submitted
      BY <1>1, <1>4 DEF Row, BeginUpdate
  <2>2. Accept(w, "update", "ready", a, u, new, "REJECT")
      BY <1>4 DEF BeginUpdate
  <2> HIDE DEF new
  <2> QED BY <1>2, <1>3, <2>1, <2>2
<1>5. ASSUME BeginSubmit(w, a, u) PROVE IInv'
  <2> DEFINE new == [app[a] EXCEPT !.status = "SUBMITTED", !.submitted = TRUE,
                                   !.updated_by = u]
  <2>1. app[a].status = "DRAFT"
      BY <1>5 DEF BeginSubmit, CanTransition, AllowedTransitions
  <2>2. /\ new \in Row /\ new.created_by = app[a].created_by
        /\ new.status = "SUBMITTED" /\ new.submitted
      BY <1>1 DEF Row, Status
  <2>3. Accept(w, "submit", "ready", a, u, new, "REJECT")
      BY <1>5 DEF BeginSubmit
  <2> HIDE DEF new
  <2> QED BY <1>2, <1>3, <2>1, <2>2, <2>3
<1>6. ASSUME BeginWithdraw(w, a, u) PROVE IInv'
  <2> DEFINE new == [app[a] EXCEPT !.status = "WITHDRAWN", !.updated_by = u]
  <2>1. /\ new \in Row /\ new.created_by = app[a].created_by
        /\ new.status = "WITHDRAWN" /\ new.submitted = app[a].submitted
      BY <1>1 DEF Row, Status
  <2>2. Accept(w, "withdraw", "ready", a, u, new, "REJECT")
      BY <1>6 DEF BeginWithdraw
  <2> HIDE DEF new
  <2> QED BY <1>2, <1>3, <2>1, <2>2
<1>7. ASSUME BeginAssess(w, a, u) PROVE IInv'
  <2> DEFINE new == [app[a] EXCEPT !.status = StatusAfterAssessment(@)]
             stage == IF app[a].status = "SUBMITTED" THEN "begun" ELSE "claimed"
  <2>1. app[a].status \in {"SUBMITTED", "PENDING_DECISION", "APPROVED"}
      BY <1>1, <1>7 DEF BeginAssess, Assessable, Row
  <2>2. StatusAfterAssessment(app[a].status) \in {"PENDING_DECISION", "APPROVED"}
      BY <2>1 DEF StatusAfterAssessment
  <2>3. /\ new \in Row /\ new.created_by = app[a].created_by
        /\ new.status \in {"PENDING_DECISION", "APPROVED"}
        /\ new.submitted = app[a].submitted
      BY <1>1, <2>2 DEF Row, Status
  <2>4. Accept(w, "assess", stage, a, u, new, "REJECT")
      BY <1>7 DEF BeginAssess
  <2>5. stage \in {"begun", "claimed"}
      OBVIOUS
  <2> HIDE DEF new, stage
  <2> QED BY <1>2, <1>3, <2>3, <2>4, <2>5
<1>8. ASSUME NEW final \in Decision, BeginDecide(w, a, u, final) PROVE IInv'
  <2> DEFINE new == [app[a] EXCEPT !.status = StatusAfterDecision(final)]
  <2>1. u # app[a].created_by
      BY <1>1, <1>8 DEF BeginDecide, Makers
  <2>2. StatusAfterDecision(final) \in {"APPROVED", "REJECTED"}
      BY DEF StatusAfterDecision
  <2>3. /\ new \in Row /\ new.created_by = app[a].created_by
        /\ new.status \in {"APPROVED", "REJECTED"}
        /\ new.submitted = app[a].submitted
      BY <1>1, <2>2 DEF Row, Status
  <2>4. Accept(w, "decide", "begun", a, u, new, final)
      BY <1>8 DEF BeginDecide
  <2> HIDE DEF new
  <2> QED BY <1>2, <2>1, <2>3, <2>4
<1>9. ASSUME BeginBook(w, a, u) PROVE IInv'
  <2> DEFINE new == [app[a] EXCEPT !.status = "DISBURSED"]
  <2>1. /\ new \in Row /\ new.created_by = app[a].created_by
        /\ new.status = "DISBURSED" /\ new.submitted = app[a].submitted
      BY <1>1 DEF Row, Status
  <2>2. Accept(w, "book", "begun", a, u, new, "REJECT")
      BY <1>9 DEF BeginBook
  <2> HIDE DEF new
  <2> QED BY <1>2, <1>3, <2>1, <2>2
<1> QED BY <1>4, <1>5, <1>6, <1>7, <1>8, <1>9 DEF Begin

\* A request under way is a request, and its file one of the applications.
LEMMA UnderWay ==
    ASSUME IInv, NEW w \in Worker, req[w].op # "idle" \/ req[w] # Idle
    PROVE  /\ req[w] # Idle /\ req[w] \in Request /\ Trusted(req[w])
           /\ req[w].app \in App /\ app[req[w].app] \in Row
           /\ Len(assessments[req[w].app]) \in Nat
<1>1. req[w] # Idle
    BY DEF Idle
<1>2. req[w] \in Request /\ Trusted(req[w])
    BY <1>1 DEF IInv, TypeOK, AllTrusted
<1>3. req[w].app \in App
    BY <1>2 DEF Request
<1> QED BY <1>1, <1>2, <1>3, Lengths DEF IInv, TypeOK

\* Claim, Score, Consult, CheckBooking, RefuseBooking, Abort: reads and locks.
LEMMA InvariantConsult ==
    ASSUME IInv, NEW w \in Worker,
           \/ Claim(w) \/ Score(w) \/ Consult(w) \/ CheckBooking(w)
           \/ RefuseBooking(w) \/ Abort(w)
    PROVE  IInv'
<1>1. ASSUME Release(w) PROVE IInv'
  <2>1. Advance(w, Idle) /\ Admissible(w, Idle)
      BY <1>1 DEF Release, Admissible
  <2> QED BY <2>1, InvariantAdvance
<1>2. ASSUME NEW r \in Request, Trusted(r), Advance(w, r), r.op # "assess" \/ r.stage # "ready"
      PROVE  IInv'
  <2>1. Admissible(w, r)
      BY <1>2 DEF Admissible
  <2> QED BY <1>2, <2>1, InvariantAdvance
<1>3. CASE Claim(w)
  <2> DEFINE r == [req[w] EXCEPT !.stage = "claimed"]
  <2>1. req[w].op = "assess" /\ Advance(w, r)
      BY <1>3 DEF Claim
  <2>2. req[w] \in Request /\ Trusted(req[w])
      BY <2>1, UnderWay
  <2>3. r \in Request /\ r.op = "assess" /\ r.stage = "claimed"
        /\ r.app = req[w].app /\ r.row = req[w].row /\ r.new = req[w].new
      BY <2>1, <2>2 DEF Request
  <2> HIDE DEF r
  <2>4. Trusted(r)
      BY <2>1, <2>2, <2>3 DEF Trusted
  <2> QED BY <1>2, <2>1, <2>3, <2>4
<1>4. CASE Score(w)
  <2> DEFINE a == req[w].app
             r == [req[w] EXCEPT !.stage = "ready", !.read = LatestAssessment(a)]
  <2>1. /\ req[w].op = "assess" /\ Advance(w, r)
        /\ \A x \in InFlight(a, "assess") : req[x].stage # "ready"
      BY <1>4 DEF Score
  <2>2. /\ req[w] \in Request /\ Trusted(req[w]) /\ a \in App
        /\ Len(assessments[a]) \in Nat
      BY <2>1, UnderWay
  <2>3. LatestAssessment(a) = Len(assessments[a])
      BY <2>2, LatestAssessmentFound DEF IInv
  <2>4. r \in Request /\ r.op = "assess" /\ r.stage = "ready" /\ r.read = Len(assessments[a])
        /\ r.app = a /\ r.row = req[w].row /\ r.new = req[w].new
      BY <2>1, <2>2, <2>3 DEF Request
  <2>5. \A v \in Worker : ~Scoring(v, a)
      BY <2>1 DEF InFlight, Scoring
  <2> HIDE DEF r
  <2>6. Trusted(r)
      BY <2>1, <2>2, <2>4 DEF Trusted
  <2>7. Admissible(w, r)
      BY <2>4, <2>5, <2>6 DEF Admissible
  <2> QED BY <2>1, <2>7, InvariantAdvance
<1>5. CASE Consult(w)
  <2> DEFINE a == req[w].app
             moment == 1 + Max({0} \cup Moments(a))
             r == [req[w] EXCEPT !.stage = "ready", !.read = LatestAssessment(a),
                                 !.moment = moment]
  <2>1. req[w].op = "decide" /\ Advance(w, r) /\ LatestAssessment(a) # 0
      BY <1>5 DEF Consult
  <2>2. /\ req[w] \in Request /\ Trusted(req[w]) /\ a \in App
        /\ Len(assessments[a]) \in Nat
      BY <2>1, UnderWay
  <2>3. LatestAssessment(a) = Len(assessments[a])
      BY <2>2, LatestAssessmentFound DEF IInv
  <2>4. moment \in Nat
      BY <2>2, MomentTyped DEF IInv
  <2> HIDE DEF moment
  <2>5. r \in Request /\ r.op = "decide" /\ r.read = Len(assessments[a])
        /\ r.app = a /\ r.row = req[w].row /\ r.new = req[w].new /\ r.by = req[w].by
      BY <2>1, <2>2, <2>3, <2>4 DEF Request
  <2> HIDE DEF r
  <2>6. r.read \in 1..Len(assessments[r.app])
      BY <2>1, <2>2, <2>3, <2>5
  <2>7. Trusted(r)
      BY <2>1, <2>2, <2>5, <2>6 DEF Trusted
  <2> QED BY <1>2, <2>1, <2>5, <2>7
<1>6. CASE CheckBooking(w)
  <2> DEFINE a == req[w].app
             d == LatestDecision(a)
             r == [req[w] EXCEPT !.stage = "ready", !.read = d]
  <2>1. /\ req[w].op = "book"
        /\ \/ Release(w)
           \/ d # 0 /\ decisions[a][d].final = "APPROVE" /\ Advance(w, r)
      BY <1>6 DEF CheckBooking
  <2>2. req[w] \in Request /\ Trusted(req[w]) /\ a \in App
      BY <2>1, UnderWay
  <2>3. ASSUME d # 0, decisions[a][d].final = "APPROVE", Advance(w, r) PROVE IInv'
    <3>1. d \in 1..Len(decisions[a]) /\ Len(decisions[a]) \in Nat
        BY <2>2, <2>3, LatestDecisionFound, Lengths DEF IInv
    <3>2. Approval(a, d)
        BY <2>2, <2>3, <3>1 DEF IInv, DecidedByOther, Approval
    <3>3. d \in Nat
        BY <3>1
    <3> HIDE DEF d
    <3>4. r \in Request
        BY <2>2, <3>3 DEF Request
    <3>5. /\ r.op = "book" /\ r.read = d
          /\ r.app = a /\ r.row = req[w].row /\ r.new = req[w].new
        BY <2>1, <2>2 DEF Request
    <3> HIDE DEF r
    <3>6. Trusted(r)
        BY <2>1, <2>2, <3>2, <3>5 DEF Trusted
    <3> QED BY <1>2, <2>3, <3>4, <3>5, <3>6
  <2> QED BY <1>1, <2>1, <2>3
<1>7. CASE RefuseBooking(w) \/ Abort(w)
    BY <1>1, <1>7 DEF RefuseBooking, Abort
<1> QED BY <1>3, <1>4, <1>5, <1>6, <1>7

-------------------------------------------------------------------------------
(* Commits.                                                                *)

\* The row after a flush: columns of the row on file and of the request's copy.
LEMMA RowCommitted ==
    ASSUME IInv, NEW w \in Worker, req[w] # Idle, Commit(w)
    PROVE  /\ app' \in [App -> Row] /\ req' = [req EXCEPT ![w] = Idle]
           /\ req[w].stage = "ready"
           /\ \A a \in App : a # req[w].app => app'[a] = app[a]
           /\ app'[req[w].app].status \in {app[req[w].app].status, req[w].new.status}
           /\ \A a \in App :
                /\ app'[a].created_by = app[a].created_by
                /\ app'[a].status = "DRAFT" => app[a].status = "DRAFT"
                /\ app[a].submitted => app'[a].submitted
                /\ app'[a].submitted => app'[a].status # "DRAFT"
<1> DEFINE r == req[w]
           current == app[r.app]
           row == Write(current, r.row, r.new)
<1>1. r \in Request /\ Trusted(r) /\ r.app \in App /\ current \in Row
    BY UnderWay
<1>2. r.row \in Row /\ r.new \in Row
    BY <1>1 DEF Request
<1>3. /\ app' = [app EXCEPT ![r.app] = row] /\ req' = [req EXCEPT ![w] = Idle]
      /\ r.stage = "ready" /\ app \in [App -> Row]
    BY DEF Commit, IInv, TypeOK
<1>4. DOMAIN current = {"status", "created_by", "updated_by", "submitted", "terms"}
    BY <1>1 DEF Row
<1> HIDE DEF current, r
<1>5. /\ row = [status |-> row.status, created_by |-> row.created_by,
                updated_by |-> row.updated_by, submitted |-> row.submitted,
                terms |-> row.terms]
      /\ \A c \in DOMAIN current :
            row[c] = IF r.new[c] = r.row[c] THEN current[c] ELSE r.new[c]
    BY <1>4 DEF Write
<1> HIDE DEF row
<1>6. /\ row.status = IF r.new.status = r.row.status THEN current.status ELSE r.new.status
      /\ row.created_by = IF r.new.created_by = r.row.created_by THEN current.created_by
                          ELSE r.new.created_by
      /\ row.updated_by = IF r.new.updated_by = r.row.updated_by THEN current.updated_by
                          ELSE r.new.updated_by
      /\ row.submitted = IF r.new.submitted = r.row.submitted THEN current.submitted
                         ELSE r.new.submitted
      /\ row.terms = IF r.new.terms = r.row.terms THEN current.terms ELSE r.new.terms
    BY <1>4, <1>5
<1>7. row \in Row
  <2>1. /\ row.status \in Status \ {"UNDER_ASSESSMENT"} /\ row.created_by \in User
        /\ row.updated_by \in User \cup {NoUser} /\ row.submitted \in BOOLEAN
        /\ row.terms \in Terms
    <3>1. row.status \in {current.status, r.new.status}
          /\ row.created_by \in {current.created_by, r.new.created_by}
          /\ row.updated_by \in {current.updated_by, r.new.updated_by}
          /\ row.submitted \in {current.submitted, r.new.submitted}
          /\ row.terms \in {current.terms, r.new.terms}
        BY <1>6
    <3> QED BY <1>1, <1>2, <3>1 DEF Row
  <2> QED BY <1>5, <2>1 DEF Row
<1>8. /\ row.created_by = current.created_by
      /\ row.status \in {current.status, r.new.status}
      /\ row.status = "DRAFT" => current.status = "DRAFT"
  <2>1. /\ r.row.created_by = current.created_by /\ r.new.created_by = current.created_by
        /\ r.new.status = "DRAFT" => r.row.status = "DRAFT"
      BY <1>1 DEF Trusted, current
  <2> QED BY <1>6, <2>1
<1>9. /\ current.submitted => row.submitted
      /\ row.submitted => row.status # "DRAFT"
  <2>1. current.submitted => current.status # "DRAFT"
      BY <1>1 DEF IInv, SubmittedIsNoDraft, current
  <2>2. r.new.submitted # r.row.submitted =>
          r.new.submitted /\ r.new.status = "SUBMITTED" /\ r.row.status = "DRAFT"
      BY <1>1 DEF Trusted
  <2>3. CASE r.new.submitted = r.row.submitted
      BY <1>6, <1>8, <2>1, <2>3
  <2>4. CASE r.new.submitted # r.row.submitted
      BY <1>6, <2>2, <2>4
  <2> QED BY <2>3, <2>4
<1>10. app' \in [App -> Row]
    BY <1>3, <1>7
<1>11. ASSUME NEW a \in App
       PROVE  /\ app'[a].created_by = app[a].created_by
              /\ app'[a].status = "DRAFT" => app[a].status = "DRAFT"
              /\ app[a].submitted => app'[a].submitted
              /\ app'[a].submitted => app'[a].status # "DRAFT"
  <2>1. CASE a = r.app
    <3>1. app'[a] = row /\ app[a] = current
        BY <1>1, <1>3, <2>1 DEF current
    <3> QED BY <1>8, <1>9, <3>1
  <2>2. CASE a # r.app
    <3>1. app'[a] = app[a]
        BY <1>3, <2>2
    <3> QED BY <3>1 DEF IInv, SubmittedIsNoDraft
  <2> QED BY <2>1, <2>2
<1>12. /\ app'[r.app].status \in {app[r.app].status, r.new.status}
       /\ \A a \in App : a # r.app => app'[a] = app[a]
    BY <1>1, <1>3, <1>8 DEF current
<1> QED BY <1>3, <1>10, <1>11, <1>12 DEF r

\* The requests still under way when one commits.
LEMMA OthersTrusted ==
    ASSUME IInv, TypeOK', Grown, NEW w \in Worker, req' = [req EXCEPT ![w] = Idle]
    PROVE  /\ AllTrusted'
           /\ \A v \in Worker : req'[v] # Idle => v # w /\ req'[v] = req[v]
<1>1. TypeOK /\ req \in [Worker -> Request \cup {Idle}]
    BY DEF IInv, TypeOK
<1>2. \A v \in Worker : req'[v] # Idle => v # w /\ req'[v] = req[v]
    BY <1>1
<1>3. AllTrusted'
  <2> SUFFICES ASSUME NEW v \in Worker, req'[v] # Idle, NEW r, r = req'[v]
               PROVE  Trusted(r)'
      BY DEF AllTrusted
  <2>1. r \in Request /\ r = req[v] /\ req[v] # Idle
      BY <1>1, <1>2
  <2>2. Trusted(r)
      BY <2>1 DEF IInv, AllTrusted
  <2> QED BY <1>1, <2>1, <2>2, StillTrusted
<1> QED BY <1>2, <1>3

\* Nobody's score is out of date while no assessment commits.
LEMMA ScoringUndisturbed ==
    ASSUME IInv, NEW w \in Worker, assessments' = assessments,
           \A v \in Worker : req'[v] # Idle => v # w /\ req'[v] = req[v]
    PROVE  ScoringAlone'
<1>1. \A a \in App, v \in Worker : Scoring(v, a)' => Scoring(v, a) /\ req'[v] = req[v]
    BY DEF Scoring
<1> QED BY <1>1 DEF IInv, ScoringAlone

\* Edits, submissions and withdrawals.
LEMMA InvariantRow ==
    ASSUME IInv, NEW w \in Worker, CommitRow(w)
    PROVE  IInv'
<1> DEFINE r == req[w]
<1>1. /\ r.op \in {"update", "submit", "withdraw"} /\ Commit(w)
      /\ assessments' = assessments /\ decisions' = decisions /\ loans' = loans
      /\ submitters' = IF r.op = "submit" THEN [submitters EXCEPT ![r.app] = @ \cup {r.by}]
                       ELSE submitters
    BY DEF CommitRow
<1>2. r # Idle /\ r \in Request /\ Trusted(r) /\ r.app \in App
    BY <1>1, UnderWay
<1>3. /\ app' \in [App -> Row] /\ req' = [req EXCEPT ![w] = Idle]
      /\ \A a \in App : a # r.app => app'[a] = app[a]
      /\ app'[r.app].status \in {app[r.app].status, r.new.status}
      /\ \A a \in App : /\ app'[a].created_by = app[a].created_by
                        /\ app'[a].submitted => app'[a].status # "DRAFT"
    BY <1>1, <1>2, RowCommitted
<1>4. r.new.status # "DISBURSED" /\ r.by \in User
    BY <1>1, <1>2 DEF Trusted, Request
<1> HIDE DEF r
<1>5. TypeOK /\ submitters \in [App -> SUBSET User] /\ req \in [Worker -> Request \cup {Idle}]
    BY DEF IInv, TypeOK
<1>6. TypeOK'
  <2>1. submitters' \in [App -> SUBSET User]
      BY <1>1, <1>4, <1>5
  <2>2. req' \in [Worker -> Request \cup {Idle}]
      BY <1>3, <1>5
  <2> QED BY <1>1, <1>3, <1>5, <2>1, <2>2 DEF TypeOK
<1>7. Grown
    BY <1>1, <1>3, <1>5, Lengths DEF Grown
<1>8. AllTrusted' /\ ScoringAlone'
    BY <1>1, <1>3, <1>6, <1>7, OthersTrusted, ScoringUndisturbed
<1>9. OneLatestAssessment' /\ DecidedByOther' /\ LoanBackedByApproval'
    BY <1>1, <1>3 DEF IInv, OneLatestAssessment, DecidedByOther, LoanBackedByApproval
<1>10. DisbursedWithOneLoan' /\ SubmittedIsNoDraft'
  <2>1. \A a \in App : app'[a].status = "DISBURSED" => app[a].status = "DISBURSED"
      BY <1>3, <1>4
  <2> QED BY <1>1, <1>3, <2>1 DEF IInv, DisbursedWithOneLoan, SubmittedIsNoDraft
<1> QED BY <1>6, <1>8, <1>9, <1>10 DEF IInv

\* The commit of assess: the new row is the latest, and the one it superseded was.
LEMMA InvariantAssessment ==
    ASSUME IInv, NEW w \in Worker, CommitAssessment(w)
    PROVE  IInv'
<1> DEFINE r == req[w]
           book == assessments[r.app]
           last == Len(book) + 1
           superseded == [i \in 1..Len(book) |->
                            IF i = r.read THEN [book[i] EXCEPT !.latest = FALSE] ELSE book[i]]
           new == [terms |-> r.row.terms, latest |-> TRUE]
<1>1. /\ r.op = "assess" /\ decisions' = decisions /\ loans' = loans
      /\ submitters' = submitters
      /\ assessments' = [assessments EXCEPT ![r.app] = Append(superseded, new)]
      /\ Commit(w) \/ (r.stage = "ready" /\ req' = [req EXCEPT ![w] = Idle] /\ app' = app)
  <2>1. /\ r.op = "assess" /\ decisions' = decisions /\ loans' = loans
        /\ submitters' = submitters
        /\ Commit(w) \/ (r.stage = "ready" /\ req' = [req EXCEPT ![w] = Idle] /\ app' = app)
      BY DEF CommitAssessment
  <2>2. assessments' = [assessments EXCEPT ![r.app] = Append(superseded, new)]
      BY Zenon DEF CommitAssessment
  <2> QED BY <2>1, <2>2
<1>2. r # Idle /\ r \in Request /\ Trusted(r) /\ r.app \in App /\ Len(book) \in Nat
    BY <1>1, UnderWay
<1>3. /\ app' \in [App -> Row] /\ req' = [req EXCEPT ![w] = Idle] /\ r.stage = "ready"
      /\ \A a \in App : app'[a].status = "DISBURSED" => app[a].status = "DISBURSED"
      /\ \A a \in App : /\ app'[a].created_by = app[a].created_by
                        /\ app'[a].submitted => app'[a].status # "DRAFT"
  <2>1. CASE Commit(w)
    <3>1. r.new.status # "DISBURSED"
        BY <1>1, <1>2 DEF Trusted
    <3> QED BY <1>2, <2>1, <3>1, RowCommitted
  <2>2. CASE r.stage = "ready" /\ req' = [req EXCEPT ![w] = Idle] /\ app' = app
      BY <2>2 DEF IInv, TypeOK, SubmittedIsNoDraft
  <2> QED BY <1>1, <2>1, <2>2
<1>4. Scoring(w, r.app)
    BY <1>1, <1>2, <1>3 DEF Scoring
<1>5. r.read = Len(book) /\ \A v \in Worker : Scoring(v, r.app) => v = w
    BY <1>2, <1>4 DEF IInv, ScoringAlone
<1>6. /\ TypeOK /\ book \in Seq(Assessment) /\ r.row.terms \in Terms
      /\ assessments \in [App -> Seq(Assessment)] /\ req \in [Worker -> Request \cup {Idle}]
    BY <1>2 DEF IInv, TypeOK, Request, Row
<1> HIDE DEF r
<1>7. new \in Assessment /\ new.latest
    BY <1>6 DEF Assessment
<1>8. \A i \in 1..Len(book) : book[i] \in Assessment /\ superseded[i] \in Assessment
  <2>1. \A i \in 1..Len(book) : book[i] \in Assessment
      BY <1>6
  <2>2. \A x \in Assessment : [x EXCEPT !.latest = FALSE] \in Assessment
      BY DEF Assessment
  <2> HIDE DEF book
  <2> QED BY <2>1, <2>2
<1>9. \A i \in 1..Len(book) : ~superseded[i].latest
  <2> SUFFICES ASSUME NEW i \in 1..Len(book) PROVE ~superseded[i].latest
      OBVIOUS
  <2>1. book[i] \in Assessment /\ (book[i].latest <=> i = Len(book))
      BY <1>2, <1>8 DEF IInv, OneLatestAssessment
  <2>2. CASE i = Len(book)
      BY <1>5, <2>1, <2>2 DEF Assessment
  <2>3. CASE i # Len(book)
      BY <1>5, <2>1, <2>3
  <2> QED BY <2>2, <2>3
<1>10. superseded \in Seq(Assessment) /\ Len(superseded) = Len(book)
  <2>1. superseded = [i \in 1..Len(book) |-> superseded[i]]
      OBVIOUS
  <2> HIDE DEF superseded, book
  <2>2. superseded \in [1..Len(book) -> Assessment]
      BY <1>8, <2>1
  <2> QED BY <1>2, <2>2
<1> HIDE DEF superseded, new
<1>11. /\ Append(superseded, new) \in Seq(Assessment) /\ Len(Append(superseded, new)) = last
       /\ Append(superseded, new)[last] = new
       /\ \A i \in 1..Len(book) : Append(superseded, new)[i] = superseded[i]
    BY <1>2, <1>7, <1>10
<1>12. /\ assessments'[r.app] = Append(superseded, new)
       /\ \A a \in App : a # r.app => assessments'[a] = assessments[a]
       /\ assessments' \in [App -> Seq(Assessment)]
    BY <1>1, <1>2, <1>6, <1>11
<1>13. TypeOK'
  <2>1. req' \in [Worker -> Request \cup {Idle}]
      BY <1>3, <1>6
  <2> QED BY <1>1, <1>3, <1>6, <1>12, <2>1 DEF TypeOK
<1>14. Grown
  <2> SUFFICES ASSUME NEW a \in App
               PROVE  Len(assessments[a]) <= Len(assessments'[a])
      BY <1>1, <1>3, <1>6, Lengths DEF Grown
  <2>1. Len(assessments[a]) \in Nat
      BY <1>6, Lengths
  <2>2. CASE a = r.app
      BY <1>11, <1>12, <2>1, <2>2
  <2>3. CASE a # r.app
      BY <1>12, <2>1, <2>3
  <2> QED BY <2>2, <2>3
<1>15. /\ AllTrusted'
       /\ \A v \in Worker : req'[v] # Idle => v # w /\ req'[v] = req[v]
    BY <1>3, <1>13, <1>14, OthersTrusted
<1>16. ScoringAlone'
  <2>1. \A a \in App, v \in Worker : Scoring(v, a)' => Scoring(v, a) /\ req'[v] = req[v] /\ v # w
      BY <1>15 DEF Scoring
  <2>2. \A a \in App, v \in Worker : Scoring(v, a)' => a # r.app
      BY <1>5, <2>1
  <2> QED BY <1>12, <2>1, <2>2 DEF IInv, ScoringAlone
<1>17. OneLatestAssessment'
  <2> SUFFICES ASSUME NEW a \in App, NEW i \in 1..Len(assessments'[a])
               PROVE  assessments'[a][i].latest <=> i = Len(assessments'[a])
      BY DEF OneLatestAssessment
  <2>1. CASE a # r.app
      BY <1>12, <2>1 DEF IInv, OneLatestAssessment
  <2>2. CASE a = r.app /\ i = last
      BY <1>7, <1>11, <1>12, <2>2
  <2>3. CASE a = r.app /\ i # last
    <3>1. i \in 1..Len(book)
        BY <1>2, <1>11, <1>12, <2>3
    <3>2. ~assessments'[a][i].latest
        BY <1>9, <1>11, <1>12, <2>3, <3>1
    <3> QED BY <1>11, <1>12, <2>3, <3>2
  <2> QED BY <2>1, <2>2, <2>3
<1>18. DecidedByOther'
    BY <1>1, <1>13, <1>14, StillDecided DEF DecidedByOther
<1>19. LoanBackedByApproval'
  <2> SUFFICES ASSUME NEW a \in App, NEW i \in 1..Len(loans'[a]), NEW d,
                      d = loans'[a][i].decision
               PROVE  Approval(a, d)'
      BY DEF LoanBackedByApproval, Approval
  <2> QED BY <1>1, <1>13, <1>14, StillBacked
<1>20. DisbursedWithOneLoan' /\ SubmittedIsNoDraft'
    BY <1>1, <1>3 DEF IInv, DisbursedWithOneLoan, SubmittedIsNoDraft
<1> QED BY <1>13, <1>15, <1>16, <1>17, <1>18, <1>19, <1>20 DEF IInv

\* The commit of decide: the row decides against an assessment on file.
LEMMA InvariantDecision ==
    ASSUME IInv, NEW w \in Worker, CommitDecision(w)
    PROVE  IInv'
<1> DEFINE r == req[w]
           new == [final |-> r.final, by |-> r.by, assessment |-> r.read, moment |-> r.moment]
           last == Len(decisions[r.app]) + 1
<1>1. /\ r.op = "decide" /\ Commit(w)
      /\ decisions' = [decisions EXCEPT ![r.app] = Append(@, new)]
      /\ assessments' = assessments /\ loans' = loans /\ submitters' = submitters
    BY DEF CommitDecision
<1>2. r # Idle /\ r \in Request /\ Trusted(r) /\ r.app \in App
    BY <1>1, UnderWay
<1>3. /\ app' \in [App -> Row] /\ req' = [req EXCEPT ![w] = Idle] /\ r.stage = "ready"
      /\ \A a \in App : a # r.app => app'[a] = app[a]
      /\ app'[r.app].status \in {app[r.app].status, r.new.status}
      /\ \A a \in App : /\ app'[a].created_by = app[a].created_by
                        /\ app'[a].submitted => app'[a].status # "DRAFT"
    BY <1>1, <1>2, RowCommitted
<1>4. /\ r.new.status # "DISBURSED" /\ r.by # app[r.app].created_by
      /\ r.read \in 1..Len(assessments[r.app])
    BY <1>1, <1>2, <1>3 DEF Trusted
<1>5. /\ new \in UnderwritingDecision /\ new.by = r.by /\ new.assessment = r.read
    BY <1>2 DEF Request, UnderwritingDecision
<1> HIDE DEF r, new
<1>6. /\ TypeOK /\ decisions \in [App -> Seq(UnderwritingDecision)]
      /\ req \in [Worker -> Request \cup {Idle}]
    BY DEF IInv, TypeOK
<1>7. /\ Len(decisions[r.app]) \in Nat
      /\ Append(decisions[r.app], new) \in Seq(UnderwritingDecision)
      /\ Len(Append(decisions[r.app], new)) = last
      /\ Append(decisions[r.app], new)[last] = new
      /\ \A i \in 1..Len(decisions[r.app]) :
           Append(decisions[r.app], new)[i] = decisions[r.app][i]
  <2>1. decisions[r.app] \in Seq(UnderwritingDecision)
      BY <1>2, <1>6
  <2> QED BY <1>5, <2>1
<1>8. /\ decisions'[r.app] = Append(decisions[r.app], new)
      /\ \A a \in App : a # r.app => decisions'[a] = decisions[a]
      /\ decisions' \in [App -> Seq(UnderwritingDecision)]
    BY <1>1, <1>2, <1>6, <1>7
<1>9. TypeOK'
  <2>1. req' \in [Worker -> Request \cup {Idle}]
      BY <1>3, <1>6
  <2> QED BY <1>1, <1>3, <1>6, <1>8, <2>1 DEF TypeOK
<1>10. Grown
  <2> SUFFICES ASSUME NEW a \in App
               PROVE  /\ Len(decisions[a]) <= Len(decisions'[a])
                      /\ \A i \in 1..Len(decisions[a]) : decisions'[a][i] = decisions[a][i]
      BY <1>1, <1>3, <1>6, Lengths DEF Grown
  <2>1. Len(decisions[a]) \in Nat
      BY <1>6, Lengths
  <2>2. CASE a = r.app
      BY <1>7, <1>8, <2>1, <2>2
  <2>3. CASE a # r.app
      BY <1>8, <2>1, <2>3
  <2> QED BY <2>2, <2>3
<1>11. AllTrusted' /\ ScoringAlone'
    BY <1>1, <1>3, <1>9, <1>10, OthersTrusted, ScoringUndisturbed
<1>12. DecidedByOther'
  <2> SUFFICES ASSUME NEW a \in App, NEW i \in 1..Len(decisions'[a])
               PROVE  /\ decisions'[a][i].by # app'[a].created_by
                      /\ decisions'[a][i].assessment \in 1..Len(assessments'[a])
      BY DEF DecidedByOther
  <2>1. CASE i \in 1..Len(decisions[a])
      BY <1>9, <1>10, <2>1, StillDecided
  <2>2. CASE i \notin 1..Len(decisions[a])
    <3>1. a = r.app
        BY <1>8, <2>2
    <3>2. i = last
        BY <1>7, <1>8, <2>2, <3>1
    <3>3. decisions'[a][i] = new
        BY <1>7, <1>8, <3>1, <3>2
    <3> QED BY <1>1, <1>2, <1>3, <1>4, <1>5, <3>1, <3>3
  <2> QED BY <2>1, <2>2
<1>13. LoanBackedByApproval'
  <2> SUFFICES ASSUME NEW a \in App, NEW i \in 1..Len(loans'[a]), NEW d,
                      d = loans'[a][i].decision
               PROVE  Approval(a, d)'
      BY DEF LoanBackedByApproval, Approval
  <2> QED BY <1>1, <1>9, <1>10, StillBacked
<1>14. DisbursedWithOneLoan' /\ SubmittedIsNoDraft'
  <2>1. \A a \in App : app'[a].status = "DISBURSED" => app[a].status = "DISBURSED"
      BY <1>3, <1>4
  <2> QED BY <1>1, <1>3, <2>1 DEF IInv, DisbursedWithOneLoan, SubmittedIsNoDraft
<1>15. OneLatestAssessment'
    BY <1>1 DEF IInv, OneLatestAssessment
<1> QED BY <1>9, <1>11, <1>12, <1>13, <1>14, <1>15 DEF IInv

\* The commit of book_loan: one loan, on an approval that still stands.
LEMMA InvariantBooking ==
    ASSUME IInv, NEW w \in Worker, CommitBooking(w)
    PROVE  IInv'
<1> DEFINE r == req[w]
           new == [decision |-> r.read]
<1>1. /\ r.op = "book" /\ Commit(w) /\ loans[r.app] = << >>
      /\ loans' = [loans EXCEPT ![r.app] = Append(@, new)]
      /\ assessments' = assessments /\ decisions' = decisions /\ submitters' = submitters
    BY DEF CommitBooking
<1>2. r # Idle /\ r \in Request /\ Trusted(r) /\ r.app \in App
    BY <1>1, UnderWay
<1>3. /\ app' \in [App -> Row] /\ req' = [req EXCEPT ![w] = Idle] /\ r.stage = "ready"
      /\ \A a \in App : a # r.app => app'[a] = app[a]
      /\ \A a \in App : /\ app'[a].created_by = app[a].created_by
                        /\ app'[a].submitted => app'[a].status # "DRAFT"
    BY <1>1, <1>2, RowCommitted
<1>4. Approval(r.app, r.read)
    BY <1>1, <1>2, <1>3 DEF Trusted
<1>5. new \in Loan /\ new.decision = r.read
    BY <1>2 DEF Request, Loan
<1> HIDE DEF r, new
<1>6. /\ TypeOK /\ loans \in [App -> Seq(Loan)] /\ req \in [Worker -> Request \cup {Idle}]
    BY DEF IInv, TypeOK
<1>7. Append(<< >>, new) = <<new>> /\ <<new>> \in Seq(Loan) /\ Len(<<new>>) = 1
      /\ <<new>>[1] = new /\ <<new>> # << >>
    BY <1>5
<1>8. /\ loans'[r.app] = <<new>>
      /\ \A a \in App : a # r.app => loans'[a] = loans[a]
      /\ loans' \in [App -> Seq(Loan)]
    BY <1>1, <1>2, <1>6, <1>7
<1>9. TypeOK'
  <2>1. req' \in [Worker -> Request \cup {Idle}]
      BY <1>3, <1>6
  <2> QED BY <1>1, <1>3, <1>6, <1>8, <2>1 DEF TypeOK
<1>10. Grown
    BY <1>1, <1>3, <1>6, Lengths DEF Grown
<1>11. AllTrusted' /\ ScoringAlone'
    BY <1>1, <1>3, <1>9, <1>10, OthersTrusted, ScoringUndisturbed
<1>12. OneLatestAssessment' /\ DecidedByOther'
    BY <1>1, <1>3 DEF IInv, OneLatestAssessment, DecidedByOther
<1>13. LoanBackedByApproval'
  <2> SUFFICES ASSUME NEW a \in App, NEW i \in 1..Len(loans'[a]), NEW d,
                      d = loans'[a][i].decision
               PROVE  Approval(a, d)'
      BY DEF LoanBackedByApproval, Approval
  <2>1. CASE a = r.app
    <3>1. i = 1 /\ d = r.read
        BY <1>5, <1>7, <1>8, <2>1
    <3>2. Approval(a, d)
        BY <1>4, <2>1, <3>1
    <3> QED BY <1>6, <1>9, <1>10, <3>2, StillApproved
  <2>2. CASE a # r.app
      BY <1>8, <1>9, <1>10, <2>2, StillBacked
  <2> QED BY <2>1, <2>2
<1>14. DisbursedWithOneLoan'
  <2> SUFFICES ASSUME NEW a \in App
               PROVE  /\ Len(loans'[a]) <= 1
                      /\ app'[a].status = "DISBURSED" => loans'[a] # << >>
      BY DEF DisbursedWithOneLoan
  <2>1. CASE a = r.app
    <3>1. loans'[a] = <<new>>
        BY <1>8, <2>1
    <3>2. Len(loans'[a]) = 1
        BY <1>7, <3>1
    <3>3. loans'[a] # << >>
        BY <1>7, <3>1
    <3> QED BY <3>2, <3>3
  <2>2. CASE a # r.app
      BY <1>3, <1>8, <2>2 DEF IInv, DisbursedWithOneLoan
  <2> QED BY <2>1, <2>2
<1>15. SubmittedIsNoDraft'
    BY <1>3 DEF SubmittedIsNoDraft
<1> QED BY <1>9, <1>11, <1>12, <1>13, <1>14, <1>15 DEF IInv

\* As created: nothing assessed, decided or booked, no request under way.
LEMMA InvariantInit == Init => IInv
<1> SUFFICES ASSUME Init PROVE IInv
    OBVIOUS
<1> DEFINE Draft(u, t) == [status |-> "DRAFT", created_by |-> u, updated_by |-> NoUser,
                           submitted |-> FALSE, terms |-> t]
<1>1. /\ app \in [App -> {Draft(u, t) : u \in User, t \in Terms}]
      /\ submitters = [a \in App |-> {}] /\ assessments = [a \in App |-> << >>]
      /\ decisions = [a \in App |-> << >>] /\ loans = [a \in App |-> << >>]
      /\ req = [w \in Worker |-> Idle]
    BY DEF Init
<1>2. ASSUME NEW a \in App
      PROVE  app[a] \in Row /\ app[a].status = "DRAFT" /\ ~app[a].submitted
  <2>1. PICK u \in User, t \in Terms : app[a] = Draft(u, t)
      BY <1>1
  <2>2. Draft(u, t) \in Row /\ Draft(u, t).status = "DRAFT" /\ ~Draft(u, t).submitted
      BY DEF Row, Status
  <2> HIDE DEF Draft
  <2> QED BY <2>1, <2>2
<1>3. app \in [App -> Row]
  <2>1. app = [a \in App |-> app[a]]
      BY <1>1
  <2> QED BY <1>2, <2>1
<1>4. \A w \in Worker : req[w] = Idle
    BY <1>1
<1>5. \A a \in App : /\ Len(assessments[a]) = 0 /\ Len(decisions[a]) = 0 /\ Len(loans[a]) = 0
                     /\ app[a].status = "DRAFT" /\ ~app[a].submitted
    BY <1>1, <1>2
<1>6. TypeOK
    BY <1>1, <1>3 DEF TypeOK
<1>7. AllTrusted /\ ScoringAlone
    BY <1>4 DEF AllTrusted, ScoringAlone, Scoring
<1>8. /\ OneLatestAssessment /\ DecidedByOther /\ LoanBackedByApproval
      /\ DisbursedWithOneLoan /\ SubmittedIsNoDraft
    BY <1>5 DEF OneLatestAssessment, DecidedByOther, LoanBackedByApproval,
                DisbursedWithOneLoan, SubmittedIsNoDraft
<1> QED BY <1>6, <1>7, <1>8 DEF IInv

\* Every step of a request keeps the invariant.
LEMMA InvariantStep == IInv /\ [Next]_vars => IInv'
<1> SUFFICES ASSUME IInv, [Next]_vars PROVE IInv'
    OBVIOUS
<1>1. CASE UNCHANGED vars
  <2>1. /\ app' = app /\ submitters' = submitters /\ assessments' = assessments
        /\ decisions' = decisions /\ loans' = loans /\ req' = req
      BY <1>1 DEF vars
  <2>2. TypeOK' /\ OneLatestAssessment' /\ DecidedByOther' /\ LoanBackedByApproval'
        /\ DisbursedWithOneLoan' /\ SubmittedIsNoDraft'
      BY <2>1 DEF IInv, TypeOK, OneLatestAssessment, DecidedByOther, LoanBackedByApproval,
                  DisbursedWithOneLoan, SubmittedIsNoDraft
  <2>3. AllTrusted' /\ ScoringAlone'
      BY <2>1 DEF IInv, AllTrusted, Trusted, Approval, ScoringAlone, Scoring
  <2> QED BY <2>2, <2>3 DEF IInv
<1>2. CASE Next
    BY <1>2, InvariantBegin, InvariantConsult, InvariantRow, InvariantAssessment,
       InvariantDecision, InvariantBooking DEF Next, Proceed
<1> QED BY <1>1, <1>2

\* The handlers keep IInv, however their reads, flushes and commits alternate.
THEOREM Invariant == Spec => []IInv
    BY InvariantInit, InvariantStep, PTL DEF Spec

\* Rows, copies and requests have their types.
THEOREM TypeCorrect == Spec => []TypeOK
<1>1. IInv => TypeOK
    BY DEF IInv
<1> QED BY <1>1, Invariant, PTL

\* book_loan, _enforce_maker_checker: a loan rests on an approval by somebody who did not raise
\* the file, given on an assessment of it, however requests overlap.
THEOREM LoansBacked == Spec => []LoanBackedByApproval
<1>1. IInv => LoanBackedByApproval
    BY DEF IInv
<1> QED BY <1>1, Invariant, PTL

\* _persist: the chain of is_latest flags neither forks nor breaks.
THEOREM OneLatest == Spec => []OneLatestAssessment
<1>1. IInv => OneLatestAssessment
    BY DEF IInv
<1> QED BY <1>1, Invariant, PTL

\* book_loan: one loan for a file, and no file says DISBURSED without it.
THEOREM DisbursedHasLoan == Spec => []DisbursedWithOneLoan
<1>1. IInv => DisbursedWithOneLoan
    BY DEF IInv
<1> QED BY <1>1, Invariant, PTL

\* The unit of work: an edit in flight at the submission does not undo it.
THEOREM SubmissionStays == Spec => SubmissionNotUndone
<1>1. ASSUME IInv, [Next]_vars, NEW a \in App, app[a].submitted
      PROVE  app'[a].submitted /\ app'[a].status # "DRAFT"
  <2>1. app[a].status # "DRAFT"
      BY <1>1 DEF IInv, SubmittedIsNoDraft
  <2>2. CASE app' = app
      BY <1>1, <2>1, <2>2
  <2>3. ASSUME NEW w \in Worker, req[w] # Idle, Commit(w)
        PROVE  app'[a].submitted /\ app'[a].status # "DRAFT"
      BY <1>1, <2>3, RowCommitted
  <2>4. ASSUME NEW w \in Worker,
               CommitRow(w) \/ CommitAssessment(w) \/ CommitDecision(w) \/ CommitBooking(w)
        PROVE  app'[a].submitted /\ app'[a].status # "DRAFT"
    <3>1. req[w] # Idle
        BY <1>1, <2>4, UnderWay
           DEF CommitRow, CommitAssessment, CommitDecision, CommitBooking
    <3>2. Commit(w) \/ app' = app
        BY <2>4 DEF CommitRow, CommitAssessment, CommitDecision, CommitBooking
    <3> QED BY <2>2, <2>3, <3>1, <3>2
  <2>5. ASSUME NEW w \in Worker, NEW b \in App, NEW u \in User, Begin(w, b, u)
        PROVE  app' = app
      BY <2>5 DEF Begin, BeginUpdate, BeginSubmit, BeginWithdraw, BeginAssess, BeginDecide,
                  BeginBook, Accept
  <2>6. ASSUME NEW w \in Worker,
               \/ Claim(w) \/ Score(w) \/ Consult(w) \/ CheckBooking(w)
               \/ RefuseBooking(w) \/ Abort(w)
        PROVE  app' = app
      BY <2>6 DEF Claim, Score, Consult, CheckBooking, RefuseBooking, Abort, Release, Advance
  <2> QED BY <1>1, <2>2, <2>4, <2>5, <2>6 DEF Next, Proceed, vars
<1>2. IInv /\ [Next]_vars =>
        [\A a \in App : app[a].submitted => app'[a].submitted /\ app'[a].status # "DRAFT"]_vars
    BY <1>1
<1> QED BY <1>2, Invariant, PTL DEF Spec, SubmissionNotUndone
===============================================================================
