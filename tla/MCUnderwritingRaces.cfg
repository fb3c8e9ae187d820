SPECIFICATION Spec
CONSTANTS
    App = {a1}
    User = {maker, officer}
    NoUser = NoUser
    Terms = {modest}
    Worker = {w1, w2}
    MaxAssessments = 3
    MaxMoment = 2
INVARIANTS
    DisbursedWithOneLoan
    OneLatestAssessment
    LoanBackedByApproval
PROPERTIES
    SubmissionNotUndone
    EveryRequestEnds
CHECK_DEADLOCK FALSE
