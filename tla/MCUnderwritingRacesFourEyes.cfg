SPECIFICATION Spec
CONSTANTS
    App = {a1}
    User = {maker, officer}
    NoUser = NoUser
    Terms = {modest}
    Worker = {w1, w2}
    MaxAssessments = 2
    MaxMoment = 2
INVARIANT
    FourEyes
CHECK_DEADLOCK FALSE
