SPECIFICATION Spec
CONSTANTS
    App = {a1}
    User = {maker, officer, chief}
    Overrider = {chief}
    NoUser = NoUser
    dear = dear
    cheap = cheap
    Vehicle <- MCVehicle
    Terms = {modest, large}
    Amount <- MCAmount
    Ltv <- MCLtv
    Price <- MCPrice
    MaxAssessments = 2
INVARIANTS
    TypeOK
    FourEyes
    AssessedOnCarriedTerms
    SanctionWithinPolicy
    StatusBacked
PROPERTIES
    MovesFollowTable
    ImplementsContract
CHECK_DEADLOCK FALSE
