SPECIFICATION Spec
CONSTANTS
    User = {u1}
    Password = {p1, p2, p3}
    Acceptable = {p1, p2}
    NoRow = NoRow
    Worker = {w1, w2}
    MaxFailedAttempts = 2
    Lockout = 1
    RefreshLife = 3
    AbsoluteTimeout = 2
    ResetLife = 1
    HistoryDepth = 1
    LOGIN_LIMIT <- MCLoginLimit
    MaxMoment = 3
    MaxRequests = 4
SYMMETRY MCSymmetry
INVARIANTS
    RotatedOnce
    FamilyRevokedTogether
    OldCredentialsDie
PROPERTIES
    RevokedStaysDead
    LockoutHolds
CHECK_DEADLOCK FALSE
