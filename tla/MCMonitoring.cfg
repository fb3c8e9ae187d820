CONSTANTS
    l1 = l1
    w1 = w1
    w2 = w2
    o1 = o1
    nobody = nobody
    Loan = {l1}
    Worker = {w1, w2}
    Officer = {o1}
    NoOfficer = nobody
    Seeded <- MCSeeded
    Switched <- MCSwitched
    Arrears <- MCArrears
    Histories <- MCHistories
    Answers <- MCAnswers
    Today0 = 100
    Nights = 1
    MaxEvents = 2
SYMMETRY Symmetric
CONSTRAINT MCOverlap
SPECIFICATION Spec
INVARIANTS
    QueueMatchesRules
    StandstillNoticed
    WorseIsNeverGreener
PROPERTIES
    ClosedStaysClosed
    RerunChangesNothing
CHECK_DEADLOCK FALSE
