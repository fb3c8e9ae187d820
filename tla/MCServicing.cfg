SPECIFICATION Spec
CONSTANTS
    Installments = 2
    DueDate <- MCDueDate
    Loan = {l1, l2}
    Due <- MCDue
    Amount = {1, 2, 5}
    Date = {10, 40, 41, 200}
    Key = {k1}
    NoKey = NoKey
    MaxReceipts = 3
INVARIANTS
    TypeOK
    PaymentsAccounted
    ExcessOnlyAtTheEnd
    OldestFirst
    ClosedExactlyWhenSettled
    PositionCoherent
PROPERTIES
    ImplementsReceivable
CHECK_DEADLOCK FALSE
