SPECIFICATION Spec
CONSTANTS
    Installments = 2
    DueDate <- MCDueDate
    Loan = {l1, l2}
    Due <- MCDue
    Amount = {1, 2, 5}
    Date = {10, 40, 41, 200}
    Key = {k1}
    NoKey = NoKey
    MaxReceipts = 3
INVARIANT RetryIsAnswered
CHECK_DEADLOCK FALSE
