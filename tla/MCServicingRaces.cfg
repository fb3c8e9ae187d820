SPECIFICATION RacesSpec
CONSTANTS
    Installments = 2
    DueDate <- MCDueDate
    Loan = {l1}
    Due <- MCDue
    Amount = {1, 4}
    Date = {10, 41}
    Key = {k1}
    NoKey = NoKey
    Worker = {w1, w2}
    MaxReceipts = 2
INVARIANTS
    OneReceiptPerKey
    ScheduleBackedByReceipts
PROPERTIES
    ClosedStaysClosed
CHECK_DEADLOCK FALSE
