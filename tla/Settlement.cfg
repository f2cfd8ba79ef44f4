SPECIFICATION Spec
CONSTANTS
    Invoices = {1, 2}
    Payments = {p1, p2}
    Refunds = {r1, r2}
    Clients = {a, b}
    None = None
    BillAmounts <- SomeBillAmounts
    PayAmounts = {2}
    RefundAmounts = {1}
    MaxBilled = 2
    MaxOverlapInvoices = 1
    Requests <- AllRequests
SYMMETRY RowSymmetry
INVARIANTS
    RefundsCovered
    CanceledPaymentHoldsNothing
    SummaryTrue
    NeverOverpaid
    CanceledInvoiceHoldsNothing
PROPERTIES
    LedgerSpec
    OldestDebtFirst
CHECK_DEADLOCK FALSE
