SPECIFICATION Spec
CONSTANTS
    Quotations = {q}
    Orders = {o1, o2}
    Lines = {l1, l2}
    Assets = {x}
    Clients = {a, b}
    None = None
    Requests <- AllRequests
    MaxOpenOrders = 1
    MaxOverlapOrders = 1
    Mixed = FALSE
SYMMETRY RowSymmetry
INVARIANTS
    SalesAddUp
    DeliveredAsBilled
    ConvertedOnce
    
CHECK_DEADLOCK FALSE
