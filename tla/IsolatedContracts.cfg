SPECIFICATION Spec
CONSTANTS
    Contracts = {c1, c2}
    Items = {i1, i2, i3, i4}
    Assets = {a1, a2}
    Clients = {w1, w2}
    Cron = cron
    None = None
    Requests <- IsolatedRequests
    ManualTargets = {}
    Expirable = {}
    Overlap = "perContract"
SYMMETRY RowSymmetry
CHECK_DEADLOCK FALSE
INVARIANTS TypeOK RentedIffHeld ClosedContractHoldsNothing NothingPendingAfterActivation ActiveContractWasDelivered
