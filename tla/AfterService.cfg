SPECIFICATION Spec
CONSTANTS
    Inquiries = {i}
    Visits = {v1, v2}
    Schedules = {s}
    Assets = {x}
    Clients = {a, b}
    None = None
    Operations <- AllOperations
    AfterVisit = {"AVAILABLE", "REPAIR"}
    MaxOverlapping = 1
SYMMETRY RowSymmetry
INVARIANTS
    PaidForWorkDone
    FeeBilledOnce
    RequestFollowsVisits
PROPERTIES
    ClosedForGood
    EveryChangeIsRecorded
CHECK_DEADLOCK FALSE
