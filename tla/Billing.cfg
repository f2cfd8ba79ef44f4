SPECIFICATION Spec
CONSTANTS
    Contracts = {c}
    Readings = {r1, r2, r3}
    Clients = {a}
    None = None
    FirstDay <- ShortThenLong
    Free <- NothingFree
    MaxCount = 1
    Entered <- ColorOrNone
    Plans <- EachPlan
    Backdating = 1
    MaxOverlapReadings = 2
SYMMETRY RowSymmetry
INVARIANTS
    BilledForItsMonth
    NoMonthLeftOut
    FeesNeverBilled
    ReadingsAddUp
PROPERTIES
    ChargedOnce
CHECK_DEADLOCK FALSE
