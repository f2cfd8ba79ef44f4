SPECIFICATION Spec
CONSTANTS
    Contracts = {c1, c2}
    Items = {i1, i2, i3}
    Assets = {a1, a2}
    Clients = {w1, w2}
    Cron = cron
    None = None
    Requests <- OverlapRequests
    ManualTargets = {}
    Expirable = {}
    Overlap = "any"
SYMMETRY RowSymmetry
CHECK_DEADLOCK FALSE
INVARIANTS NothingRentedBeforeActivation OneActiveItemPerAsset
PROPERTIES HandedOverOnlyInForce CustodySpec
